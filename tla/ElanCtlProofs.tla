--------------------------- MODULE ElanCtlProofs ---------------------------
(***************************************************************************)
(* The front-end implements the library's general client, so Driver's      *)
(* theorems hold of it; as it never mints a token, it never writes.        *)
(* Which call a process is in follows from its stage (CallsOfStages), and  *)
(* every request on the device is waited for or counted as abandoned       *)
(* (RequestsCounted).  From these: what identify and info print (TruthInv),*)
(* what an answered abort leaves behind (AbortInv), and that every step    *)
(* brings a subcommand nearer its end (NearsEnd).                          *)
(***************************************************************************)
EXTENDS ElanCtl, DriverProofs

LEMMA OkIsSlot ==
  ASSUME NEW b \in Byte, FromByte(b) = "Ok"
  PROVE  b \in 0..15
<1>1. b \div 16 = 0
  BY DEF FromByte
<1> QED
  BY <1>1 DEF Byte

\* What the stages after a result rest on.
LEMMA OkTyped ==
  ASSUME NEW r \in Results, Ok(r)
  PROVE  r.reply \in Replies /\ r.reply.b1 \in Byte
BY DEF Results, Ok, Replies

StageRecords == [at : CallStages \cup {"start", "done"}, idx : 0..15, n : 0..MaxPrints]

LEMMA ListTyped ==
  ASSUME NEW at \in {"slot", "rawslot"}, NEW from \in 0..16, NEW n \in 0..MaxPrints
  PROVE  /\ ListSlots(at, from, n) \in StageRecords
         /\ ListSlots(at, from, n).at \in {at, "done"}
BY SensorAssumption DEF ListSlots, Slot, At, CallStages, StageRecords

LEMMA NextStageTyped ==
  ASSUME CtlTypeOK, NEW p \in Procs, phase[p] = "ready"
  PROVE  /\ NextStage(p) \in StageRecords
         /\ NextStage(p).at \in (StagesOf(sub[p]) \ {"start"}) \cup {"done"}
         /\ sub[p] \in {"info", "dump", "collision", "identify"}
<1> DEFINE s == stage[p]
           r == res[p]
<1>1. /\ s \in StageRecords /\ s.at \in StagesOf(sub[p])
      /\ s.at # "start" => r \in Results
      /\ s.idx + 1 \in 0..16 /\ s.n \in 0..MaxPrints
  BY DEF CtlTypeOK, TypeOK, StageRecords
<1>2. sub[p] \in {"info", "dump", "collision", "identify"}
  BY ElanCtlAssumption DEF CtlTypeOK
<1>3. \A at \in CallStages \cup {"done"} : At(at) \in StageRecords /\ At(at).at = at
  BY SensorAssumption DEF At, StageRecords
<1>4. 0 \in 0..16 /\ 0 \in 0..MaxPrints /\ MaxPrints \in 0..MaxPrints
  BY SensorAssumption
<1>5. CASE sub[p] = "info"
  <2>0. NextStage(p) = InfoNext(s, r) /\ StagesOf(sub[p]) = {"start", "fw", "count", "slot"}
    BY <1>5 DEF NextStage, StagesOf
  <2>1. CASE s.at = "start" \/ s.at = "fw"
    BY <1>2, <1>3, <2>0, <2>1 DEF InfoNext, CallStages
  <2>2. CASE s.at = "count"
    <3>1. AtMost(EnrolledCount(r), MaxPrints) \in 0..MaxPrints
      <4>1. EnrolledCount(r) \in Nat
        BY <1>1, <2>2, OkTyped DEF EnrolledCount, Counted, Byte
      <4> QED
        BY <4>1, SensorAssumption DEF AtMost
    <3>2. NextStage(p) = ListSlots("slot", 0, AtMost(EnrolledCount(r), MaxPrints))
      BY <2>0, <2>2 DEF InfoNext
    <3> QED
      BY <1>2, <1>4, <2>0, <3>1, <3>2, ListTyped
  <2>3. CASE s.at = "slot"
    <3>1. NextStage(p) = ListSlots("slot", s.idx + 1, s.n)
      BY <2>0, <2>3 DEF InfoNext
    <3> QED
      BY <1>1, <1>2, <2>0, <3>1, ListTyped
  <2> QED
    BY <1>1, <2>0, <2>1, <2>2, <2>3
<1>6. CASE sub[p] = "dump"
  <2>0. /\ NextStage(p) = DumpNext(s, r)
        /\ StagesOf(sub[p]) = {"start", "fw", "rawcount", "rawslot"}
    BY <1>6 DEF NextStage, StagesOf
  <2>1. CASE s.at = "start" \/ s.at = "fw"
    BY <1>2, <1>3, <2>0, <2>1 DEF DumpNext, CallStages
  <2>2. CASE s.at = "rawcount"
    <3>1. NextStage(p) = ListSlots("rawslot", 0, MaxPrints)
      BY <2>0, <2>2 DEF DumpNext
    <3> QED
      BY <1>2, <1>4, <2>0, <3>1, ListTyped
  <2>3. CASE s.at = "rawslot"
    <3>1. NextStage(p) = ListSlots("rawslot", s.idx + 1, s.n)
      BY <2>0, <2>3 DEF DumpNext
    <3> QED
      BY <1>1, <1>2, <2>0, <3>1, ListTyped
  <2> QED
    BY <1>1, <2>0, <2>1, <2>2, <2>3
<1>7. CASE sub[p] = "collision"
  BY <1>2, <1>3, <1>7 DEF NextStage, CollisionNext, StagesOf, CallStages
<1>8. CASE sub[p] = "identify"
  <2>0. /\ NextStage(p) = IdentifyNext(s, r)
        /\ StagesOf(sub[p]) = {"start", "count", "identify", "slot", "abort"}
    BY <1>8 DEF NextStage, StagesOf
  <2>1. CASE s.at \in {"start", "count", "slot", "abort"}
    BY <1>2, <1>3, <2>0, <2>1 DEF IdentifyNext, CallStages
  <2>2. CASE s.at = "identify"
    <3>1. NextStage(p) = AfterIdentify(r) /\ r \in Results
      BY <1>1, <2>0, <2>2 DEF IdentifyNext
    <3>2. CASE Ok(r) /\ r.reply.len >= 2 /\ FromByte(r.reply.b1) = "Ok"
      <4>1. r.reply.b1 \in 0..15
        BY <3>1, <3>2, OkTyped, OkIsSlot
      <4>2. NextStage(p) = Slot("slot", r.reply.b1, 0)
        BY <3>1, <3>2 DEF AfterIdentify
      <4> QED
        BY <1>2, <1>4, <2>0, <4>1, <4>2 DEF Slot, StageRecords, CallStages
    <3>3. CASE ~(Ok(r) /\ r.reply.len >= 2 /\ FromByte(r.reply.b1) = "Ok")
      BY <1>2, <1>3, <2>0, <3>1, <3>3 DEF AfterIdentify, CallStages
    <3> QED
      BY <3>2, <3>3
  <2> QED
    BY <1>1, <2>0, <2>1, <2>2
<1> QED
  BY <1>2, <1>5, <1>6, <1>7, <1>8

(***************************************************************************)
(* Every step of the front-end is one of the library's.                    *)
(***************************************************************************)
LEMMA StageCallable ==
  ASSUME NEW s \in StageRecords, s.at \in CallStages, NEW p \in Procs
  PROVE  CallAt(s) \in Callable(p)
<1>1. CallAt(s) = CallAt(Slot(s.at, s.idx, 0))
  BY DEF CallAt, SlotCall, Slot
<1>2. s.idx \in 0..15
  BY DEF StageRecords
<1>3. CallAt(s) \in ClientCalls
  BY <1>1, <1>2, CliCallsAssumption DEF CliCalls
<1>4. /\ CallAt(s).mode # "destructive"
      /\ CallAt(s).mode = "retrying" =>
           CallAt(s).cmd \in {"get_enrolled_count", "finger_info"}
  BY DEF CallAt, SlotCall, AbortCall, C, CallStages
<1> QED
  BY <1>3, <1>4 DEF Callable

LEMMA ContinueCalls ==
  ASSUME CtlTypeOK, NEW p \in Procs, Continue(p)
  PROVE  \/ Close(p)
         \/ /\ NextStage(p).at # "done"
            /\ CallAt(NextStage(p)) \in Callable(p)
            /\ StartCall(p, CallAt(NextStage(p)))
<1>1. phase[p] = "ready"
  BY DEF Continue
<1>2. NextStage(p) \in StageRecords
      /\ NextStage(p).at \in (StagesOf(sub[p]) \ {"start"}) \cup {"done"}
  BY <1>1, NextStageTyped
<1>3. CASE NextStage(p).at = "done"
  BY <1>3 DEF Continue
<1>4. CASE NextStage(p).at # "done"
  <2>1. NextStage(p).at \in CallStages
    BY <1>2, <1>4 DEF StageRecords
  <2> QED
    BY <1>2, <1>4, <2>1, StageCallable DEF Continue
<1> QED
  BY <1>3, <1>4

LEMMA CtlStepIsLibraryStep == CtlTypeOK /\ [CtlNext]_ctlVars => [Next]_vars
<1> SUFFICES ASSUME CtlTypeOK, [CtlNext]_ctlVars PROVE [Next]_vars
  OBVIOUS
<1>1. ASSUME NEW p \in Procs, Start(p) \/ CtrlC(p) \/ Library(p) PROVE Next
  BY <1>1 DEF Start, CtrlC, Library, Next
<1>2. ASSUME NEW p \in Procs, Continue(p) PROVE Next
  BY <1>2, ContinueCalls DEF Next
<1>3. ASSUME (SensorNext /\ UNCHANGED <<procVars, sub, stage>>) \/ Replug PROVE Next
  BY <1>3 DEF Next, procVars
<1>4. CASE UNCHANGED ctlVars
  BY <1>4 DEF ctlVars
<1> QED
  BY <1>1, <1>2, <1>3, <1>4 DEF CtlNext

\* Which step moves which stage.
LEMMA CtlTypeStep == CtlTypeOK /\ TypeOK' /\ [CtlNext]_ctlVars => CtlTypeOK'
<1> SUFFICES ASSUME CtlTypeOK, TypeOK', [CtlNext]_ctlVars PROVE CtlTypeOK'
  OBVIOUS
<1> USE DEF StageRecords
<1>t. /\ TypeOK /\ stage \in [Procs -> StageRecords]
      /\ sub \in [Procs -> Subcommands \cup {"none"}]
  BY DEF CtlTypeOK
<1>s. \A at \in CallStages \cup {"start", "done"} : At(at) \in StageRecords /\ At(at).at = at
  BY SensorAssumption DEF At
<1>1. ASSUME NEW p \in Procs, Start(p) PROVE CtlTypeOK'
  <2>1. PICK c \in Subcommands : sub' = [sub EXCEPT ![p] = c]
    BY <1>1 DEF Start
  <2>2. c # "none" /\ "start" \in StagesOf(c)
    BY ElanCtlAssumption DEF StagesOf
  <2>3. /\ stage' = [stage EXCEPT ![p] = At("start")]
        /\ phase' = [phase EXCEPT ![p] = "ready"] /\ res' = res
    BY <1>1 DEF Start, Open
  <2> QED
    BY <1>t, <1>s, <2>1, <2>2, <2>3 DEF CtlTypeOK, TypeOK
<1>2. ASSUME NEW p \in Procs, Continue(p) PROVE CtlTypeOK'
  <2>1. /\ NextStage(p) \in StageRecords
        /\ NextStage(p).at \in (StagesOf(sub[p]) \ {"start"}) \cup {"done"}
        /\ stage' = [stage EXCEPT ![p] = NextStage(p)]
    BY <1>2, NextStageTyped DEF Continue
  <2>2. CASE NextStage(p).at = "done"
    <3>1. /\ phase' = [phase EXCEPT ![p] = "closed"] /\ sub' = [sub EXCEPT ![p] = "none"]
          /\ res' = [res EXCEPT ![p] = NoRes]
      BY <1>2, <2>2 DEF Continue, Close
    <3> QED
      BY <1>t, <2>1, <2>2, <3>1 DEF CtlTypeOK, TypeOK
  <2>3. CASE NextStage(p).at # "done"
    <3>1. /\ phase' = [phase EXCEPT ![p] = "send"] /\ sub' = sub
          /\ res' = [res EXCEPT ![p] = NoRes] /\ phase[p] = "ready"
      BY <1>2, <2>3 DEF Continue, StartCall
    <3> QED
      BY <1>t, <2>1, <2>3, <3>1 DEF CtlTypeOK, TypeOK
  <2> QED
    BY <2>2, <2>3
<1>3. ASSUME NEW p \in Procs, CtrlC(p) PROVE CtlTypeOK'
  <2>1. /\ stage' = [stage EXCEPT ![p] = At("done")]
        /\ sub' = [sub EXCEPT ![p] = "none"]
        /\ phase' = [phase EXCEPT ![p] = "closed"]
        /\ res' = [res EXCEPT ![p] = NoRes]
    BY <1>3 DEF CtrlC, Interrupt
  <2> QED
    BY <1>t, <1>s, <2>1 DEF CtlTypeOK, TypeOK
<1>4. ASSUME NEW p \in Procs, Library(p) PROVE CtlTypeOK'
  <2>1. UNCHANGED <<sub, stage>> /\ phase[p] \in {"send", "recv"}
    BY <1>4 DEF Library, Step, Refuse, Send, SendFails, Sendable, Receive, Retry,
       Readable, RecvFails
  <2>2. \A q \in Procs \ {p} : phase'[q] = phase[q] /\ res'[q] = res[q]
    BY <1>t, <1>4 DEF Library, Step, Refuse, Send, SendFails, Receive, Retry,
       RecvFails, Fail, Return, TypeOK
  <2>3. phase'[p] # "closed"
    BY <1>t, <1>4 DEF Library, Step, Refuse, Send, SendFails, Receive, Retry,
       RecvFails, Fail, Return, TypeOK
  <2>4. phase'[p] = "ready" => res'[p] # NoRes
    <3> SUFFICES ASSUME phase'[p] = "ready" PROVE res'[p] # NoRes
      OBVIOUS
    <3>1. ~Retry(p)
      BY <1>t DEF Retry, TypeOK
    <3>2. PICK result \in Results : Return(p, result)
      BY <1>t, <1>4, <3>1, StepOutcome DEF Library, TypeOK
    <3> QED
      BY <1>t, <3>2, DriverAssumption DEF Return, TypeOK
  <2> QED
    BY <1>t, <2>1, <2>2, <2>3, <2>4 DEF CtlTypeOK, TypeOK
<1>5. CASE (SensorNext /\ UNCHANGED <<procVars, sub, stage>>) \/ (Replug /\ UNCHANGED <<sub, stage>>)
  BY <1>5 DEF CtlTypeOK, procVars, Replug
<1>6. CASE UNCHANGED ctlVars
  BY <1>6 DEF CtlTypeOK, ctlVars, vars, procVars
<1> QED
  BY <1>1, <1>2, <1>3, <1>4, <1>5, <1>6 DEF CtlNext

(***************************************************************************)
(* The theorems                                                            *)
(***************************************************************************)
LEMMA CtlInitTyped == CtlInit => CtlTypeOK
<1> SUFFICES ASSUME CtlInit PROVE CtlTypeOK
  OBVIOUS
<1>1. TypeOK
  BY TypeInit DEF CtlInit
<1>2. At("done") \in StageRecords /\ At("done").at = "done"
  BY SensorAssumption DEF At, StageRecords
<1> QED
  BY <1>1, <1>2 DEF CtlInit, Init, CtlTypeOK, StageRecords

\* Every state of the front-end is typed: a process is always at a stage of
\* its subcommand, with a result in hand whenever it looks at one, and never
\* asks for a slot that is not a byte.
THEOREM CtlTypeCorrect == CtlSpec => []CtlTypeOK
<1>1. CtlTypeOK /\ [CtlNext]_ctlVars => CtlTypeOK'
  BY CtlStepIsLibraryStep, TypeStep, CtlTypeStep DEF CtlTypeOK
<1> QED
  BY <1>1, CtlInitTyped, PTL DEF CtlSpec

\* elanctl uses the library only in ways its types permit: every behaviour
\* of the front-end is one of Driver's, so its theorems hold of it.
THEOREM CtlImplementsLibrary == CtlSpec => Spec
<1>1. CtlInit => Init
  BY DEF CtlInit
<1> QED
  BY <1>1, CtlStepIsLibraryStep, CtlTypeCorrect, PTL DEF CtlSpec, Spec

(***************************************************************************)
(* elanctl mints no token, so no request it sends is authorised.           *)
(***************************************************************************)
Unarmed ==
  /\ \A p \in Procs : ~token[p]
  /\ \A i \in 1..Len(inbox) : ~inbox[i].auth

LEMMA UnarmedStep == CtlTypeOK /\ Unarmed /\ [CtlNext]_ctlVars => Unarmed'
<1> SUFFICES ASSUME CtlTypeOK, Unarmed, [CtlNext]_ctlVars PROVE Unarmed'
  OBVIOUS
<1>t. TypeOK /\ SensorTypeOK
  BY DEF CtlTypeOK, TypeOK
<1>1. ASSUME UNCHANGED <<token, inbox>> PROVE Unarmed'
  BY <1>1 DEF Unarmed
<1>2. ASSUME NEW p \in Procs, Start(p) \/ Continue(p) PROVE Unarmed'
  BY <1>1, <1>2 DEF Start, Continue, Open, Close, StartCall, sensorVars
<1>3. ASSUME NEW p \in Procs, CtrlC(p) PROVE Unarmed'
  BY <1>t, <1>3 DEF CtrlC, Interrupt, sensorVars, Unarmed, TypeOK
<1>4. ASSUME NEW p \in Procs, Send(p) PROVE Unarmed'
  <2> DEFINE q == [cmd |-> call[p].cmd, arg |-> Arg(call[p].payload), auth |-> token[p]]
  <2>1. inbox' = Append(inbox, q) /\ ~q.auth /\ token' = token
    BY <1>4 DEF Send, Unarmed
  <2>2. inbox \in Seq(Requests) /\ Len(inbox) \in Nat
    BY <1>t, LenProperties DEF SensorTypeOK
  <2>3. q \in Requests
    BY <1>t, <1>4, CallTyped DEF Send, Sendable, Requests, TypeOK
  <2>4. /\ Len(inbox') = Len(inbox) + 1 /\ inbox'[Len(inbox) + 1] = q
        /\ \A i \in 1..Len(inbox) : inbox'[i] = inbox[i]
    BY <2>1, <2>2, <2>3, AppendProperties
  <2>5. \A i \in 1..Len(inbox') : i \in 1..Len(inbox) \/ i = Len(inbox) + 1
    BY <2>2, <2>4
  <2> HIDE DEF q
  <2> QED
    BY <2>1, <2>4, <2>5 DEF Unarmed
<1>5. ASSUME NEW p \in Procs, Library(p), ~Send(p) PROVE Unarmed'
  BY <1>1, <1>5 DEF Library, Step, Refuse, SendFails, Receive, Retry, TakeReply,
     RecvFails, sensorVars
<1>6. CASE SensorNext /\ UNCHANGED <<procVars, sub, stage>>
  <2>1. token' = token /\ (inbox' = inbox \/ (inbox # <<>> /\ inbox' = Tail(inbox)))
    BY <1>6 DEF SensorNext, HandleQuery, HandleAbort, HandleCommit, HandleDelete,
       HandleWipe, BeginWait, TouchMatch, TouchOther, procVars
  <2>2. CASE inbox # <<>> /\ inbox' = Tail(inbox)
    <3>1. \A i \in 1..Len(inbox') : inbox'[i] = inbox[i + 1] /\ i + 1 \in 1..Len(inbox)
      BY <1>t, <2>2, HeadTyped
    <3> QED
      BY <2>1, <3>1 DEF Unarmed
  <2> QED
    BY <1>1, <2>1, <2>2
<1>7. CASE Replug /\ UNCHANGED <<sub, stage>>
  BY <1>7 DEF Replug, PowerCycle, Unarmed
<1>8. CASE UNCHANGED ctlVars
  BY <1>1, <1>8 DEF ctlVars, vars, sensorVars, procVars
<1> QED
  BY <1>2, <1>3, <1>4, <1>5, <1>6, <1>7, <1>8 DEF CtlNext, Library

\* The module comment of elanctl.rs, for any number of processes, any
\* subcommands and any interleaving with the sensor, Ctrl-C and power loss:
\* no step of the front-end changes the stored templates.
THEOREM CliNeverWrites == CtlSpec => NeverWrites
<1>1. CtlInit => Unarmed
  BY DEF CtlInit, Init, SensorInit, Unarmed
<1>2. CtlTypeOK /\ AuthInv /\ Unarmed /\ [CtlNext]_ctlVars => [store' = store]_ctlVars
  <2> SUFFICES ASSUME CtlTypeOK, AuthInv, Unarmed, [Next]_vars, store' # store
               PROVE  FALSE
    BY CtlStepIsLibraryStep
  <2>1. Head(inbox).auth /\ inbox # <<>>
    BY StoreStep
  <2> QED
    BY <2>1, HeadTyped DEF Unarmed, CtlTypeOK, TypeOK
<1> QED
  BY <1>1, <1>2, UnarmedStep, CtlTypeCorrect, CtlImplementsLibrary, AuthInvariant,
     PTL DEF CtlSpec, NeverWrites

(***************************************************************************)
(* Where a process is in its subcommand says which call it is in.          *)
(***************************************************************************)
CallsOfStages ==
  \A p \in Procs :
    phase[p] \in {"send", "recv"} =>
      /\ stage[p].at \in CallStages
      /\ call[p].mode = CallAt(stage[p]).mode
      /\ call[p].cmd = CallAt(stage[p]).cmd
      /\ call[p].payload = CallAt(stage[p]).payload

\* A library step is inside a call of its process, and leaves the others and
\* the claim alone.
LEMMA LibraryLocal ==
  ASSUME TypeOK, NEW p \in Procs, Step(p)
  PROVE  /\ phase[p] \in {"send", "recv"} /\ phase'[p] \in {"ready", "send", "recv"}
         /\ UNCHANGED <<claimant, token>>
         /\ \A q \in Procs \ {p} :
               phase'[q] = phase[q] /\ call'[q] = call[q] /\ res'[q] = res[q]
<1>1. phase[p] \in {"send", "recv"} /\ UNCHANGED <<claimant, token>>
  BY DEF Step, Refuse, Send, SendFails, Sendable, Receive, Retry, TakeReply,
     Readable, RecvFails
<1>2. CASE Retry(p)
  BY <1>1, <1>2 DEF Retry, TypeOK
<1>3. CASE phase' = [phase EXCEPT ![p] = "recv"] /\ UNCHANGED <<call, res>>
  BY <1>1, <1>3 DEF TypeOK
<1>4. ASSUME NEW result \in Results, Return(p, result)
      PROVE  /\ phase'[p] = "ready"
             /\ \A q \in Procs \ {p} :
                   phase'[q] = phase[q] /\ call'[q] = call[q] /\ res'[q] = res[q]
  BY <1>4 DEF Return, TypeOK
<1> QED
  BY <1>1, <1>2, <1>3, <1>4, StepOutcome

LEMMA StagedStep == CtlTypeOK /\ CallsOfStages /\ [CtlNext]_ctlVars => CallsOfStages'
<1> SUFFICES ASSUME CtlTypeOK, CallsOfStages, [CtlNext]_ctlVars PROVE CallsOfStages'
  OBVIOUS
<1>t. /\ TypeOK /\ phase \in [Procs -> Phases] /\ call \in [Procs -> Calls \cup {NoCall}]
      /\ stage \in [Procs -> StageRecords]
  BY DEF CtlTypeOK, TypeOK, StageRecords
<1>1. ASSUME NEW p \in Procs, phase'[p] \notin {"send", "recv"},
             \A q \in Procs \ {p} : /\ phase'[q] = phase[q] /\ call'[q] = call[q]
                                    /\ stage'[q] = stage[q]
      PROVE  CallsOfStages'
  BY <1>1 DEF CallsOfStages
<1>2. ASSUME NEW p \in Procs, Start(p) \/ CtrlC(p) PROVE CallsOfStages'
  BY <1>t, <1>1, <1>2 DEF Start, Open, CtrlC, Interrupt
<1>3. ASSUME NEW p \in Procs, Continue(p) PROVE CallsOfStages'
  <2>1. stage' = [stage EXCEPT ![p] = NextStage(p)]
    BY <1>3 DEF Continue
  <2>2. CASE NextStage(p).at = "done"
    <3>1. phase' = [phase EXCEPT ![p] = "closed"] /\ call' = call
      BY <1>3, <2>2 DEF Continue, Close
    <3> QED
      BY <1>t, <1>1, <2>1, <3>1
  <2>3. CASE NextStage(p).at # "done"
    <3>1. /\ phase' = [phase EXCEPT ![p] = "send"]
          /\ call' = [call EXCEPT ![p] = CallAt(NextStage(p))]
      BY <1>3, <2>3 DEF Continue, StartCall
    <3>2. NextStage(p).at \in CallStages
      BY <1>3, <2>3, NextStageTyped DEF Continue, StageRecords
    <3> QED
      BY <1>t, <2>1, <3>1, <3>2 DEF CallsOfStages
  <2> QED
    BY <2>2, <2>3
<1>4. ASSUME NEW p \in Procs, Library(p) PROVE CallsOfStages'
  <2>1. /\ stage' = stage /\ phase[p] \in {"send", "recv"}
        /\ \A q \in Procs \ {p} : phase'[q] = phase[q] /\ call'[q] = call[q]
    BY <1>t, <1>4, LibraryLocal DEF Library
  <2>2. CASE phase'[p] = "ready"
    BY <1>1, <2>1, <2>2
  <2>3. CASE phase'[p] # "ready"
    <3>1. /\ call'[p].mode = call[p].mode /\ call'[p].cmd = call[p].cmd
          /\ call'[p].payload = call[p].payload
      <4>1. CASE Retry(p)
        <5>1. call[p] \in Calls
          BY <1>t, <2>1, CallTyped
        <5> QED
          BY <1>t, <4>1, <5>1 DEF Retry, Calls
      <4>2. CASE call' = call
        BY <4>2
      <4> QED
        BY <1>t, <1>4, <2>3, <4>1, <4>2, StepOutcome DEF Library, Return
    <3> QED
      BY <2>1, <3>1 DEF CallsOfStages
  <2> QED
    BY <2>2, <2>3
<1>5. CASE UNCHANGED <<phase, call, stage>>
  BY <1>5 DEF CallsOfStages
<1> QED
  BY <1>2, <1>3, <1>4, <1>5 DEF CtlNext, Replug, ctlVars, vars, procVars

LEMMA CtlStaged == CtlSpec => []CallsOfStages
<1>1. CtlInit => CallsOfStages
  BY DEF CtlInit, Init, CallsOfStages
<1> QED
  BY <1>1, StagedStep, CtlTypeCorrect, PTL DEF CtlSpec

(***************************************************************************)
(* Requests on the device are counted.                                     *)
(***************************************************************************)
LEMMA SendLoads ==
  ASSUME TypeOK, NEW p \in Procs, Send(p)
  PROVE  Load' = Load + 1 /\ Len(inbox') = Len(inbox) + 1
<1> DEFINE q == [cmd |-> call[p].cmd, arg |-> Arg(call[p].payload), auth |-> token[p]]
<1>1. inbox' = Append(inbox, q) /\ UNCHANGED <<waiting, fifo>>
  BY DEF Send
<1>2. q \in Requests
  BY CallTyped DEF Send, Sendable, Requests, TypeOK
<1>3. inbox \in Seq(Requests) /\ SensorTypeOK
  BY DEF TypeOK, SensorTypeOK
<1> HIDE DEF q
<1>4. Len(inbox') = Len(inbox) + 1 /\ inbox' \in Seq(Requests)
  BY <1>1, <1>2, <1>3, AppendProperties
<1>5. PICK n \in Nat, h \in Nat, f \in Nat : n = Len(inbox) /\ h = Pending /\ f = Fill
  BY <1>3, LoadParts
<1>6. Load = n + h + f
  BY <1>3, <1>5, LoadParts
<1>7. Len(inbox') = n + 1 /\ Pending' = h /\ Fill' = f
  BY <1>1, <1>4, <1>5 DEF Pending, Fill
<1>8. Load' = (n + 1) + h + f
  <2>1. Load' = Len(inbox') + Pending' + Fill'
    <3>1. SensorTypeOK'
      BY <1>3, TypeStep DEF Next, Step, TypeOK
    <3> QED
      BY <3>1, LoadPartsNext
  <2> QED
    BY <1>7, <2>1
<1> QED
  BY <1>4, <1>6, <1>8

LEMMA TakeUnloads ==
  ASSUME TypeOK, TypeOK', NEW p \in Procs, Readable(p), TakeReply(p)
  PROVE  Load' = Load - 1
<1> DEFINE e == InEp(p)
<1>1. e \in Endpoints /\ SensorTypeOK /\ SensorTypeOK'
  BY CallTyped, CmdTable DEF Readable, InEp, TypeOK
<1>2. fifo[e] \in Seq(Replies) /\ fifo[e] # <<>> /\ fifo' = [fifo EXCEPT ![e] = Tail(fifo[e])]
  BY <1>1 DEF Readable, TakeReply, SensorTypeOK
<1>3. Len(Tail(fifo[e])) = Len(fifo[e]) - 1
  BY <1>2, HeadTailProperties
<1>4. /\ Len(fifo'[e]) = Len(fifo[e]) - 1
      /\ \A ep \in Endpoints \ {e} : fifo'[ep] = fifo[ep]
  BY <1>1, <1>2, <1>3 DEF SensorTypeOK
<1> HIDE DEF e
<1>5. PICK a \in Nat, b \in Nat : a = Len(fifo[EP_CMD_IN]) /\ b = Len(fifo[EP_MOC_CMD_IN])
  BY <1>1, LoadTyped
<1>6. e = EP_CMD_IN \/ e = EP_MOC_CMD_IN
  BY <1>1 DEF Endpoints
<1>7. \/ Len(fifo'[EP_CMD_IN]) = a - 1 /\ Len(fifo'[EP_MOC_CMD_IN]) = b
      \/ Len(fifo'[EP_CMD_IN]) = a /\ Len(fifo'[EP_MOC_CMD_IN]) = b - 1
  BY <1>1, <1>4, <1>5, <1>6, LoadTyped
<1>8. Fill = a + b /\ (Fill' = (a - 1) + b \/ Fill' = a + (b - 1))
  BY <1>5, <1>7 DEF Fill
<1>9. PICK n \in Nat, h \in Nat : n = Len(inbox) /\ h = Pending
  BY <1>1, LoadParts
<1>10. Len(inbox') = n /\ Pending' = h
  BY <1>9 DEF TakeReply, Pending
<1>11. Load = n + h + (a + b)
  BY <1>1, <1>8, <1>9, LoadParts
<1>12. Load' = n + h + ((a - 1) + b) \/ Load' = n + h + (a + (b - 1))
  BY <1>1, <1>8, <1>10, LoadPartsNext
<1> QED
  BY <1>11, <1>12

CountedInv == CtlTypeOK /\ CallsOfStages /\ RequestsCounted

LEMMA CountedKept ==
  ASSUME TypeOK, TypeOK', RequestsCounted, Load' <= Load, abandoned' = abandoned,
         Awaiting => Awaiting'
  PROVE  RequestsCounted'
<1>1. Load \in Nat /\ Load' \in Nat /\ abandoned \in Nat /\ AbandonCap \in Nat
  <2>1. Load \in Nat
    <3>1. Fill \in Nat /\ Len(inbox) \in Nat /\ Pending \in Nat /\ Load = Len(inbox) + Pending + Fill
      BY LoadParts DEF TypeOK
    <3> QED
      BY <3>1
  <2>2. Load' \in Nat
    <3>1. /\ Fill' \in Nat /\ Len(inbox') \in Nat /\ Pending' \in Nat
          /\ Load' = Len(inbox') + Pending' + Fill'
      BY LoadPartsNext DEF TypeOK
    <3> QED
      BY <3>1
  <2> QED
    BY <2>1, <2>2, DriverAssumption DEF TypeOK
<1>2. CASE Awaiting
  BY <1>1, <1>2 DEF RequestsCounted
<1>3. CASE ~Awaiting
  BY <1>1, <1>3 DEF RequestsCounted
<1> QED
  BY <1>2, <1>3

LEMMA LoadKept == UNCHANGED sensorVars => Load' = Load
BY DEF sensorVars, Load

\* A request given up is one the process waited for.
LEMMA CountedAbandon ==
  ASSUME TypeOK, TypeOK', RequestsCounted, UNCHANGED sensorVars, NEW p \in Procs,
         claimant' \in {claimant, Released(p)}, Abandon(p),
         \A q \in Procs \ {p} : phase'[q] = phase[q]
  PROVE  RequestsCounted'
<1>1. Load \in Nat /\ Load' = Load /\ abandoned \in Nat /\ AbandonCap \in Nat
  <2>1. Fill \in Nat /\ Len(inbox) \in Nat /\ Pending \in Nat /\ Load = Len(inbox) + Pending + Fill
    BY LoadParts DEF TypeOK
  <2>2. Load \in Nat
    BY <2>1
  <2> QED
    BY <2>2, LoadKept, DriverAssumption DEF TypeOK
<1>2. CASE claimant = p /\ phase[p] = "recv"
  <2>1. abandoned < AbandonCap => abandoned' = abandoned + 1 /\ Load <= abandoned + 1
    BY <1>1, <1>2, DriverAssumption DEF Abandon, RequestsCounted, Awaiting
  <2>2. ~(abandoned < AbandonCap) => abandoned' = abandoned
    BY <1>2 DEF Abandon
  <2> QED
    BY <1>1, <2>1, <2>2 DEF RequestsCounted
<1>3. CASE claimant = p /\ phase[p] # "recv"
  BY <1>1, <1>3, CountedKept DEF Abandon, Awaiting
<1>4. CASE claimant # p
  <2>1. claimant' = claimant /\ abandoned' = abandoned /\ (Awaiting => Awaiting')
    BY <1>4 DEF Released, Abandon, Awaiting, TypeOK
  <2> QED
    BY <1>1, <2>1, CountedKept
<1> QED
  BY <1>2, <1>3, <1>4

LEMMA CountedStep ==
  ASSUME CountedInv, CtlTypeOK', [CtlNext]_ctlVars
  PROVE  RequestsCounted'
<1>t. /\ TypeOK /\ TypeOK' /\ SensorTypeOK /\ RequestsCounted
      /\ phase \in [Procs -> Phases]
  BY DEF CountedInv, CtlTypeOK, TypeOK
<1>l. Load \in Nat
  <2>1. Fill \in Nat /\ Len(inbox) \in Nat /\ Pending \in Nat /\ Load = Len(inbox) + Pending + Fill
    BY <1>t, LoadParts
  <2> QED
    BY <2>1
<1>1. ASSUME UNCHANGED sensorVars, abandoned' = abandoned, Awaiting => Awaiting'
      PROVE  RequestsCounted'
  BY <1>t, <1>l, <1>1, LoadKept, CountedKept
<1>2. ASSUME NEW p \in Procs, Start(p) PROVE RequestsCounted'
  BY <1>1, <1>2 DEF Start, Open, Awaiting
<1>3. ASSUME NEW p \in Procs, Continue(p) PROVE RequestsCounted'
  <2>1. /\ UNCHANGED <<sensorVars, abandoned>> /\ phase[p] = "ready"
        /\ claimant' \in {claimant, Released(p)}
        /\ \A q \in Procs \ {p} : phase'[q] = phase[q]
    BY <1>t, <1>3 DEF Continue, Close, StartCall
  <2>2. Awaiting => Awaiting'
    <3> SUFFICES ASSUME Awaiting PROVE Awaiting'
      OBVIOUS
    <3>1. claimant \in Procs /\ claimant # p
      BY <1>t, <2>1 DEF Awaiting, TypeOK
    <3> QED
      BY <2>1, <3>1 DEF Awaiting, Released
  <2> QED
    BY <1>1, <2>1, <2>2
<1>4. ASSUME NEW p \in Procs, CtrlC(p) PROVE RequestsCounted'
  BY <1>t, <1>4, CountedAbandon DEF CtrlC, Interrupt
<1>5. ASSUME NEW p \in Procs, Library(p) PROVE RequestsCounted'
  <2>0. /\ phase[p] \in {"send", "recv"} /\ claimant' = claimant
        /\ \A q \in Procs \ {p} : phase'[q] = phase[q]
    BY <1>t, <1>5, LibraryLocal DEF Library
  <2>1. CASE Refuse(p) \/ SendFails(p)
    <3>1. UNCHANGED <<sensorVars, abandoned>> /\ phase[p] = "send"
      BY <2>1 DEF Refuse, SendFails, Sendable
    <3>2. Awaiting => Awaiting'
      BY <1>t, <2>0, <3>1 DEF Awaiting, TypeOK
    <3> QED
      BY <1>1, <3>1, <3>2
  <2>2. CASE Send(p)
    <3>1. claimant = p /\ phase[p] = "send" /\ abandoned' = abandoned
      BY <2>2 DEF Send, Sendable
    <3>2. call[p].cmd # "wipe_sensor" /\ call[p].cmd \in CmdNames
      <4>1. call[p].cmd = CallAt(stage[p]).cmd /\ stage[p].at \in CallStages
        BY <3>1 DEF CountedInv, CallsOfStages
      <4>2. CallAt(stage[p]).cmd # "wipe_sensor"
        BY <4>1 DEF CallAt, CallStages, SlotCall, AbortCall, C
      <4> QED
        BY <1>t, <3>1, <4>1, <4>2, CallTyped
    <3>3. phase'[p] = "recv"
      BY <1>t, <2>2, <3>2, CmdTable DEF Send
    <3>4. ~Awaiting /\ Awaiting'
      BY <2>0, <3>1, <3>3, DriverAssumption DEF Awaiting
    <3>5. Load' = Load + 1 /\ abandoned \in Nat
      BY <1>t, <2>2, SendLoads DEF TypeOK
    <3> QED
      BY <1>t, <1>l, <3>1, <3>4, <3>5, DriverAssumption DEF RequestsCounted
  <2>3. CASE Receive(p) \/ Retry(p)
    <3>1. Readable(p) /\ TakeReply(p) /\ phase'[p] # "recv"
      BY <1>t, <2>3 DEF Receive, Retry, Return
    <3>2. Load' = Load - 1
      BY <1>t, <3>1, TakeUnloads
    <3>4. abandoned' = abandoned /\ abandoned \in Nat
      BY <1>t, <3>1 DEF TakeReply, TypeOK
    <3>3. Awaiting /\ ~Awaiting'
      BY <2>0, <3>1, DriverAssumption DEF Readable, Awaiting
    <3> QED
      BY <1>t, <1>l, <3>2, <3>3, <3>4, DriverAssumption DEF RequestsCounted
  <2>4. CASE RecvFails(p)
    BY <1>t, <2>0, <2>4, CountedAbandon DEF RecvFails
  <2> QED
    BY <1>5, <2>1, <2>2, <2>3, <2>4 DEF Library, Step
<1>6. CASE SensorNext /\ UNCHANGED <<procVars, sub, stage>>
  BY <1>t, <1>6, SensorLoad, CountedKept DEF procVars, Awaiting
<1>7. CASE Replug
  <2>1. Load' = 0
    <3>1. /\ waiting' = NoReq /\ inbox' = <<>>
          /\ fifo'[EP_CMD_IN] = <<>> /\ fifo'[EP_MOC_CMD_IN] = <<>>
      BY <1>7, LoadTyped, <1>t DEF Replug, PowerCycle
    <3>2. Load' = 0 + 0 + 0 + 0
      BY <3>1, EmptySeq DEF Load
    <3> QED
      BY <3>2
  <2>2. abandoned' = 0
    BY <1>7 DEF Replug
  <2> QED
    BY <2>1, <2>2 DEF RequestsCounted
<1>8. CASE UNCHANGED ctlVars
  BY <1>1, <1>8 DEF ctlVars, vars, procVars, Awaiting
<1> QED
  BY <1>2, <1>3, <1>4, <1>5, <1>6, <1>7, <1>8 DEF CtlNext

\* What is on the device is accounted for: no call, retry, abort or Ctrl-C of
\* any subcommand leaves a request there that is not counted as abandoned.
THEOREM NothingPilesUp == CtlSpec => []RequestsCounted
<1>1. CtlInit => RequestsCounted
  <2> SUFFICES ASSUME CtlInit PROVE RequestsCounted
    OBVIOUS
  <2>1. /\ waiting = NoReq /\ inbox = <<>> /\ abandoned = 0
        /\ fifo[EP_CMD_IN] = <<>> /\ fifo[EP_MOC_CMD_IN] = <<>>
    BY DEF CtlInit, Init, SensorInit, Endpoints
  <2>2. Load = 0 + 0 + 0 + 0
    BY <2>1, EmptySeq DEF Load
  <2> QED
    BY <2>1, <2>2 DEF RequestsCounted
<1>2. CtlTypeOK /\ CallsOfStages /\ RequestsCounted /\ CtlTypeOK' /\ [CtlNext]_ctlVars
        => RequestsCounted'
  BY CountedStep DEF CountedInv
<1> QED
  BY <1>1, <1>2, CtlTypeCorrect, CtlStaged, PTL DEF CtlSpec

(***************************************************************************)
(* Only identify and enroll wait for a finger, and only their replies are  *)
(* on the endpoint for them: whole ones, with the magic.                   *)
(***************************************************************************)
MocInv ==
  /\ waiting # NoReq => waiting.cmd \in {"identify", "enroll"}
  /\ \A i \in 1..Len(fifo[EP_MOC_CMD_IN]) :
       fifo[EP_MOC_CMD_IN][i].len = 2 /\ fifo[EP_MOC_CMD_IN][i].magic

LEMMA PromptEndpoint ==
  ASSUME NEW c \in Prompt
  PROVE  Cmd[c].ep_in = EP_CMD_IN
BY DEF Prompt, Queries, Cmd, Row, GET_FW_VER, GET_ENROLLED_COUNT, FINGER_INFO,
   CHECK_ENROLL_COLLISION, ABORT, COMMIT, DELETE

LEMMA FingerEndpoint ==
  ASSUME NEW c \in {"identify", "enroll"}
  PROVE  Cmd[c].ep_in = EP_MOC_CMD_IN /\ Cmd[c].in_len = 2
BY DEF Cmd, Row, IDENTIFY, ENROLL

LEMMA MocStep == TypeOK /\ MocInv /\ [Next]_vars => MocInv'
<1> SUFFICES ASSUME TypeOK, MocInv, [Next]_vars PROVE MocInv'
  OBVIOUS
<1>t. SensorTypeOK /\ EP_MOC_CMD_IN \in Endpoints /\ EP_CMD_IN # EP_MOC_CMD_IN
  BY LoadTyped DEF TypeOK
<1>1. ASSUME UNCHANGED <<waiting, fifo>> PROVE MocInv'
  BY <1>1 DEF MocInv
<1>2. ASSUME NEW p \in Procs, Receive(p) \/ Retry(p) PROVE MocInv'
  <2>1. Readable(p) /\ TakeReply(p)
    BY <1>2 DEF Receive, Retry
  <2> DEFINE e == InEp(p)
  <2>2. e \in Endpoints /\ fifo' = [fifo EXCEPT ![e] = Tail(fifo[e])]
          /\ fifo[e] \in Seq(Replies) /\ fifo[e] # <<>> /\ waiting' = waiting
    BY <2>1, CallTyped, CmdTable DEF Readable, InEp, TakeReply, TypeOK, SensorTypeOK
  <2>3. /\ Len(Tail(fifo[e])) = Len(fifo[e]) - 1 /\ Len(fifo[e]) \in Nat
        /\ \A i \in 1..Len(Tail(fifo[e])) : Tail(fifo[e])[i] = fifo[e][i + 1]
    BY <2>2, HeadTailProperties, LenProperties
  <2>4. \A i \in 1..Len(Tail(fifo[e])) : i + 1 \in 1..Len(fifo[e])
    BY <2>3
  <2> HIDE DEF e
  <2>5. CASE e = EP_MOC_CMD_IN
    <3>1. fifo'[e] = Tail(fifo[e])
      BY <2>2 DEF TypeOK, SensorTypeOK
    <3> QED
      BY <2>2, <2>3, <2>4, <2>5, <3>1 DEF MocInv
  <2>6. CASE e # EP_MOC_CMD_IN
    BY <2>2, <2>6 DEF MocInv
  <2> QED
    BY <2>5, <2>6
<1>3. CASE SensorNext
  <2>1. CASE HandleWipe
    BY <1>1, <2>1 DEF HandleWipe
  <2>2. CASE BeginWait
    <3>1. waiting' \in Requests /\ waiting'.cmd \in {"identify", "enroll"} /\ fifo' = fifo
      BY <1>t, <2>2, HeadTyped, CmdTable DEF BeginWait
    <3> QED
      BY <3>1 DEF MocInv
  <2>3. ASSUME NEW r \in Replies, Answers(r) PROVE MocInv'
    <3>1. Emit(r) /\ r.cmd \in Prompt /\ waiting' \in {waiting, NoReq}
      BY <2>3 DEF Answers
    <3>2. fifo'[EP_MOC_CMD_IN] = fifo[EP_MOC_CMD_IN]
      BY <1>t, <3>1, PromptEndpoint, EmitAppends
    <3> QED
      BY <3>1, <3>2 DEF MocInv
  <2>4. ASSUME NEW r \in Replies, Touched(r) PROVE MocInv'
    <3> DEFINE s == fifo[EP_MOC_CMD_IN]
    <3>1. /\ Emit(r) /\ r.cmd \in {"identify", "enroll"} /\ waiting' = NoReq
          /\ r.len = 2 /\ r.magic
      BY <2>4 DEF Touched, MocInv
    <3>2. /\ Len(fifo'[EP_MOC_CMD_IN]) = Len(s) + 1
          /\ fifo'[EP_MOC_CMD_IN][Len(s) + 1] = r
          /\ \A i \in 1..Len(s) : fifo'[EP_MOC_CMD_IN][i] = s[i]
      BY <1>t, <3>1, FingerEndpoint, EmitAppends
    <3>3. Len(s) \in Nat
      BY <1>t, LoadTyped
    <3>4. \A i \in 1..Len(fifo'[EP_MOC_CMD_IN]) : i \in 1..Len(s) \/ i = Len(s) + 1
      BY <3>2, <3>3
    <3>5. \A i \in 1..Len(s) : s[i].len = 2 /\ s[i].magic
      BY DEF MocInv
    <3> HIDE DEF s
    <3> QED
      BY <3>1, <3>2, <3>4, <3>5 DEF MocInv
  <2> QED
    BY <1>t, <1>3, <2>1, <2>2, <2>3, <2>4, SensorStep
<1>4. CASE Replug
  <2>1. waiting' = NoReq /\ fifo'[EP_MOC_CMD_IN] = <<>>
    BY <1>t, <1>4 DEF Replug, PowerCycle
  <2> QED
    BY <2>1 DEF MocInv
<1>5. ASSUME NEW p \in Procs,
             \/ Open(p) \/ Close(p) \/ MintToken(p) \/ Interrupt(p)
             \/ \E c \in Callable(p) : StartCall(p, c)
             \/ Refuse(p) \/ Send(p) \/ SendFails(p) \/ RecvFails(p)
      PROVE  UNCHANGED <<waiting, fifo>>
  BY <1>5 DEF Open, Close, MintToken, Interrupt, StartCall, Refuse, Send, SendFails,
     RecvFails, sensorVars
<1>6. CASE UNCHANGED vars
  BY <1>1, <1>6 DEF vars, sensorVars
<1> QED
  BY <1>1, <1>2, <1>3, <1>4, <1>5, <1>6 DEF Next, Step

LEMMA MocInvariant == Spec => []MocInv
<1>1. Init => MocInv
  <2> SUFFICES ASSUME Init PROVE MocInv
    OBVIOUS
  <2>1. waiting = NoReq /\ fifo[EP_MOC_CMD_IN] = <<>>
    BY DEF Init, SensorInit, Endpoints
  <2> QED
    BY <2>1 DEF MocInv
<1> QED
  BY <1>1, MocStep, TypeCorrect, PTL DEF Spec

(***************************************************************************)
(* What the replies of an exchange in step say of the sensor.              *)
(***************************************************************************)
Matched(r) == r.len >= 2 /\ FromByte(r.b1) = "Ok"

\* A match names the slot matched last, and a record is that of the slot asked
\* for, or where the sensor ignores the slot, of the one matched last.
Fresh(r) ==
  /\ r.cmd = "identify" /\ Matched(r) => r.b1 = cur
  /\ r.cmd = "finger_info" /\ Matched(r) /\ r.len >= UserIdOffset(Pid)
       => r.uid = IF SlotAware THEN r.arg ELSE cur

FreshReplies ==
  \A ep \in Endpoints : \A i \in 1..Len(fifo[ep]) : Fresh(fifo[ep][i])

\* What process p goes by is the answer to its call, and the slot it looks a
\* match up by is the slot of the match.
Truthful(p) ==
  /\ phase[p] = "ready" /\ stage[p].at # "start" /\ Ok(res[p])
       => Fresh(res[p].reply) /\ For(res[p].reply, CallAt(stage[p]))
  /\ sub[p] = "identify" /\ stage[p].at = "slot" => stage[p].idx = cur

TruthInv ==
  abandoned = 0 =>
    /\ FreshReplies
    /\ \A p \in Procs : claimant = p => Truthful(p)

LEMMA StubsBare ==
  ASSUME NEW q, NEW r \in Stubs(q)
  PROVE  ~Matched(r)
BY DEF Stubs, Reply, Matched

LEMMA QueryFresh ==
  ASSUME SensorTypeOK, NEW q \in Requests, q.cmd \in Queries,
         NEW r \in QueryReplies(q)
  PROVE  Fresh(r)
<1>1. r.cmd = q.cmd /\ r.arg = q.arg /\ r \in Replies
  BY QueryRepliesTyped
<1>2. r.cmd # "identify"
  BY <1>1 DEF Queries
<1>3. CASE r.cmd = "finger_info" /\ Matched(r)
  <2>1. r \notin Stubs(q)
    BY <1>3, StubsBare
  <2>2. r = Reply(q, 2, 255, NoSlot) \/ (RecordFor(q) # NoSlot /\ r = Reply(q, 64, 0, RecordFor(q)))
    BY <1>1, <1>3, <2>1 DEF QueryReplies
  <2>3. r # Reply(q, 2, 255, NoSlot)
    <3>1. FromByte(255) # "Ok"
      BY DEF FromByte
    <3>2. Reply(q, 2, 255, NoSlot).b1 = 255
      BY DEF Reply
    <3> QED
      BY <1>3, <3>1, <3>2 DEF Matched
  <2>4. r.uid = RecordFor(q) /\ RecordFor(q) # NoSlot
    BY <2>2, <2>3 DEF Reply
  <2>5. RecordFor(q) = IF SlotAware THEN q.arg ELSE cur
    BY <2>4, SensorAssumption DEF RecordFor
  <2> QED
    BY <1>1, <1>2, <2>4, <2>5 DEF Fresh
<1> QED
  BY <1>2, <1>3 DEF Fresh

LEMMA TouchFresh ==
  ASSUME MocInv, NEW r \in Replies, Touched(r)
  PROVE  Fresh(r)'
<1>1. r.cmd \in {"identify", "enroll"}
  BY DEF Touched, MocInv
<1>2. CASE r.cmd = "identify" /\ Matched(r)
  <2>1. FromByte(65) # "Ok" /\ FromByte(253) # "Ok" /\ FromByte(255) # "Ok"
    BY DEF FromByte
  <2>2. cur' = r.b1
    BY <1>2, <2>1 DEF Touched, Matched
  <2> QED
    BY <1>1, <1>2, <2>2 DEF Fresh
<1> QED
  BY <1>1, <1>2 DEF Fresh

\* The first reply on drained endpoints.
LEMMA FirstReply ==
  ASSUME SensorTypeOK, Drained, NEW r \in Replies, Emit(r), Fresh(r)'
  PROVE  FreshReplies'
<1> DEFINE e == Cmd[r.cmd].ep_in
<1>1. /\ e \in Endpoints
      /\ Len(fifo'[e]) = Len(fifo[e]) + 1 /\ fifo'[e][Len(fifo[e]) + 1] = r
      /\ \A ep \in Endpoints \ {e} : fifo'[ep] = fifo[ep]
  BY EmitAppends
<1>2. \A ep \in Endpoints : Len(fifo[ep]) = 0
  BY LoadTyped DEF Drained
<1> HIDE DEF e
<1>3. Len(fifo'[e]) = 1 /\ fifo'[e][1] = r
  BY <1>1, <1>2
<1>4. \A ep \in Endpoints \ {e} : Len(fifo'[ep]) = 0
  BY <1>1, <1>2
<1> SUFFICES ASSUME NEW ep \in Endpoints, NEW i \in 1..Len(fifo'[ep])
             PROVE  Fresh(fifo[ep][i])'
  BY DEF FreshReplies
<1>5. ep = e /\ i = 1
  <2>1. ep = e
    BY <1>4
  <2>2. i \in 1..1
    BY <1>3, <2>1, Zenon
  <2> QED
    BY <2>1, <2>2
<1> QED
  BY <1>3, <1>5 DEF Fresh

LEMMA TruthSensor ==
  ASSUME CtlTypeOK, SyncInv, MocInv, CallsOfStages, TruthInv,
         SensorNext, UNCHANGED <<procVars, sub, stage>>
  PROVE  TruthInv'
<1> SUFFICES ASSUME abandoned = 0
             PROVE  /\ FreshReplies'
                    /\ \A p \in Procs : claimant = p => Truthful(p)'
  BY DEF TruthInv, procVars
<1>t. SensorTypeOK /\ UNCHANGED <<claimant, phase, call, res, stage, sub>>
  BY DEF CtlTypeOK, TypeOK, procVars
<1>i. FreshReplies /\ \A p \in Procs : claimant = p => Truthful(p)
  BY DEF TruthInv
<1>1. ASSUME UNCHANGED cur, NEW p \in Procs, claimant = p PROVE Truthful(p)'
  BY <1>t, <1>i, <1>1 DEF Truthful, Fresh, For
<1>2. CASE HandleWipe \/ BeginWait
  <2>1. UNCHANGED <<fifo, cur>>
    BY <1>2 DEF HandleWipe, BeginWait
  <2> QED
    BY <1>i, <1>1, <2>1 DEF FreshReplies, Fresh
<1>3. ASSUME NEW r \in Replies, Answers(r) PROVE FreshReplies' /\ UNCHANGED cur
  <2>1. /\ Drained /\ Emit(r) /\ cur' = cur /\ Head(inbox) \in Requests
        /\ Head(inbox).cmd \in Prompt /\ r.cmd = Head(inbox).cmd
        /\ r.cmd \in Queries => r \in QueryReplies(Head(inbox))
    <3>1. Head(inbox).cmd # "wipe_sensor"
      BY <1>3 DEF Answers, Prompt, Queries
    <3> QED
      BY <1>t, <1>3, <3>1, HeadTyped, HeadIsAwaited DEF Answers, Queued
  <2>2. Fresh(r)
    <3>1. CASE r.cmd \in Queries
      BY <1>t, <2>1, <3>1, QueryFresh
    <3>2. CASE r.cmd \notin Queries
      BY <2>1, <3>2 DEF Prompt, Queries, Fresh
    <3> QED
      BY <3>1, <3>2
  <2>3. Fresh(r)'
    BY <2>1, <2>2 DEF Fresh
  <2> QED
    BY <1>t, <2>1, <2>3, FirstReply
<1>4. ASSUME NEW r \in Replies, Touched(r)
      PROVE  FreshReplies' /\ \A p \in Procs : claimant = p => Truthful(p)'
  <2>1. /\ Awaiting /\ claimant \in Procs /\ Drained /\ Emit(r)
        /\ waiting.cmd = call[claimant].cmd /\ waiting.cmd \in {"identify", "enroll"}
    BY <1>4, TouchedIsAwaited DEF Touched, AtFinger, For, MocInv
  <2>2. FreshReplies'
    BY <1>t, <1>4, <2>1, TouchFresh, FirstReply
  <2>3. phase[claimant] = "recv" /\ stage[claimant].at # "slot"
    <3>1. phase[claimant] = "recv" /\ call[claimant].cmd = CallAt(stage[claimant]).cmd
      BY <2>1 DEF Awaiting, CallsOfStages
    <3>2. stage[claimant].at = "slot" => CallAt(stage[claimant]).cmd = "finger_info"
      BY DEF CallAt, SlotCall, C
    <3> QED
      BY <2>1, <3>1, <3>2
  <2> QED
    BY <1>t, <2>2, <2>3 DEF Truthful
<1> QED
  BY <1>t, <1>1, <1>2, <1>3, <1>4, SensorStep

LEMMA TruthKept ==
  ASSUME TruthInv, UNCHANGED <<fifo, cur>>, abandoned' = 0 => abandoned = 0,
         \A p \in Procs : (claimant' = p /\ abandoned = 0 /\ (claimant = p => Truthful(p)))
                             => Truthful(p)'
  PROVE  TruthInv'
<1>1. abandoned = 0 /\ FreshReplies => FreshReplies'
  BY DEF FreshReplies, Fresh
<1> QED
  BY <1>1 DEF TruthInv

\* The slot identify looks up is the one its reply named.
LEMMA SlotOfMatch ==
  ASSUME CtlTypeOK, NEW p \in Procs, phase[p] = "ready", Truthful(p),
         sub[p] = "identify", NextStage(p).at = "slot"
  PROVE  NextStage(p).idx = cur
<1> DEFINE s == stage[p]
           r == res[p]
<1>1. /\ NextStage(p) = IdentifyNext(s, r) /\ s \in StageRecords
      /\ s.at \in {"start", "count", "identify", "slot", "abort"}
  BY DEF NextStage, CtlTypeOK, StagesOf, StageRecords
<1>2. s.at = "identify"
  <2>1. CASE s.at \in {"start", "slot", "abort"}
    BY <1>1, <2>1 DEF IdentifyNext, At
  <2>2. CASE s.at = "count"
    BY <1>1, <2>2 DEF IdentifyNext, At
  <2> QED
    BY <1>1, <2>1, <2>2
<1>3. NextStage(p) = AfterIdentify(r)
  BY <1>1, <1>2 DEF IdentifyNext
<1>4. Ok(r) /\ Matched(r.reply) /\ NextStage(p) = Slot("slot", r.reply.b1, 0)
  BY <1>3 DEF AfterIdentify, At, Matched
<1>5. Fresh(r.reply) /\ r.reply.cmd = "identify"
  BY <1>2, <1>4 DEF Truthful, For, CallAt, C
<1> QED
  BY <1>4, <1>5 DEF Fresh, Slot

LEMMA TruthStep ==
  ASSUME CtlTypeOK, SyncInv, MocInv, CallsOfStages, TruthInv, [CtlNext]_ctlVars
  PROVE  TruthInv'
<1>t. /\ TypeOK /\ SensorTypeOK /\ phase \in [Procs -> Phases]
      /\ call \in [Procs -> Calls \cup {NoCall}]
      /\ res \in [Procs -> Results \cup {NoRes}]
      /\ stage \in [Procs -> StageRecords] /\ sub \in [Procs -> Subcommands \cup {"none"}]
      /\ abandoned \in Nat
  BY DEF CtlTypeOK, TypeOK, StageRecords
<1>a. ASSUME NEW p \in Procs, Abandon(p) PROVE abandoned' = 0 => abandoned = 0
  BY <1>t, <1>a DEF Abandon
<1>b. ASSUME NEW q \in Procs, UNCHANGED cur, phase'[q] = phase[q], res'[q] = res[q],
             stage'[q] = stage[q], sub'[q] = sub[q], Truthful(q)
      PROVE  Truthful(q)'
  BY <1>b DEF Truthful, Fresh, For
<1>1. ASSUME NEW p \in Procs, Start(p) PROVE TruthInv'
  <2>1. /\ claimant' = p /\ stage'[p] = At("start") /\ phase'[p] = "ready"
        /\ UNCHANGED <<fifo, cur, abandoned>>
    BY <1>t, <1>1 DEF Start, Open, sensorVars
  <2>2. Truthful(p)'
    BY <2>1 DEF Truthful, At
  <2> QED
    BY <2>1, <2>2, TruthKept
<1>2. ASSUME NEW p \in Procs, Continue(p) PROVE TruthInv'
  <2>1. /\ UNCHANGED <<fifo, cur, abandoned>> /\ phase[p] = "ready"
        /\ claimant' \in {claimant, Released(p)}
        /\ stage' = [stage EXCEPT ![p] = NextStage(p)]
        /\ \A q \in Procs \ {p} : /\ phase'[q] = phase[q] /\ res'[q] = res[q]
                                  /\ stage'[q] = stage[q] /\ sub'[q] = sub[q]
    BY <1>t, <1>2 DEF Continue, Close, StartCall, sensorVars
  <2>2. ASSUME claimant' = p PROVE phase'[p] = "send" /\ sub' = sub
    BY <1>t, <1>2, <2>2, DriverAssumption DEF Continue, Close, StartCall, Released
  <2>3. ASSUME NEW q \in Procs, claimant' = q, claimant = q => Truthful(q)
        PROVE  Truthful(q)'
    <3>0. claimant = q
      BY <2>1, <2>3, DriverAssumption DEF Released
    <3>1. CASE q # p
      BY <1>b, <2>1, <2>3, <3>0, <3>1
    <3>2. CASE q = p
      BY <1>t, <2>1, <2>2, <2>3, <3>0, <3>2, SlotOfMatch DEF Truthful
    <3> QED
      BY <3>1, <3>2
  <2> QED
    BY <2>1, <2>3, TruthKept
<1>3. ASSUME NEW p \in Procs, CtrlC(p) PROVE TruthInv'
  <2>1. /\ UNCHANGED <<fifo, cur>> /\ Abandon(p) /\ claimant' = Released(p)
        /\ \A q \in Procs \ {p} : /\ phase'[q] = phase[q] /\ res'[q] = res[q]
                                  /\ stage'[q] = stage[q] /\ sub'[q] = sub[q]
    BY <1>t, <1>3 DEF CtrlC, Interrupt, sensorVars
  <2>2. ASSUME NEW q \in Procs, claimant' = q PROVE claimant = q /\ q # p
    BY <2>1, <2>2, DriverAssumption DEF Released
  <2> QED
    BY <1>a, <1>b, <2>1, <2>2, TruthKept
<1>4. ASSUME NEW p \in Procs, Library(p) PROVE TruthInv'
  <2>0. /\ UNCHANGED <<sub, stage, claimant>> /\ phase[p] \in {"send", "recv"}
        /\ \A q \in Procs \ {p} : phase'[q] = phase[q] /\ res'[q] = res[q]
    BY <1>t, <1>4, LibraryLocal DEF Library
  <2>s. stage[p].idx = cur => stage'[p].idx = cur
    BY <2>0
  <2>o. ASSUME UNCHANGED cur, NEW q \in Procs, q # p, claimant = q => Truthful(q),
               claimant' = q
        PROVE  Truthful(q)'
    BY <1>b, <2>0, <2>o
  <2>1. ASSUME UNCHANGED <<fifo, cur>>, abandoned' = 0 => abandoned = 0,
               phase'[p] = "ready" => ~Ok(res'[p])
        PROVE  TruthInv'
    <3>1. ASSUME NEW q \in Procs, claimant' = q, claimant = q => Truthful(q)
          PROVE  Truthful(q)'
      <4>1. CASE q = p
        BY <2>0, <2>1, <3>1, <4>1 DEF Truthful
      <4> QED
        BY <2>1, <2>o, <3>1, <4>1
    <3> QED
      BY <2>1, <3>1, TruthKept
  <2>2. CASE Refuse(p) \/ SendFails(p) \/ RecvFails(p)
    <3>1. PICK err \in {"Usb", "Gated", "PayloadTooLarge"} : Fail(p, err)
      BY <2>2 DEF Refuse, SendFails, RecvFails
    <3>2. ~Ok(res'[p])
      BY <1>t, <3>1 DEF Fail, Return, Ok
    <3>3. UNCHANGED <<fifo, cur>> /\ (abandoned' = 0 => abandoned = 0)
      BY <1>a, <2>2 DEF Refuse, SendFails, RecvFails, sensorVars
    <3> QED
      BY <2>1, <3>2, <3>3
  <2>3. CASE Send(p)
    <3>1. UNCHANGED <<fifo, cur, abandoned>> /\ phase[p] = "send"
      BY <2>3 DEF Send, Sendable
    <3>2. call[p].cmd # "wipe_sensor" /\ call[p].cmd \in CmdNames
      <4>1. call[p].cmd = CallAt(stage[p]).cmd /\ stage[p].at \in CallStages
        BY <3>1 DEF CallsOfStages
      <4>2. CallAt(stage[p]).cmd # "wipe_sensor"
        BY <4>1 DEF CallAt, CallStages, SlotCall, AbortCall, C
      <4> QED
        BY <1>t, <3>1, <4>1, <4>2, CallTyped
    <3>3. phase'[p] = "recv"
      BY <1>t, <2>3, <3>2, CmdTable DEF Send
    <3> QED
      BY <2>1, <3>1, <3>3
  <2>4. CASE Receive(p) \/ Retry(p)
    <3> SUFFICES ASSUME abandoned' = 0
                 PROVE  FreshReplies' /\ \A q \in Procs : claimant' = q => Truthful(q)'
      BY DEF TruthInv
    <3> DEFINE e == InEp(p)
    <3>1. /\ Readable(p) /\ TakeReply(p) /\ abandoned = 0 /\ UNCHANGED cur
          /\ claimant = p
      BY <2>4 DEF Receive, Retry, Readable, TakeReply
    <3>2. /\ Answered(call[p]) /\ e \in Endpoints /\ fifo[e] \in Seq(Replies)
          /\ fifo[e] # <<>> /\ call[p] \in Calls
      BY <3>1, TakenIsAnswer DEF Readable
    <3>3. /\ Len(fifo[e]) = 1 /\ For(Head(fifo[e]), call[p]) /\ Head(fifo[e]) = fifo[e][1]
          /\ \A ep \in Endpoints \ {e} : fifo[ep] = <<>>
      BY <3>2 DEF Answered, InEp
    <3> PICK r : r = Head(fifo[e])
      OBVIOUS
    <3>4. Fresh(r) /\ Truthful(p)
      BY <3>1, <3>2, <3>3 DEF TruthInv, FreshReplies
    <3>5. FreshReplies'
      <4>1. fifo' = [fifo EXCEPT ![e] = Tail(fifo[e])]
        BY <3>1 DEF TakeReply
      <4>2. Len(Tail(fifo[e])) = 0
        BY <3>2, <3>3, HeadTailProperties
      <4>3. \A ep \in Endpoints : Len(fifo'[ep]) = 0
        BY <1>t, <3>2, <3>3, <4>1, <4>2, EmptySeq DEF SensorTypeOK
      <4> QED
        BY <4>3 DEF FreshReplies
    <3>6. Truthful(p)'
      <4>1. CASE phase'[p] = "ready" /\ Ok(res'[p])
        <5>1. res'[p] = Decoded(call[p], r)
          BY <1>t, <2>4, <4>1 DEF Receive, Retry, Return
        <5>2. res'[p].reply = r
          BY <4>1, <5>1 DEF Decoded, Ok
        <5>3. call[p].cmd = CallAt(stage[p]).cmd /\ call[p].payload = CallAt(stage[p]).payload
          BY <2>0 DEF CallsOfStages
        <5>4. For(r, CallAt(stage[p])) /\ Fresh(r)'
          BY <3>1, <3>3, <3>4, <5>3 DEF For, Fresh
        <5> QED
          BY <2>0, <3>1, <3>4, <5>2, <5>4 DEF Truthful, Fresh, For
      <4>2. CASE ~(phase'[p] = "ready" /\ Ok(res'[p]))
        BY <2>0, <3>1, <3>4, <4>2 DEF Truthful
      <4> QED
        BY <4>1, <4>2
    <3> QED
      BY <2>0, <3>1, <3>5, <3>6
  <2> QED
    BY <1>4, <2>2, <2>3, <2>4 DEF Library, Step
<1>5. CASE SensorNext /\ UNCHANGED <<procVars, sub, stage>>
  BY <1>5, TruthSensor
<1>6. CASE Replug
  <2>1. claimant' = NoProc /\ fifo' = [ep \in Endpoints |-> <<>>]
    BY <1>6 DEF Replug, PowerCycle
  <2> QED
    BY <2>1, DriverAssumption DEF TruthInv, FreshReplies
<1>7. CASE UNCHANGED ctlVars
  BY <1>b, <1>7, TruthKept DEF ctlVars, vars, sensorVars, procVars
<1> QED
  BY <1>1, <1>2, <1>3, <1>4, <1>5, <1>6, <1>7 DEF CtlNext

LEMMA TruthInvariant == CtlSpec => []TruthInv
<1>1. CtlInit => TruthInv
  <2> SUFFICES ASSUME CtlInit PROVE TruthInv
    OBVIOUS
  <2>1. claimant = NoProc /\ \A ep \in Endpoints : fifo[ep] = <<>>
    BY DEF CtlInit, Init, SensorInit
  <2> QED
    BY <2>1, DriverAssumption DEF TruthInv, FreshReplies
<1>2. CtlTypeOK /\ SyncInv /\ MocInv /\ CallsOfStages /\ TruthInv /\ [CtlNext]_ctlVars
        => TruthInv'
  BY TruthStep
<1> QED
  BY <1>1, <1>2, CtlTypeCorrect, CtlStaged, CtlImplementsLibrary, SyncInvariant,
     MocInvariant, PTL DEF CtlSpec

\* What a user-id about to be printed is worth, under either subcommand.
LEMMA PrintedRecord ==
  ASSUME CtlTypeOK, TruthInv, NEW p \in Procs, NEW c, Prints(p, c)
  PROVE  /\ UserId(res[p]) = IF SlotAware THEN stage[p].idx ELSE cur
         /\ c = "identify" => stage[p].idx = cur
<1> DEFINE r == res[p].reply
<1>1. /\ Ok(res[p]) /\ stage[p].at = "slot" /\ phase[p] = "ready" /\ sub[p] = c
      /\ r.len >= 2 => FromByte(r.b1) = "Ok"
      /\ Truthful(p) /\ r.len >= UserIdOffset(Pid)
  BY DEF Prints, GotFingerInfo, TruthInv
<1>2. r \in Replies /\ r.len >= 2
  <2>1. res[p] \in Results
    BY <1>1 DEF CtlTypeOK, TypeOK, Ok
  <2>2. r \in Replies
    BY <1>1, <2>1, OkTyped
  <2>3. r.len \in Nat /\ UserIdOffset(Pid) \in {2, 3}
    BY <2>2 DEF Replies, UserIdOffset
  <2> QED
    BY <1>1, <2>2, <2>3
<1>3. Fresh(r) /\ For(r, CallAt(stage[p]))
  BY <1>1 DEF Truthful
<1>4. r.cmd = "finger_info" /\ r.arg = stage[p].idx
  BY <1>1, <1>3 DEF For, CallAt, SlotCall, C, Arg
<1>5. r.uid = IF SlotAware THEN stage[p].idx ELSE cur
  BY <1>1, <1>2, <1>3, <1>4 DEF Fresh, Matched
<1> QED
  BY <1>1, <1>5 DEF Truthful, UserId

\* elanctl.rs:234, for every model of sensor, any number of processes and any
\* queue depths: on an exchange in step, identify prints the slot and the
\* user-id of the template the finger matched.
THEOREM IdentifyPrintsMatch == CtlSpec => []MatchedRecord
<1>1. CtlTypeOK /\ TruthInv => MatchedRecord
  BY PrintedRecord DEF MatchedRecord
<1> QED
  BY <1>1, CtlTypeCorrect, TruthInvariant, PTL

\* elanctl.rs:124, where the sensor heeds the slot it is asked for: info prints
\* each slot's own user-id.  (On 04f3:0c00 it does not.)
THEOREM InfoPrintsSlot ==
  ASSUME SlotAware = TRUE
  PROVE  CtlSpec => []InfoTruthful
<1>1. CtlTypeOK /\ TruthInv => InfoTruthful
  BY PrintedRecord DEF InfoTruthful
<1> QED
  BY <1>1, CtlTypeCorrect, TruthInvariant, PTL

(***************************************************************************)
(* A failed identify and its abort, followed through the sensor.           *)
(***************************************************************************)
\* Only the identify that was given up is there, if anything is.
Left ==
  /\ fifo[EP_CMD_IN] = <<>>
  /\ \/ waiting = NoReq /\ Len(inbox) = 1 /\ inbox[1].cmd = "identify"
     \/ inbox = <<>>

\* The abort is behind it, or next.
AbortQueued ==
  /\ fifo[EP_CMD_IN] = <<>>
  /\ \/ Len(inbox) = 1 /\ inbox[1].cmd = "abort"
     \/ /\ Len(inbox) = 2 /\ inbox[1].cmd = "identify" /\ inbox[2].cmd = "abort"
        /\ waiting = NoReq

AbortDone == waiting = NoReq /\ inbox = <<>> /\ Len(fifo[EP_CMD_IN]) = 1

Recovered == waiting = NoReq /\ inbox = <<>> /\ fifo[EP_CMD_IN] = <<>>

Aborting(p) ==
  /\ stage[p].at = "identify" /\ phase[p] = "ready" /\ ~Ok(res[p])
       => abandoned = 1 /\ Left
  /\ stage[p].at = "abort" /\ phase[p] = "send" => abandoned = 1 /\ Left
  /\ stage[p].at = "abort" /\ phase[p] = "recv"
       => abandoned = 1 /\ (AbortQueued \/ AbortDone)
  /\ stage[p].at = "abort" /\ phase[p] = "ready" /\ Ok(res[p]) => Recovered

AbortInv == abandoned <= 1 => \A p \in Procs : claimant = p => Aborting(p)

\* The sensor at work on what is left: each way it can go.
LEMMA SensorMoves ==
  ASSUME SensorTypeOK, MocInv, SensorNext,
         inbox # <<>> => Head(inbox).cmd \in {"identify", "abort"}
  PROVE  \/ /\ inbox # <<>> /\ Head(inbox).cmd = "identify" /\ waiting = NoReq
            /\ inbox' = Tail(inbox) /\ fifo'[EP_CMD_IN] = fifo[EP_CMD_IN]
         \/ /\ inbox # <<>> /\ Head(inbox).cmd = "abort" /\ inbox' = Tail(inbox)
            /\ waiting' = NoReq /\ Len(fifo'[EP_CMD_IN]) = Len(fifo[EP_CMD_IN]) + 1
         \/ /\ waiting # NoReq /\ waiting' = NoReq /\ inbox' = inbox
            /\ fifo'[EP_CMD_IN] = fifo[EP_CMD_IN]
<1>1. ~HandleWipe
  BY DEF HandleWipe
<1>2. CASE BeginWait
  <2>1. Head(inbox).cmd # "abort"
    BY <1>2, HeadTyped, CmdTable DEF BeginWait
  <2> QED
    BY <1>2, <2>1 DEF BeginWait
<1>3. ASSUME NEW r \in Replies, Answers(r)
      PROVE  /\ inbox # <<>> /\ Head(inbox).cmd = "abort" /\ inbox' = Tail(inbox)
             /\ waiting' = NoReq /\ Len(fifo'[EP_CMD_IN]) = Len(fifo[EP_CMD_IN]) + 1
  <2>1. Head(inbox).cmd = "abort" /\ r.cmd \in Prompt /\ Emit(r)
    BY <1>3 DEF Answers, Prompt, Queries
  <2>2. Len(fifo'[EP_CMD_IN]) = Len(fifo[EP_CMD_IN]) + 1
    BY <2>1, PromptEndpoint, EmitAppends
  <2> QED
    BY <1>3, <2>1, <2>2 DEF Answers
<1>4. ASSUME NEW r \in Replies, Touched(r)
      PROVE  /\ waiting # NoReq /\ waiting' = NoReq /\ inbox' = inbox
             /\ fifo'[EP_CMD_IN] = fifo[EP_CMD_IN]
  <2>1. r.cmd \in {"identify", "enroll"} /\ Emit(r)
    BY <1>4 DEF Touched, MocInv
  <2>2. fifo'[EP_CMD_IN] = fifo[EP_CMD_IN]
    BY <2>1, FingerEndpoint, EmitAppends, LoadTyped
  <2> QED
    BY <1>4, <2>2 DEF Touched
<1> QED
  BY <1>1, <1>2, <1>3, <1>4, SensorStep

LEMMA AbortSensor ==
  ASSUME SensorTypeOK, MocInv, SensorNext
  PROVE  /\ Left => Left'
         /\ AbortQueued \/ AbortDone => (AbortQueued \/ AbortDone)'
         /\ ~Recovered
<1>h. inbox # <<>> =>
        /\ Head(inbox) = inbox[1] /\ Len(inbox) \in Nat
        /\ Tail(inbox) \in Seq(Requests) /\ Len(Tail(inbox)) = Len(inbox) - 1
        /\ \A i \in 1..Len(Tail(inbox)) : Tail(inbox)[i] = inbox[i + 1]
  BY HeadTyped
<1>e. inbox # <<>> /\ Len(inbox) = 1 => Tail(inbox) = <<>>
  <2> SUFFICES ASSUME inbox # <<>>, Len(inbox) = 1 PROVE Tail(inbox) = <<>>
    OBVIOUS
  <2>1. Tail(inbox) \in Seq(Requests) /\ Len(Tail(inbox)) = 0
    BY <1>h
  <2> QED
    BY <2>1, EmptySeq
<1>z. Len(<<>>) = 0 /\ (Len(inbox) = 0 <=> inbox = <<>>)
  BY LoadTyped, EmptySeq
<1>1. ASSUME Left PROVE Left'
  <2>1. inbox # <<>> => Head(inbox).cmd \in {"identify", "abort"}
    BY <1>1, <1>h DEF Left
  <2> QED
    BY <1>1, <1>h, <1>e, <2>1, SensorMoves DEF Left
<1>2. ASSUME AbortQueued PROVE AbortQueued' \/ AbortDone'
  <2>1. inbox # <<>> /\ Head(inbox).cmd \in {"identify", "abort"}
    BY <1>2, <1>h, <1>z DEF AbortQueued
  <2>2. CASE Len(inbox) = 1 /\ inbox[1].cmd = "abort"
    <3>1. Len(fifo[EP_CMD_IN]) = 0
      BY <1>2, <1>z DEF AbortQueued
    <3>2. \/ /\ inbox' = <<>> /\ waiting' = NoReq
             /\ Len(fifo'[EP_CMD_IN]) = Len(fifo[EP_CMD_IN]) + 1
          \/ inbox' = inbox /\ fifo'[EP_CMD_IN] = fifo[EP_CMD_IN]
      BY <1>h, <1>e, <2>1, <2>2, SensorMoves
    <3>3. CASE inbox' = <<>> /\ waiting' = NoReq
                 /\ Len(fifo'[EP_CMD_IN]) = Len(fifo[EP_CMD_IN]) + 1
      BY <3>1, <3>3 DEF AbortDone
    <3>4. CASE inbox' = inbox /\ fifo'[EP_CMD_IN] = fifo[EP_CMD_IN]
      BY <1>2, <2>2, <3>4 DEF AbortQueued
    <3> QED
      BY <3>2, <3>3, <3>4
  <2>3. CASE /\ Len(inbox) = 2 /\ inbox[1].cmd = "identify" /\ inbox[2].cmd = "abort"
             /\ waiting = NoReq
    <3>1. Len(Tail(inbox)) = 1 /\ Tail(inbox)[1] = inbox[2]
      <4>1. Len(Tail(inbox)) = 1
        BY <1>h, <2>1, <2>3
      <4>2. 1 \in 1..Len(Tail(inbox)) /\ 1 + 1 = 2
        BY <4>1
      <4> QED
        BY <1>h, <2>1, <4>1, <4>2
    <3>2. inbox' = Tail(inbox) /\ fifo'[EP_CMD_IN] = fifo[EP_CMD_IN]
      BY <1>h, <2>1, <2>3, SensorMoves
    <3> QED
      BY <1>2, <2>3, <3>1, <3>2 DEF AbortQueued
  <2> QED
    BY <1>2, <2>2, <2>3 DEF AbortQueued
<1>3. ~AbortDone /\ ~Recovered
  BY SensorMoves DEF AbortDone, Recovered
<1> QED
  BY <1>1, <1>2, <1>3

\* An identify sent to a sensor that owes nothing is all there is when it is
\* given up; nothing else makes a claimant's identify fail.
LEMMA IdentifyFails ==
  ASSUME CountedInv, SyncInv, MocInv, OutDepth > 1, AbandonCap > 1,
         NEW p \in Procs, claimant = p, stage[p].at = "identify", Step(p),
         phase'[p] = "ready", ~Ok(res'[p]), abandoned' <= 1
  PROVE  abandoned' = 1 /\ Left'
<1>t. /\ TypeOK /\ SensorTypeOK /\ phase \in [Procs -> Phases] /\ OutDepth \in Nat
      /\ res \in [Procs -> Results \cup {NoRes}] /\ abandoned \in Nat /\ AbandonCap \in Nat
  BY SensorAssumption, DriverAssumption DEF CountedInv, CtlTypeOK, TypeOK
<1>c. /\ call[p].mode = "transceive" /\ call[p].cmd = "identify" /\ call[p].payload = <<>>
      /\ call[p] \in Calls
  BY <1>t, LibraryLocal, CallTyped DEF CountedInv, CallsOfStages, CallAt, C
<1>f. /\ Cmd["identify"].ep_in = EP_MOC_CMD_IN /\ Cmd["identify"].in_len = 2
      /\ ~Persistent("identify") /\ Fits("identify", <<>>)
  <2>1. ~Persistent("identify")
    BY CmdTable DEF CmdNames
  <2>2. Fits("identify", <<>>)
    <3>1. Cmd["identify"].cmd = <<255, 3>> /\ Cmd["identify"].out_len = 3
      BY DEF Cmd, Row, IDENTIFY
    <3>2. Len(<<255, 3>>) = 2 /\ Len(<<>>) = 0
      BY EmptySeq
    <3> QED
      BY <3>1, <3>2 DEF Fits, Header
  <2> QED
    BY <2>1, <2>2, FingerEndpoint
<1>1. ~Refuse(p)
  BY <1>c, <1>f DEF Refuse, Gated
<1>2. ASSUME SendFails(p) PROVE FALSE
  <2>1. Len(inbox) = OutDepth /\ phase[p] = "send" /\ abandoned' = abandoned
    BY <1>2 DEF SendFails, Sendable
  <2>2. ~Awaiting
    BY <2>1 DEF Awaiting
  <2>3. Load <= abandoned
    BY <1>t, <2>1, <2>2 DEF CountedInv, RequestsCounted
  <2>4. /\ Fill \in Nat /\ Len(inbox) \in Nat /\ Pending \in Nat
        /\ Load = Len(inbox) + Pending + Fill
    BY <1>t, LoadParts
  <2> QED
    BY <1>t, <2>1, <2>3, <2>4
<1>3. ASSUME Send(p) PROVE FALSE
  BY <1>t, <1>c, <1>f, <1>3 DEF Send
<1>4. ASSUME Receive(p) PROVE FALSE
  <2>1. Readable(p) /\ InEp(p) = EP_MOC_CMD_IN
    BY <1>4, <1>c, <1>f DEF Receive, InEp
  <2> DEFINE s == fifo[EP_MOC_CMD_IN]
  <2>2. s \in Seq(Replies) /\ s # <<>>
    BY <1>t, <2>1, LoadTyped DEF Readable, SensorTypeOK
  <2>3. 1 \in 1..Len(s) /\ Head(s) = s[1]
    BY <2>2, EmptySeq
  <2>4. Head(s).len = 2 /\ Head(s).magic
    BY <2>3 DEF MocInv
  <2>5. res'[p] = Decoded(call[p], Head(s))
    BY <1>t, <1>4, <2>1 DEF Receive, Return
  <2>6. Decoded(call[p], Head(s)).err = "none"
    BY <1>c, <1>f, <2>4 DEF Decoded
  <2> QED
    BY <2>5, <2>6 DEF Ok
<1>5. ~Retry(p)
  BY <1>t DEF Retry
<1>6. CASE RecvFails(p)
  <2>1. /\ phase[p] = "recv" /\ UNCHANGED sensorVars /\ fifo[EP_MOC_CMD_IN] = <<>>
        /\ abandoned' = IF abandoned < AbandonCap THEN abandoned + 1 ELSE abandoned
    BY <1>6, <1>c, <1>f DEF RecvFails, Abandon, InEp
  <2>2. abandoned = 0 /\ abandoned' = 1
    BY <1>t, <2>1
  <2>3. Awaiting
    BY <2>1, DriverAssumption DEF Awaiting
  <2>4. Queued(call[p]) \/ AtFinger(call[p])
    <3>1. ~Answered(call[p])
      BY <1>c, <1>f, <2>1, EmptySeq DEF Answered
    <3> QED
      BY <2>2, <2>3, <3>1, SyncCases DEF SyncInv
  <2>5. Load <= 1
    BY <1>t, <2>2, <2>3 DEF CountedInv, RequestsCounted
  <2>6. inbox = <<>> \/ Len(inbox) = 1
    <3>1. /\ Fill \in Nat /\ Len(inbox) \in Nat /\ Pending \in Nat
          /\ Load = Len(inbox) + Pending + Fill
      BY <1>t, LoadParts
    <3>2. Len(inbox) = 0 \/ Len(inbox) = 1
      <4>1. PICK n \in Nat, h \in Nat, f \in Nat :
              n = Len(inbox) /\ h = Pending /\ f = Fill
        BY <3>1
      <4>2. n + h + f <= 1
        BY <2>5, <3>1, <4>1
      <4>3. n = 0 \/ n = 1
        BY <4>2
      <4> QED
        BY <4>1, <4>3
    <3>3. Len(inbox) = 0 => inbox = <<>>
      BY <1>t, EmptySeq DEF SensorTypeOK
    <3> QED
      BY <3>2, <3>3, Zenon
  <2>7. Drained /\ fifo[EP_CMD_IN] = <<>>
    BY <1>t, <2>4, LoadTyped DEF Queued, AtFinger, Drained
  <2>8. CASE Queued(call[p])
    <3>1. Len(inbox) = 1 /\ inbox[1].cmd = "identify"
      <4>1. inbox # <<>> /\ For(inbox[Len(inbox)], call[p])
        BY <2>8 DEF Queued
      <4>2. Len(inbox) = 1
        BY <2>6, <4>1
      <4> QED
        BY <1>c, <4>1, <4>2 DEF For
    <3> QED
      BY <2>1, <2>2, <2>7, <2>8, <3>1 DEF Left, Queued, sensorVars
  <2>9. CASE AtFinger(call[p])
    BY <2>1, <2>2, <2>7, <2>9 DEF Left, AtFinger, sensorVars
  <2> QED
    BY <2>4, <2>8, <2>9
<1> QED
  BY <1>1, <1>2, <1>3, <1>4, <1>5, <1>6 DEF Step

\* The abort on its way.
LEMMA AbortLibrary ==
  ASSUME CtlTypeOK, CallsOfStages, NEW p \in Procs, claimant = p,
         stage[p].at = "abort", Step(p), Aborting(p), abandoned <= 1
  PROVE  /\ phase'[p] = "send" => abandoned' = 1 /\ Left'
         /\ phase'[p] = "recv" => abandoned' = 1 /\ (AbortQueued \/ AbortDone)'
         /\ phase'[p] = "ready" /\ Ok(res'[p]) => Recovered'
<1>t. /\ TypeOK /\ SensorTypeOK /\ phase \in [Procs -> Phases]
      /\ res \in [Procs -> Results \cup {NoRes}]
  BY DEF CtlTypeOK, TypeOK
<1>c. /\ call[p].cmd = "abort" /\ call[p] \in Calls /\ InEp(p) = EP_CMD_IN
      /\ Cmd["abort"].in_len # 0
  BY <1>t, LibraryLocal, CallTyped, PromptEndpoint, CmdTable
     DEF CallsOfStages, CallAt, AbortCall, C, Prompt, InEp, CmdNames
<1>1. CASE Refuse(p) \/ SendFails(p) \/ RecvFails(p)
  <2>1. PICK err \in {"Usb", "Gated", "PayloadTooLarge"} : Fail(p, err)
    BY <1>1 DEF Refuse, SendFails, RecvFails
  <2>2. phase'[p] = "ready" /\ ~Ok(res'[p])
    BY <1>t, <2>1 DEF Fail, Return, Ok
  <2> QED
    BY <2>2
<1>2. CASE Send(p)
  <2> DEFINE q == [cmd |-> call[p].cmd, arg |-> Arg(call[p].payload), auth |-> token[p]]
  <2>1. /\ phase[p] = "send" /\ inbox' = Append(inbox, q)
        /\ UNCHANGED <<waiting, fifo, abandoned>> /\ phase'[p] = "recv"
    BY <1>t, <1>c, <1>2 DEF Send, Sendable
  <2>2. q \in Requests /\ q.cmd = "abort"
    BY <1>t, <1>c, <2>1, CallTyped DEF Requests, TypeOK
  <2>3. abandoned = 1 /\ Left
    BY <2>1 DEF Aborting
  <2>4. /\ Len(inbox') = Len(inbox) + 1 /\ inbox'[Len(inbox) + 1] = q
        /\ \A i \in 1..Len(inbox) : inbox'[i] = inbox[i]
    BY <1>t, <2>1, <2>2, AppendProperties DEF SensorTypeOK
  <2> HIDE DEF q
  <2>5. CASE inbox = <<>>
    <3>1. Len(inbox') = 1 /\ inbox'[1] = q
      BY <2>4, <2>5, EmptySeq
    <3> QED
      BY <2>1, <2>2, <2>3, <3>1 DEF Left, AbortQueued
  <2>6. CASE waiting = NoReq /\ Len(inbox) = 1 /\ inbox[1].cmd = "identify"
    <3>1. Len(inbox') = 2 /\ inbox'[1] = inbox[1] /\ inbox'[2] = q
      BY <2>4, <2>6
    <3> QED
      BY <2>1, <2>2, <2>3, <2>6, <3>1 DEF Left, AbortQueued
  <2> QED
    BY <2>3, <2>5, <2>6 DEF Left
<1>3. CASE Receive(p) \/ Retry(p)
  <2>1. /\ Readable(p) /\ fifo[EP_CMD_IN] # <<>> /\ UNCHANGED <<waiting, inbox, abandoned>>
        /\ fifo' = [fifo EXCEPT ![EP_CMD_IN] = Tail(fifo[EP_CMD_IN])]
        /\ phase[p] = "recv" /\ phase'[p] # "recv"
    BY <1>t, <1>c, <1>3 DEF Receive, Retry, Readable, TakeReply, Return
  <2>2. abandoned = 1 /\ AbortDone
    BY <2>1 DEF Aborting, AbortQueued
  <2>3. fifo[EP_CMD_IN] \in Seq(Replies) /\ EP_CMD_IN \in Endpoints
    BY <1>t, LoadTyped DEF SensorTypeOK
  <2>4. Tail(fifo[EP_CMD_IN]) \in Seq(Replies) /\ Len(Tail(fifo[EP_CMD_IN])) = 0
    BY <2>1, <2>2, <2>3, HeadTailProperties DEF AbortDone
  <2>5. fifo'[EP_CMD_IN] = <<>>
    BY <1>t, <2>1, <2>3, <2>4, EmptySeq DEF SensorTypeOK
  <2> QED
    BY <2>1, <2>2, <2>5 DEF AbortDone, Recovered, Left
<1> QED
  BY <1>1, <1>2, <1>3 DEF Step

\* Another process ends, or gives up a request, with the claim elsewhere.
LEMMA AbortElsewhere ==
  ASSUME NEW q \in Procs, UNCHANGED <<waiting, inbox, fifo, abandoned>>,
         phase'[q] = phase[q], res'[q] = res[q], stage'[q] = stage[q], Aborting(q)
  PROVE  Aborting(q)'
BY DEF Aborting, Left, AbortQueued, AbortDone, Recovered

LEMMA AbortStep ==
  ASSUME CountedInv, SyncInv, MocInv, AbortInv, OutDepth > 1, AbandonCap > 1,
         [CtlNext]_ctlVars
  PROVE  AbortInv'
<1>t. /\ TypeOK /\ SensorTypeOK /\ CtlTypeOK /\ CallsOfStages /\ phase \in [Procs -> Phases]
      /\ res \in [Procs -> Results \cup {NoRes}]
      /\ stage \in [Procs -> StageRecords] /\ abandoned \in Nat
  BY DEF CountedInv, CtlTypeOK, TypeOK, StageRecords
<1>1. ASSUME NEW p \in Procs, Start(p) PROVE AbortInv'
  <2>1. /\ claimant' = p /\ stage'[p] = At("start")
        /\ UNCHANGED <<waiting, inbox, fifo, abandoned>>
    BY <1>t, <1>1 DEF Start, Open, sensorVars
  <2>2. Aborting(p)'
    BY <2>1 DEF Aborting, At
  <2> QED
    BY <2>1, <2>2 DEF AbortInv
<1>2. ASSUME NEW p \in Procs, Continue(p) PROVE AbortInv'
  <2>1. /\ UNCHANGED <<waiting, inbox, fifo, abandoned>> /\ phase[p] = "ready"
        /\ claimant' \in {claimant, Released(p)}
        /\ stage' = [stage EXCEPT ![p] = NextStage(p)]
        /\ \A q \in Procs \ {p} : /\ phase'[q] = phase[q] /\ res'[q] = res[q]
                                  /\ stage'[q] = stage[q]
    BY <1>t, <1>2 DEF Continue, Close, StartCall, sensorVars
  <2>2. ASSUME claimant' = p PROVE phase'[p] = "send"
    BY <1>t, <1>2, <2>2, DriverAssumption DEF Continue, Close, StartCall, Released
  <2>3. ASSUME NextStage(p).at = "abort" PROVE stage[p].at = "identify" /\ ~Ok(res[p])
    <3>1. sub[p] = "identify"
      BY <1>t, <2>1, <2>3, NextStageTyped DEF StagesOf
    <3>2. NextStage(p) = IdentifyNext(stage[p], res[p]) /\ stage[p].at \in StagesOf("identify")
      BY <1>t, <2>1, <3>1 DEF NextStage, CtlTypeOK
    <3>3. stage[p].at = "identify"
      <4>1. stage[p].at \in {"start", "count", "identify", "slot", "abort"}
        BY <3>2 DEF StagesOf
      <4> QED
        BY <2>3, <3>2, <4>1 DEF IdentifyNext, At
    <3> QED
      BY <2>3, <3>2, <3>3 DEF IdentifyNext, AfterIdentify, At, Slot
  <2>4. ASSUME NEW q \in Procs, claimant' = q, abandoned <= 1 PROVE Aborting(q)'
    <3>1. claimant = q /\ Aborting(q)
      BY <2>1, <2>4, DriverAssumption DEF Released, AbortInv
    <3>2. CASE q # p
      BY <2>1, <3>1, <3>2, AbortElsewhere
    <3>3. CASE q = p
      <4>1. phase'[p] = "send" /\ stage'[p] = NextStage(p)
        BY <1>t, <2>1, <2>2, <2>4, <3>3
      <4>2. CASE NextStage(p).at = "abort"
        <5>1. abandoned = 1 /\ Left
          BY <2>1, <2>3, <3>1, <3>3, <4>2 DEF Aborting
        <5> QED
          BY <2>1, <3>3, <4>1, <5>1 DEF Aborting, Left
      <4>3. CASE NextStage(p).at # "abort"
        BY <3>3, <4>1, <4>3 DEF Aborting
      <4> QED
        BY <4>2, <4>3
    <3> QED
      BY <3>2, <3>3
  <2> QED
    BY <2>1, <2>4 DEF AbortInv
<1>3. ASSUME NEW p \in Procs, CtrlC(p) PROVE AbortInv'
  <2>1. /\ UNCHANGED <<waiting, inbox, fifo>> /\ Abandon(p) /\ claimant' = Released(p)
        /\ \A q \in Procs \ {p} : /\ phase'[q] = phase[q] /\ res'[q] = res[q]
                                  /\ stage'[q] = stage[q]
    BY <1>t, <1>3 DEF CtrlC, Interrupt, sensorVars
  <2>2. ASSUME NEW q \in Procs, claimant' = q, abandoned' <= 1 PROVE Aborting(q)'
    <3>1. claimant = q /\ q # p /\ abandoned' = abandoned
      BY <2>1, <2>2, DriverAssumption DEF Released, Abandon
    <3>2. Aborting(q)
      BY <2>2, <3>1 DEF AbortInv
    <3> QED
      BY <2>1, <3>1, <3>2, AbortElsewhere
  <2> QED
    BY <2>2 DEF AbortInv
<1>4. ASSUME NEW p \in Procs, Library(p) PROVE AbortInv'
  <2>0. /\ Step(p) /\ UNCHANGED <<sub, stage, claimant>> /\ phase[p] \in {"send", "recv"}
        /\ phase'[p] \in {"ready", "send", "recv"}
        /\ \A q \in Procs \ {p} : phase'[q] = phase[q] /\ res'[q] = res[q]
    BY <1>t, <1>4, LibraryLocal DEF Library
  <2>1. abandoned' <= 1 => abandoned <= 1
    BY <1>t, <2>0 DEF Step, Refuse, Send, SendFails, Receive, Retry, TakeReply, RecvFails, Abandon
  <2> SUFFICES ASSUME abandoned' <= 1, NEW q \in Procs, claimant = q PROVE Aborting(q)'
    BY <2>0 DEF AbortInv
  <2>2. Aborting(q) /\ abandoned <= 1
    BY <2>1 DEF AbortInv
  <2>3. CASE q # p
    <3>1. UNCHANGED <<waiting, inbox, fifo, abandoned>>
      BY <2>0, <2>3 DEF Step, Refuse, Send, SendFails, Receive, Retry, Readable,
         RecvFails, Abandon, sensorVars
    <3> QED
      BY <2>0, <2>2, <2>3, <3>1, AbortElsewhere
  <2>4. CASE q = p
    <3>1. CASE stage[p].at = "identify"
      <4>1. phase'[p] = "ready" /\ ~Ok(res'[p]) => abandoned' = 1 /\ Left'
        BY <2>0, <2>4, <3>1, IdentifyFails
      <4> QED
        BY <2>0, <2>4, <3>1, <4>1 DEF Aborting
    <3>2. CASE stage[p].at = "abort"
      <4>1. /\ phase'[p] = "send" => abandoned' = 1 /\ Left'
            /\ phase'[p] = "recv" => abandoned' = 1 /\ (AbortQueued \/ AbortDone)'
            /\ phase'[p] = "ready" /\ Ok(res'[p]) => Recovered'
        BY <1>t, <2>0, <2>2, <2>4, <3>2, AbortLibrary
      <4> QED
        BY <2>0, <2>4, <3>2, <4>1 DEF Aborting
    <3>3. CASE stage[p].at \notin {"identify", "abort"}
      BY <2>0, <2>4, <3>3 DEF Aborting
    <3> QED
      BY <3>1, <3>2, <3>3
  <2> QED
    BY <2>3, <2>4
<1>5. CASE SensorNext /\ UNCHANGED <<procVars, sub, stage>>
  <2>1. UNCHANGED <<claimant, phase, res, abandoned, stage>>
    BY <1>5 DEF procVars
  <2>2. /\ Left => Left'
        /\ ~Recovered
        /\ AbortQueued \/ AbortDone => (AbortQueued \/ AbortDone)'
    BY <1>t, <1>5, AbortSensor
  <2>3. ASSUME NEW q \in Procs, Aborting(q) PROVE Aborting(q)'
    BY <2>1, <2>2, <2>3 DEF Aborting
  <2> QED
    BY <2>1, <2>3 DEF AbortInv
<1>6. CASE Replug
  BY <1>6, DriverAssumption DEF Replug, AbortInv
<1>7. CASE UNCHANGED ctlVars
  <2>1. UNCHANGED <<waiting, inbox, fifo, abandoned, claimant, phase, res, stage>>
    BY <1>7 DEF ctlVars, vars, sensorVars, procVars
  <2> QED
    BY <2>1, AbortElsewhere DEF AbortInv
<1> QED
  BY <1>1, <1>2, <1>3, <1>4, <1>5, <1>6, <1>7 DEF CtlNext

\* elanctl.rs:246, for any number of processes and templates, where the OUT
\* endpoint holds the abort behind the identify it follows and the count of
\* abandoned requests tells one from two: an answered abort leaves the sensor
\* waiting for no finger, nothing queued and the ordinary endpoint empty.
THEOREM AbortWorks ==
  ASSUME OutDepth > 1, AbandonCap > 1
  PROVE  CtlSpec => []AbortRecovers
<1>1. CtlInit => AbortInv
  BY DriverAssumption DEF CtlInit, Init, AbortInv
<1>2. CtlTypeOK /\ CallsOfStages /\ RequestsCounted /\ SyncInv /\ MocInv /\ AbortInv
        /\ [CtlNext]_ctlVars
        => AbortInv'
  BY AbortStep DEF CountedInv
<1>3. AbortInv => AbortRecovers
  BY DEF AbortInv, Aborting, AbortRecovers, Recovered
<1> QED
  BY <1>1, <1>2, <1>3, CtlTypeCorrect, CtlStaged, NothingPilesUp, CtlImplementsLibrary,
     SyncInvariant, MocInvariant, PTL DEF CtlSpec

(***************************************************************************)
(* Every step of a process brings its subcommand nearer its end.           *)
(***************************************************************************)
LEMMA RankTyped ==
  ASSUME NEW s \in StageRecords
  PROVE  /\ StageRank(s) \in Nat
         /\ s.at # "done" => StageRank(s) >= 1
<1>1. s.at \in CallStages \cup {"start", "done"} /\ s.idx \in Nat /\ s.n \in Nat
      /\ MaxPrints \in Nat
  BY SensorAssumption DEF StageRecords
<1>2. CASE s.at \in {"slot", "rawslot"}
  <2>1. StageRank(s) = IF s.idx < s.n THEN s.n - s.idx ELSE 1
    BY <1>2 DEF StageRank
  <2> QED
    BY <1>1, <2>1
<1>3. CASE s.at \notin {"slot", "rawslot"}
  BY <1>1, <1>3 DEF StageRank, CallStages
<1> QED
  BY <1>2, <1>3

LEMMA ListRank ==
  ASSUME NEW at \in {"slot", "rawslot"}, NEW from \in 0..16, NEW n \in 0..MaxPrints
  PROVE  StageRank(ListSlots(at, from, n)) = IF from < n THEN n - from ELSE 0
BY SensorAssumption DEF ListSlots, Slot, At, StageRank

LEMMA NextRank ==
  ASSUME CtlTypeOK, NEW p \in Procs, phase[p] = "ready"
  PROVE  StageRank(NextStage(p)) < StageRank(stage[p])
<1> DEFINE s == stage[p]
           r == res[p]
<1>1. /\ s \in StageRecords /\ s.at \in StagesOf(sub[p])
      /\ s.idx \in 0..15 /\ s.idx + 1 \in 0..16 /\ s.n \in 0..MaxPrints
      /\ MaxPrints \in Nat /\ MaxPrints >= 1 /\ 0 \in 0..16
      /\ s.at # "start" => r \in Results
  BY SensorAssumption DEF CtlTypeOK, TypeOK, StageRecords
<1>2. sub[p] \in {"info", "dump", "collision", "identify"}
  BY NextStageTyped
<1>3. /\ StageRank(At("fw")) = MaxPrints + 3
      /\ StageRank(At("count")) = MaxPrints + 2 /\ StageRank(At("rawcount")) = MaxPrints + 2
      /\ StageRank(At("collision")) = 1 /\ StageRank(At("abort")) = 1
      /\ StageRank(At("identify")) = 2 /\ StageRank(At("done")) = 0
  BY DEF StageRank, At
<1>4. /\ s.at = "start" => StageRank(s) = MaxPrints + 4
      /\ s.at = "fw" => StageRank(s) = MaxPrints + 3
      /\ s.at \in {"count", "rawcount"} => StageRank(s) = MaxPrints + 2
      /\ s.at \in {"slot", "rawslot"} =>
           StageRank(s) = IF s.idx < s.n THEN s.n - s.idx ELSE 1
      /\ s.at = "identify" => StageRank(s) = 2
      /\ s.at \in {"collision", "abort"} => StageRank(s) = 1
  BY DEF StageRank
<1>5. ASSUME NEW at \in {"slot", "rawslot"}, s.at = at,
             NextStage(p) = ListSlots(at, s.idx + 1, s.n)
      PROVE  StageRank(NextStage(p)) < StageRank(s)
  <2>1. StageRank(NextStage(p)) = IF s.idx + 1 < s.n THEN s.n - (s.idx + 1) ELSE 0
    BY <1>1, <1>5, ListRank
  <2>2. StageRank(s) = IF s.idx < s.n THEN s.n - s.idx ELSE 1
    BY <1>4, <1>5
  <2>3. s.idx \in Nat /\ s.n \in Nat
    BY <1>1
  <2> HIDE DEF s
  <2> QED
    BY <2>1, <2>2, <2>3
<1>6. ASSUME NEW at \in {"slot", "rawslot"}, s.at \in {"count", "rawcount"},
             NEW n \in 0..MaxPrints, NextStage(p) = ListSlots(at, 0, n)
      PROVE  StageRank(NextStage(p)) < StageRank(s)
  <2>1. StageRank(NextStage(p)) = IF 0 < n THEN n - 0 ELSE 0
    BY <1>1, <1>6, ListRank
  <2>2. StageRank(s) = MaxPrints + 2
    BY <1>4, <1>6
  <2> QED
    BY <1>1, <2>1, <2>2
<1>7. CASE sub[p] = "info"
  <2>0. NextStage(p) = InfoNext(s, r) /\ s.at \in {"start", "fw", "count", "slot"}
    BY <1>1, <1>7 DEF NextStage, StagesOf
  <2>1. CASE s.at \in {"start", "fw"}
    BY <1>1, <1>3, <1>4, <2>0, <2>1 DEF InfoNext
  <2>2. CASE s.at = "count"
    <3>1. NextStage(p) = ListSlots("slot", 0, AtMost(EnrolledCount(r), MaxPrints))
      BY <2>0, <2>2 DEF InfoNext
    <3>2. EnrolledCount(r) \in Nat
      BY <1>1, <2>2, OkTyped DEF EnrolledCount, Counted, Byte
    <3>3. AtMost(EnrolledCount(r), MaxPrints) \in 0..MaxPrints
      BY <1>1, <3>2 DEF AtMost
    <3> QED
      BY <1>6, <2>2, <3>1, <3>3
  <2>3. CASE s.at = "slot"
    BY <1>5, <2>0, <2>3 DEF InfoNext
  <2> QED
    BY <2>0, <2>1, <2>2, <2>3
<1>8. CASE sub[p] = "dump"
  <2>0. NextStage(p) = DumpNext(s, r) /\ s.at \in {"start", "fw", "rawcount", "rawslot"}
    BY <1>1, <1>8 DEF NextStage, StagesOf
  <2>1. CASE s.at \in {"start", "fw"}
    BY <1>1, <1>3, <1>4, <2>0, <2>1 DEF DumpNext
  <2>2. CASE s.at = "rawcount"
    <3>1. NextStage(p) = ListSlots("rawslot", 0, MaxPrints) /\ MaxPrints \in 0..MaxPrints
      BY <1>1, <2>0, <2>2 DEF DumpNext
    <3> QED
      BY <1>6, <2>2, <3>1
  <2>3. CASE s.at = "rawslot"
    BY <1>5, <2>0, <2>3 DEF DumpNext
  <2> QED
    BY <2>0, <2>1, <2>2, <2>3
<1>9. CASE sub[p] = "collision"
  <2>1. NextStage(p) = CollisionNext(s, r) /\ s.at \in {"start", "collision"}
    BY <1>1, <1>9 DEF NextStage, StagesOf
  <2> QED
    BY <1>1, <1>3, <1>4, <2>1 DEF CollisionNext
<1>10. CASE sub[p] = "identify"
  <2>0. /\ NextStage(p) = IdentifyNext(s, r)
        /\ s.at \in {"start", "count", "identify", "slot", "abort"}
    BY <1>1, <1>10 DEF NextStage, StagesOf
  <2>1. CASE s.at \in {"start", "count"}
    BY <1>1, <1>3, <1>4, <2>0, <2>1 DEF IdentifyNext
  <2>2. CASE s.at = "identify"
    <3>1. NextStage(p) = AfterIdentify(r) /\ r \in Results
      BY <1>1, <2>0, <2>2 DEF IdentifyNext
    <3>2. CASE Ok(r) /\ Matched(r.reply)
      <4>1. r.reply.b1 \in 0..15
        BY <3>1, <3>2, OkTyped, OkIsSlot DEF Matched
      <4>2. NextStage(p) = Slot("slot", r.reply.b1, 0)
        BY <3>1, <3>2 DEF AfterIdentify, Matched
      <4>3. StageRank(NextStage(p)) = 1
        BY <4>1, <4>2 DEF Slot, StageRank
      <4> QED
        BY <1>4, <2>2, <4>3
    <3>3. CASE ~(Ok(r) /\ Matched(r.reply))
      BY <1>3, <1>4, <2>2, <3>1, <3>3 DEF AfterIdentify, Matched
    <3> QED
      BY <3>2, <3>3
  <2>3. CASE s.at \in {"slot", "abort"}
    <3>1. StageRank(NextStage(p)) = 0
      BY <1>3, <2>0, <2>3 DEF IdentifyNext
    <3>2. StageRank(s) \in Nat /\ StageRank(s) >= 1
      BY <1>1, <2>3, RankTyped
    <3> QED
      BY <3>1, <3>2
  <2> QED
    BY <2>0, <2>1, <2>2, <2>3
<1> QED
  BY <1>2, <1>7, <1>8, <1>9, <1>10

LEMMA CallNearsEnd ==
  ASSUME TypeOK, TypeOK', NEW p \in Procs, Step(p)
  PROVE  CallRank(p)' < CallRank(p)
<1>1. /\ call[p].tries \in Nat /\ MaxRetries \in Nat /\ call[p].tries < MaxRetries
      /\ phase[p] \in {"send", "recv"} /\ call[p] \in Calls
      /\ phase \in [Procs -> Phases] /\ call \in [Procs -> Calls \cup {NoCall}]
  BY LibraryLocal, CallTyped, DriverAssumption DEF Calls, TypeOK
<1>2. CASE \E result \in Results : Return(p, result)
  <2>1. phase'[p] = "ready"
    BY <1>1, <1>2 DEF Return
  <2>2. CallRank(p)' = 0
    BY <2>1 DEF CallRank
  <2>3. \/ CallRank(p) = 2 * (MaxRetries - call[p].tries) + 1
        \/ CallRank(p) = 2 * (MaxRetries - call[p].tries)
    BY <1>1 DEF CallRank
  <2> QED
    BY <1>1, <2>2, <2>3
<1>3. CASE phase' = [phase EXCEPT ![p] = "recv"] /\ UNCHANGED <<call, res>>
  <2>1. phase[p] = "send"
    BY <1>1, <1>3 DEF Step, Refuse, Send, SendFails, Sendable, Receive, Retry,
       RecvFails, Fail, Return
  <2>2. /\ CallRank(p) = 2 * (MaxRetries - call[p].tries) + 1
        /\ CallRank(p)' = 2 * (MaxRetries - call[p].tries)
    BY <1>1, <1>3, <2>1 DEF CallRank
  <2> QED
    BY <1>1, <2>2
<1>4. CASE Retry(p)
  <2>1. phase[p] = "recv" /\ phase'[p] = "send"
    BY <1>1, <1>4 DEF Retry, Readable
  <2>2. call'[p].tries = call[p].tries + 1
    BY <1>1, <1>4 DEF Retry, Calls
  <2>3. /\ CallRank(p) = 2 * (MaxRetries - call[p].tries)
        /\ CallRank(p)' = 2 * (MaxRetries - (call[p].tries + 1)) + 1
    BY <2>1, <2>2 DEF CallRank
  <2> QED
    BY <1>1, <2>3
<1> QED
  BY <1>2, <1>3, <1>4, StepOutcome

\* device.rs:263, elanctl.rs:121, for any retries and templates: whatever the
\* sensor and other processes do, a step of a process takes its subcommand to a
\* later stage or leaves less of the stage's call.  No subcommand repeats.
THEOREM StepsNearEnd == CtlSpec => NearsEnd
<1> DEFINE A == \A p \in Procs :
       (phase[p] # "closed" /\ <<stage[p], phase[p], call[p], res[p]>>'
                                 # <<stage[p], phase[p], call[p], res[p]>>)
         => \/ StageRank(stage'[p]) < StageRank(stage[p])
            \/ stage'[p] = stage[p] /\ CallRank(p)' < CallRank(p)
<1>1. CtlTypeOK /\ CtlTypeOK' /\ [CtlNext]_ctlVars => [A]_ctlVars
  <2> SUFFICES ASSUME CtlTypeOK, CtlTypeOK', CtlNext, NEW p \in Procs,
                      phase[p] # "closed",
                      <<stage[p], phase[p], call[p], res[p]>>'
                        # <<stage[p], phase[p], call[p], res[p]>>
               PROVE  \/ StageRank(stage'[p]) < StageRank(stage[p])
                      \/ stage'[p] = stage[p] /\ CallRank(p)' < CallRank(p)
    OBVIOUS
  <2>t. /\ TypeOK /\ TypeOK' /\ stage \in [Procs -> StageRecords]
        /\ phase \in [Procs -> Phases] /\ call \in [Procs -> Calls \cup {NoCall}]
        /\ res \in [Procs -> Results \cup {NoRes}]
    BY DEF CtlTypeOK, TypeOK, StageRecords
  <2>1. ASSUME NEW q \in Procs, Start(q) PROVE FALSE
    BY <2>t, <2>1 DEF Start, Open
  <2>2. ASSUME NEW q \in Procs, Continue(q)
        PROVE  StageRank(stage'[p]) < StageRank(stage[p])
    <3>1. q = p
      BY <2>t, <2>2 DEF Continue, Close, StartCall
    <3>2. phase[p] = "ready" /\ stage'[p] = NextStage(p)
      BY <2>t, <2>2, <3>1 DEF Continue
    <3> QED
      BY <3>2, NextRank
  <2>3. ASSUME NEW q \in Procs, CtrlC(q)
        PROVE  StageRank(stage'[p]) < StageRank(stage[p])
    <3>1. q = p
      BY <2>t, <2>3 DEF CtrlC, Interrupt
    <3>2. StageRank(stage'[p]) = 0
      BY <2>t, <2>3, <3>1 DEF CtrlC, StageRank, At
    <3>3. sub[p] \in {"info", "dump", "collision", "identify"}
      BY ElanCtlAssumption DEF CtlTypeOK
    <3>4. stage[p].at \in StagesOf(sub[p])
      BY DEF CtlTypeOK
    <3>5. stage[p].at # "done"
      BY <3>3, <3>4 DEF StagesOf
    <3> QED
      BY <2>t, <3>2, <3>5, RankTyped
  <2>4. ASSUME NEW q \in Procs, Library(q)
        PROVE  stage'[p] = stage[p] /\ CallRank(p)' < CallRank(p)
    <3>1. q = p /\ stage' = stage /\ Step(p)
      BY <2>t, <2>4, LibraryLocal DEF Library
    <3> QED
      BY <2>t, <3>1, CallNearsEnd
  <2>5. ~(SensorNext /\ UNCHANGED <<procVars, sub, stage>>)
    BY DEF procVars
  <2>6. ~(Replug /\ UNCHANGED <<sub, stage>>)
    BY DEF Replug
  <2> QED
    BY <2>1, <2>2, <2>3, <2>4, <2>5, <2>6 DEF CtlNext
<1> QED
  BY <1>1, CtlTypeCorrect, PTL DEF CtlSpec, NearsEnd
=============================================================================

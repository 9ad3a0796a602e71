---------------------------- MODULE DriverProofs ----------------------------
(***************************************************************************)
(* Driver, for any number of processes, any calls, any queue depths: types,*)
(* authorised writes, and the exchange in step.                            *)
(***************************************************************************)
EXTENDS Driver, SensorProofs

LEMMA CallTyped ==
  ASSUME TypeOK, NEW p \in Procs, phase[p] \in {"send", "recv"}
  PROVE  /\ call[p] \in Calls
         /\ call[p].cmd \in CmdNames /\ call[p].tries < MaxRetries
         /\ Arg(call[p].payload) \in Byte
<1>1. call[p] \in Calls /\ call[p].tries < MaxRetries
  BY DEF TypeOK
<1>2. call[p].payload \in Seq(Byte) /\ call[p].cmd \in CmdNames
  BY <1>1 DEF Calls
<1>3. Arg(call[p].payload) \in Byte
  <2>1. CASE call[p].payload = <<>>
    BY <2>1 DEF Arg, Byte
  <2>2. CASE call[p].payload # <<>>
    <3>1. 1 \in 1..Len(call[p].payload)
      BY <1>2, <2>2, EmptySeq
    <3> QED
      BY <1>2, <2>2, <3>1, ElementOfSeq DEF Arg
  <2> QED
    BY <2>1, <2>2
<1> QED
  BY <1>1, <1>2, <1>3

LEMMA DecodedTyped ==
  ASSUME NEW c \in Calls, NEW r \in Replies
  PROVE  Decoded(c, r) \in Results
BY DEF Decoded, Results, Errors

\* A call returns a typed result and leaves the process ready.
LEMMA ReturnTyped ==
  ASSUME TypeOK, NEW p \in Procs, NEW result \in Results, Return(p, result)
  PROVE  /\ phase' = [phase EXCEPT ![p] = "ready"]
         /\ phase' \in [Procs -> Phases]
         /\ call' \in [Procs -> Calls \cup {NoCall}]
         /\ res' \in [Procs -> Results \cup {NoRes}]
         /\ \A q \in Procs : IF phase'[q] \in {"send", "recv"}
                             THEN call'[q] # NoCall /\ call'[q].tries < MaxRetries
                             ELSE call'[q] = NoCall
BY DEF TypeOK, Return, Phases

LEMMA FailTyped ==
  ASSUME NEW err \in Errors \ {"none"}
  PROVE  [err |-> err] \in Results
BY DEF Results

\* What a process reads, and what is left.
LEMMA ReadTyped ==
  ASSUME TypeOK, NEW p \in Procs, Readable(p), TakeReply(p)
  PROVE  /\ SensorTypeOK' /\ UNCHANGED <<claimant, token, abandoned>>
         /\ call[p] \in Calls
         /\ Head(fifo[InEp(p)]) \in Replies
         /\ Decoded(call[p], Head(fifo[InEp(p)])) \in Results
<1>1. call[p] \in Calls /\ InEp(p) \in Endpoints
  BY CallTyped, CmdTable DEF Readable, InEp
<1> DEFINE s == fifo[InEp(p)]
<1>2. s \in Seq(Replies) /\ s # <<>> /\ Len(s) \in Nat /\ Len(s) <= InDepth
  BY <1>1, LenProperties DEF TypeOK, SensorTypeOK, Readable
<1>3. /\ Head(s) \in Replies /\ Tail(s) \in Seq(Replies)
      /\ Len(Tail(s)) = Len(s) - 1
  BY <1>2, HeadTailProperties
<1>4. Len(Tail(s)) <= InDepth
  BY <1>2, <1>3, SensorAssumption
<1>5. fifo' = [fifo EXCEPT ![InEp(p)] = Tail(s)]
  BY DEF TakeReply
<1>6. SensorTypeOK'
  BY <1>1, <1>3, <1>4, <1>5 DEF TakeReply, TypeOK, SensorTypeOK
<1> QED
  BY <1>1, <1>3, <1>6, DecodedTyped DEF TakeReply

\* A step inside a call returns a result, waits for the reply, or retries.
LEMMA StepOutcome ==
  ASSUME TypeOK, NEW p \in Procs, Step(p)
  PROVE  \/ \E result \in Results : Return(p, result)
         \/ phase' = [phase EXCEPT ![p] = "recv"] /\ UNCHANGED <<call, res>>
         \/ Retry(p)
<1>1. CASE Refuse(p) \/ SendFails(p) \/ RecvFails(p)
  <2>1. PICK err \in {"Usb", "Gated", "PayloadTooLarge"} : Fail(p, err)
    BY <1>1 DEF Refuse, SendFails, RecvFails
  <2>2. [err |-> err] \in Results
    BY FailTyped DEF Errors
  <2> QED
    BY <2>1, <2>2 DEF Fail
<1>2. CASE Send(p)
  <2> DEFINE c == call[p]
             r == Reply([cmd |-> c.cmd, arg |-> Arg(c.payload)], 0, 0, NoSlot)
  <2>1. c.cmd \in CmdNames /\ Arg(c.payload) \in Byte
    BY <1>2, CallTyped DEF Send, Sendable
  <2>2. r \in Replies
    BY <2>1 DEF Reply, Replies, Byte
  <2>3. [err |-> "none", reply |-> r] \in Results
    BY <2>2 DEF Results
  <2>4. \/ Return(p, [err |-> "none", reply |-> r])
        \/ phase' = [phase EXCEPT ![p] = "recv"] /\ UNCHANGED <<call, res>>
    BY <1>2 DEF Send
  <2> HIDE DEF r
  <2> QED
    BY <2>3, <2>4
<1>3. CASE Receive(p)
  BY <1>3, ReadTyped DEF Receive
<1> QED
  BY <1>1, <1>2, <1>3 DEF Step

LEMMA TypeInit == Init => TypeOK
<1> SUFFICES ASSUME Init PROVE TypeOK
  OBVIOUS
<1>1. SensorTypeOK
  BY EmptySeq, SensorAssumption DEF Init, SensorInit, SensorTypeOK
<1> QED
  BY <1>1, DriverAssumption DEF Init, TypeOK, Phases

LEMMA TypeStep == TypeOK /\ [Next]_vars => TypeOK'
<1> SUFFICES ASSUME TypeOK, [Next]_vars PROVE TypeOK'
  OBVIOUS
<1>0. ASSUME UNCHANGED sensorVars PROVE SensorTypeOK'
  BY <1>0 DEF TypeOK, SensorTypeOK, sensorVars
<1>1. ASSUME NEW p \in Procs, Open(p) PROVE TypeOK'
  BY <1>0, <1>1 DEF TypeOK, Open, Phases
<1>2. ASSUME NEW p \in Procs, Close(p) PROVE TypeOK'
  BY <1>0, <1>2 DEF TypeOK, Close, Released, Phases
<1>3. ASSUME NEW p \in Procs, MintToken(p) PROVE TypeOK'
  BY <1>0, <1>3 DEF TypeOK, MintToken
<1>4. ASSUME NEW p \in Procs, Interrupt(p) PROVE TypeOK'
  BY <1>0, <1>4, DriverAssumption DEF TypeOK, Interrupt, Released, Abandon, Phases
<1>5. ASSUME NEW p \in Procs, NEW c \in Callable(p), StartCall(p, c)
      PROVE  TypeOK'
  <2>1. c \in Calls /\ c.tries = 0 /\ c # NoCall /\ 0 < MaxRetries
    BY DriverAssumption DEF Callable, Calls
  <2> QED
    BY <1>0, <1>5, <2>1 DEF TypeOK, StartCall, Phases
<1>6. ASSUME NEW p \in Procs, Refuse(p) PROVE TypeOK'
  <2>1. PICK err \in {"Gated", "PayloadTooLarge"} : Fail(p, err)
    BY <1>6 DEF Refuse
  <2>2. [err |-> err] \in Results
    BY FailTyped DEF Errors
  <2> QED
    BY <1>0, <1>6, <2>1, <2>2, ReturnTyped DEF TypeOK, Refuse, Fail
<1>7. ASSUME NEW p \in Procs, SendFails(p) \/ RecvFails(p) PROVE TypeOK'
  <2>1. Fail(p, "Usb") /\ [err |-> "Usb"] \in Results
    BY <1>7, FailTyped DEF SendFails, RecvFails, Errors
  <2>2. UNCHANGED <<claimant, token, sensorVars>> /\ abandoned' \in 0..AbandonCap
    BY <1>7, DriverAssumption DEF SendFails, RecvFails, Abandon, TypeOK
  <2> QED
    BY <1>0, <2>1, <2>2, ReturnTyped DEF TypeOK, Fail
<1>8. ASSUME NEW p \in Procs, Send(p) PROVE TypeOK'
  <2> DEFINE c == call[p]
             q == [cmd |-> c.cmd, arg |-> Arg(c.payload), auth |-> token[p]]
  <2>1. phase[p] = "send" /\ c \in Calls /\ c.cmd \in CmdNames
    BY <1>8, CallTyped DEF Send, Sendable
  <2>2. q \in Requests
    BY <2>1, CallTyped DEF Requests, TypeOK
  <2>3. inbox' = Append(inbox, q) /\ Len(inbox) < OutDepth
    BY <1>8 DEF Send
  <2>4. inbox' \in Seq(Requests) /\ Len(inbox') <= OutDepth
    <3>1. inbox \in Seq(Requests) /\ Len(inbox) \in Nat
      BY LenProperties DEF TypeOK, SensorTypeOK
    <3> QED
      BY <2>2, <2>3, <3>1, AppendProperties, SensorAssumption
  <2>5. SensorTypeOK'
    BY <1>8, <2>4 DEF Send, TypeOK, SensorTypeOK
  <2>6. UNCHANGED <<claimant, token, abandoned>>
    BY <1>8 DEF Send
  <2>7. CASE \E result \in Results : Return(p, result)
    BY <2>5, <2>6, <2>7, ReturnTyped DEF TypeOK
  <2>8. CASE phase' = [phase EXCEPT ![p] = "recv"] /\ UNCHANGED <<call, res>>
    BY <2>1, <2>5, <2>6, <2>8 DEF TypeOK, Phases
  <2>9. ~Retry(p)
    BY <2>1 DEF Retry, Readable
  <2> QED
    BY <1>8, <2>7, <2>8, <2>9, StepOutcome DEF Step
<1>9. ASSUME NEW p \in Procs, Receive(p) PROVE TypeOK'
  BY ReadTyped, <1>9, ReturnTyped DEF Receive, TypeOK
<1>10. ASSUME NEW p \in Procs, Retry(p) PROVE TypeOK'
  <2>1. call[p] \in Calls /\ call[p].tries + 1 < MaxRetries
    BY ReadTyped, <1>10 DEF Retry, MayRetry
  <2>2. /\ call' = [call EXCEPT ![p] = [call[p] EXCEPT !.tries = call[p].tries + 1]]
        /\ [call[p] EXCEPT !.tries = call[p].tries + 1] \in Calls
        /\ [call[p] EXCEPT !.tries = call[p].tries + 1].tries = call[p].tries + 1
    BY <1>10, <2>1 DEF Retry, Calls
  <2> QED
    BY ReadTyped, <1>10, <2>1, <2>2, DriverAssumption DEF Retry, TypeOK, Phases
<1>11. CASE SensorNext /\ UNCHANGED procVars
  BY <1>11, SensorTypes DEF TypeOK, procVars
<1>12. CASE Replug
  <2>1. SensorTypeOK'
    BY <1>12, EmptySeq, SensorAssumption DEF Replug, PowerCycle, TypeOK, SensorTypeOK
  <2> QED
    BY <1>12, <2>1, DriverAssumption DEF Replug, TypeOK
<1>13. CASE UNCHANGED vars
  BY <1>0, <1>13 DEF TypeOK, vars, procVars
<1> QED
  BY <1>1, <1>2, <1>3, <1>4, <1>5, <1>6, <1>7, <1>8, <1>9, <1>10, <1>11,
     <1>12, <1>13 DEF Next, Step

\* Every state of the library is typed: in particular every queue keeps its
\* bound, and no call is tried more than MaxRetries times.
THEOREM TypeCorrect == Spec => []TypeOK
BY TypeInit, TypeStep, PTL DEF Spec

(***************************************************************************)
(* Authorised writes.  The invariant adds to NoUnauthorisedRequest that a  *)
(* process inside transceive_destructive still holds its token.            *)
(***************************************************************************)
TokenHeld ==
  \A p \in Procs : (phase[p] \in {"send", "recv"} /\ call[p].mode = "destructive")
                     => token[p]

AuthInv == TypeOK /\ TokenHeld /\ NoUnauthorisedRequest

LEMMA TailAuthorised ==
  ASSUME SensorTypeOK, NoUnauthorisedRequest, inbox # <<>>
  PROVE  /\ \A i \in 1..Len(Tail(inbox)) :
               Persistent(Tail(inbox)[i].cmd) => Tail(inbox)[i].auth
         /\ Persistent(Head(inbox).cmd) => Head(inbox).auth
<1>1. 1 \in 1..Len(inbox) /\ \A i \in 1..Len(Tail(inbox)) : i + 1 \in 1..Len(inbox)
  BY HeadTyped
<1> QED
  BY <1>1, HeadTyped DEF NoUnauthorisedRequest

LEMMA AuthStep == AuthInv /\ TypeOK' /\ [Next]_vars => AuthInv'
<1> SUFFICES ASSUME AuthInv, TypeOK', [Next]_vars PROVE TokenHeld' /\ NoUnauthorisedRequest'
  BY DEF AuthInv
<1> USE DEF AuthInv
<1>0. SensorTypeOK
  BY DEF TypeOK
<1>a. ASSUME UNCHANGED <<inbox, waiting>> PROVE NoUnauthorisedRequest'
  BY <1>a DEF NoUnauthorisedRequest
<1>b. ASSUME UNCHANGED <<phase, call, token>> PROVE TokenHeld'
  BY <1>b DEF TokenHeld
<1>1. ASSUME NEW p \in Procs, Open(p) \/ Close(p) \/ MintToken(p) \/ Interrupt(p)
      PROVE  TokenHeld' /\ NoUnauthorisedRequest'
  <2>1. UNCHANGED <<inbox, waiting>>
    BY <1>1 DEF Open, Close, MintToken, Interrupt, sensorVars
  <2>2. TokenHeld'
    BY <1>1 DEF Open, Close, MintToken, Interrupt, TokenHeld, TypeOK
  <2> QED
    BY <1>a, <2>1, <2>2
<1>2. ASSUME NEW p \in Procs, NEW c \in Callable(p), StartCall(p, c)
      PROVE  TokenHeld' /\ NoUnauthorisedRequest'
  <2>1. UNCHANGED <<inbox, waiting>>
    BY <1>2 DEF StartCall, sensorVars
  <2>2. TokenHeld'
    BY <1>2 DEF StartCall, Callable, TokenHeld, TypeOK
  <2> QED
    BY <1>a, <2>1, <2>2
<1>3. ASSUME NEW p \in Procs, Refuse(p) \/ SendFails(p) \/ Receive(p) \/ RecvFails(p)
      PROVE  TokenHeld' /\ NoUnauthorisedRequest'
  <2>1. UNCHANGED <<inbox, waiting, token>>
    BY <1>3 DEF Refuse, SendFails, Receive, TakeReply, RecvFails, sensorVars
  <2>2. PICK result : Return(p, result)
    BY <1>3 DEF Refuse, SendFails, Receive, RecvFails, Fail
  <2>3. TokenHeld'
    BY <2>1, <2>2 DEF Return, TokenHeld, TypeOK
  <2> QED
    BY <1>a, <2>1, <2>3
<1>4. ASSUME NEW p \in Procs, Retry(p) PROVE TokenHeld' /\ NoUnauthorisedRequest'
  <2>1. UNCHANGED <<inbox, waiting, token>> /\ phase[p] = "recv"
    BY <1>4 DEF Retry, TakeReply, Readable
  <2>2. call[p] \in Calls
    BY <2>1, CallTyped
  <2>3. call'[p].mode = call[p].mode /\ \A q \in Procs \ {p} : call'[q] = call[q]
    BY <1>4, <2>2 DEF Retry, Calls, TypeOK
  <2>4. \A q \in Procs \ {p} : phase'[q] = phase[q]
    BY <1>4 DEF Retry, TypeOK
  <2>5. TokenHeld'
    BY <2>1, <2>3, <2>4 DEF TokenHeld
  <2> QED
    BY <1>a, <2>1, <2>5
<1>5. ASSUME NEW p \in Procs, Send(p) PROVE TokenHeld' /\ NoUnauthorisedRequest'
  <2> DEFINE c == call[p]
             q == [cmd |-> c.cmd, arg |-> Arg(c.payload), auth |-> token[p]]
  <2>1. phase[p] = "send" /\ ~Gated(c) /\ inbox' = Append(inbox, q)
          /\ UNCHANGED <<token, waiting>>
    BY <1>5 DEF Send, Sendable
  <2>2. c \in Calls /\ c.cmd \in CmdNames /\ q \in Requests
    BY <2>1, CallTyped DEF Requests, TypeOK
  <2>3. Persistent(q.cmd) => q.auth
    BY <2>1, <2>2 DEF Gated, TokenHeld
  <2>4. inbox \in Seq(Requests) /\ Len(inbox) \in Nat
    BY <1>0, LenProperties DEF SensorTypeOK
  <2>5. /\ Len(inbox') = Len(inbox) + 1 /\ inbox'[Len(inbox) + 1] = q
        /\ \A i \in 1..Len(inbox) : inbox'[i] = inbox[i]
    BY <2>1, <2>2, <2>4, AppendProperties
  <2>6. ASSUME NEW i \in 1..Len(inbox') PROVE Persistent(inbox'[i].cmd) => inbox'[i].auth
    <3>1. CASE i = Len(inbox) + 1
      BY <2>3, <2>5, <3>1
    <3>2. CASE i # Len(inbox) + 1
      <4>1. i \in 1..Len(inbox)
        BY <2>4, <2>5, <3>2
      <4> QED
        BY <2>5, <4>1 DEF NoUnauthorisedRequest
    <3> QED
      BY <3>1, <3>2
  <2>7. NoUnauthorisedRequest'
    BY <2>1, <2>6 DEF NoUnauthorisedRequest
  <2>8. TokenHeld'
    BY <1>5, <2>1 DEF Send, Return, TokenHeld, TypeOK
  <2> QED
    BY <2>7, <2>8
<1>6. CASE SensorNext /\ UNCHANGED procVars
  <2>1. TokenHeld'
    BY <1>6, <1>b DEF procVars
  <2>2. CASE inbox' = inbox
    <3>1. waiting' = waiting \/ waiting' = NoReq
      <4>1. inbox # Tail(inbox) \/ inbox = <<>>
        BY <1>0, HeadTyped
      <4> QED
        BY <1>6, <2>2, <4>1 DEF SensorNext, HandleQuery, HandleAbort, HandleCommit,
           HandleDelete, HandleWipe, BeginWait, TouchMatch, TouchOther
    <3> QED
      BY <2>1, <2>2, <3>1 DEF NoUnauthorisedRequest
  <2>3. CASE inbox' # inbox
    <3>1. inbox # <<>> /\ inbox' = Tail(inbox)
            /\ waiting' \in {waiting, NoReq, Head(inbox)}
      BY <1>6, <2>3 DEF SensorNext, HandleQuery, HandleAbort, HandleCommit,
         HandleDelete, HandleWipe, BeginWait, TouchMatch, TouchOther
    <3> QED
      BY <1>0, <2>1, <3>1, TailAuthorised DEF NoUnauthorisedRequest
  <2> QED
    BY <2>2, <2>3
<1>7. CASE Replug
  <2>1. inbox' = <<>> /\ waiting' = NoReq /\ UNCHANGED <<phase, call, token>>
    BY <1>7 DEF Replug, PowerCycle
  <2> QED
    BY <1>b, <2>1 DEF NoUnauthorisedRequest
<1>8. CASE UNCHANGED vars
  BY <1>a, <1>b, <1>8 DEF vars, procVars, sensorVars
<1> QED
  BY <1>1, <1>2, <1>3, <1>4, <1>5, <1>6, <1>7, <1>8 DEF Next, Step

LEMMA AuthInvariant == Spec => []AuthInv
<1>1. Init => TokenHeld /\ NoUnauthorisedRequest
  BY DEF Init, SensorInit, TokenHeld, NoUnauthorisedRequest
<1> QED
  BY <1>1, AuthStep, TypeCorrect, PTL DEF Spec, AuthInv

\* No client gets a persistent request onto the wire, or to wait for a
\* finger, without a token: gate_check covers every mode but the one that
\* takes the token.
THEOREM GateHolds == Spec => []NoUnauthorisedRequest
BY AuthInvariant, PTL DEF AuthInv

\* A step that changes the store handles a request at the head of the queue,
\* and that request is authorised.
LEMMA StoreStep ==
  ASSUME AuthInv, [Next]_vars, store' # store
  PROVE  inbox # <<>> /\ Head(inbox).auth
<1>1. HandleCommit \/ HandleDelete \/ HandleWipe
  BY DEF Next, Open, Close, MintToken, Interrupt, StartCall, Step, Refuse, Send,
     SendFails, Receive, Retry, TakeReply, RecvFails, Replug, PowerCycle,
     SensorNext, HandleQuery, HandleAbort, BeginWait, TouchMatch, TouchOther,
     sensorVars, vars
<1>2. inbox # <<>> /\ Head(inbox).cmd \in {"commit", "delete", "wipe_sensor"}
  BY <1>1 DEF HandleCommit, HandleDelete, HandleWipe
<1>3. Persistent(Head(inbox).cmd)
  BY <1>2, HeadTyped, CmdTable DEF AuthInv, TypeOK
<1> QED
  BY <1>2, <1>3, TailAuthorised DEF AuthInv, TypeOK

\* Stored templates change only on a request of a process that held a token.
THEOREM WritesAuthorised == Spec => AuthorisedWrites
<1>1. AuthInv /\ [Next]_vars => [store' # store => Head(inbox).auth]_vars
  BY StoreStep
<1> QED
  BY <1>1, AuthInvariant, PTL DEF Spec, AuthorisedWrites

(***************************************************************************)
(* The refinement of TemplateStore                                         *)
(***************************************************************************)
\* A write goes on the wire only for a destructive call that names it.
LEMMA SendAsks ==
  ASSUME AuthInv, NEW p \in Procs, Send(p)
  PROVE  Promise!Next \/ UNCHANGED <<store, QueuedWrites>>
<1> DEFINE c == call[p]
           q == [cmd |-> c.cmd, arg |-> Arg(c.payload), auth |-> token[p]]
           w == WriteOf(q)
<1>1. /\ phase[p] = "send" /\ ~Gated(c)
      /\ inbox' = Append(inbox, q) /\ store' = store
  BY DEF Send, Sendable
<1>2. c \in Calls /\ q \in Requests /\ c.cmd \in CmdNames /\ q.cmd = c.cmd
  BY <1>1, CallTyped DEF AuthInv, Requests, TypeOK
<1>3. CASE c.cmd \in WriteCmds
  <2>1. Persistent(c.cmd)
    BY <1>2, <1>3, CmdTable DEF WriteCmds
  <2>2. c.mode = "destructive" /\ token[p]
    BY <1>1, <2>1 DEF Gated, AuthInv, TokenHeld
  <2>3. w = WriteOf([cmd |-> c.cmd, arg |-> Arg(c.payload)])
    BY DEF WriteOf
  <2>4. w \in BeingSent
    BY <1>1, <1>3, <2>2, <2>3 DEF BeingSent
  <2>5. QueuedWrites' = QueuedWrites \cup {w}
    BY <1>1, <1>2, <1>3, WritesAsked DEF AuthInv, TypeOK
  <2>6. w \in Writes
    BY <1>2, <1>3, WriteTyped DEF Requests
  <2> HIDE DEF w
  <2> QED
    BY <1>1, <2>4, <2>5, <2>6 DEF Promise!Next, Promise!Ask
<1>4. CASE c.cmd \notin WriteCmds
  BY <1>1, <1>2, <1>4, WritesAsked DEF AuthInv, TypeOK
<1> QED
  BY <1>3, <1>4

LEMMA PromiseStep ==
  ASSUME AuthInv, [Next]_vars
  PROVE  Promise!Next \/ UNCHANGED <<store, QueuedWrites>>
<1>1. ASSUME NEW p \in Procs,
             \/ Open(p) \/ Close(p) \/ MintToken(p) \/ Interrupt(p)
             \/ \E c \in Callable(p) : StartCall(p, c)
             \/ Refuse(p) \/ SendFails(p) \/ Receive(p) \/ Retry(p) \/ RecvFails(p)
      PROVE  UNCHANGED <<store, QueuedWrites>>
  <2>1. UNCHANGED <<store, inbox>>
    BY <1>1 DEF Open, Close, MintToken, Interrupt, StartCall, Refuse, SendFails,
       Receive, Retry, TakeReply, RecvFails, sensorVars
  <2> QED
    BY <2>1 DEF QueuedWrites
<1>2. ASSUME NEW p \in Procs, Send(p)
      PROVE  Promise!Next \/ UNCHANGED <<store, QueuedWrites>>
  BY <1>2, SendAsks
<1>3. CASE SensorNext
  <2>1. UNCHANGED <<store, QueuedWrites>> \/ \E w \in Writes : Store!Carry(w)
    BY <1>3, SensorCarries DEF AuthInv, TypeOK
  <2> QED
    BY <2>1 DEF Store!Carry, Promise!Carry, Store!Effects, Promise!Effects, Promise!Next
<1>4. CASE Replug
  BY <1>4, PowerLoses DEF Replug, Store!Lose, Promise!Lose, Promise!Next
<1>5. CASE UNCHANGED vars
  BY <1>5 DEF vars, sensorVars, QueuedWrites
<1> QED
  BY <1>1, <1>2, <1>3, <1>4, <1>5 DEF Next, Step

\* The library and the sensor together keep the promise of TemplateStore:
\* templates change by the writes destructive calls name, and by no other.
THEOREM StoreImplemented == Spec => ImplementsStore
<1>1. Init => Promise!Init
  BY DEF Init, SensorInit, Promise!Init, QueuedWrites
<1>2. AuthInv /\ [Next]_vars => [Promise!Next]_<<store, QueuedWrites>>
  BY PromiseStep
<1> QED
  BY <1>1, <1>2, AuthInvariant, PTL DEF Spec, ImplementsStore, Promise!Spec

(***************************************************************************)
(* The exchange in step.  InSync alone is not inductive: that a process    *)
(* waiting for a reply asked for one, and that the claimant has an open    *)
(* handle, are needed beside it.                                           *)
(***************************************************************************)
Expecting == \A p \in Procs : phase[p] = "recv" => call[p].cmd # "wipe_sensor"

SyncInv == TypeOK /\ Expecting /\ InSync

Idle == waiting = NoReq /\ Drained /\ OnlyWipes(inbox)

LEMMA SyncCases ==
  InSync <=> (abandoned = 0 =>
                /\ ~Awaiting => Idle
                /\ Awaiting => \/ Queued(call[claimant])
                               \/ AtFinger(call[claimant])
                               \/ Answered(call[claimant]))
BY DEF InSync, Idle

\* A reply to the only request in flight, queued on a drained endpoint.
LEMMA EmitAnswers ==
  ASSUME SensorTypeOK, Drained, NEW r \in Replies, Emit(r), NEW c \in Calls,
         For(r, c), waiting' = NoReq, inbox' = <<>>
  PROVE  Answered(c)'
<1> DEFINE e == Cmd[r.cmd].ep_in
<1>1. r.cmd = c.cmd /\ e \in Endpoints
  BY CmdTable DEF For, Replies
<1>2. fifo' = [fifo EXCEPT ![e] = Append(fifo[e], r)] /\ fifo[e] = <<>>
  BY <1>1 DEF Emit, Drained
<1>3. fifo'[e] = Append(<<>>, r)
  BY <1>1, <1>2 DEF SensorTypeOK
<1>4. Len(fifo'[e]) = 1 /\ Head(fifo'[e]) = r
  BY <1>3
<1>5. \A ep \in Endpoints \ {e} : fifo'[ep] = <<>>
  BY <1>2 DEF Drained, SensorTypeOK
<1> QED
  BY <1>1, <1>4, <1>5 DEF Answered, For

\* A sensor that answers its first request: nothing can be in step with
\* that but a call whose request it is, alone.
LEMMA HeadIsAwaited ==
  ASSUME SyncInv, abandoned = 0, inbox # <<>>, Head(inbox).cmd # "wipe_sensor"
  PROVE  /\ Awaiting /\ Queued(call[claimant])
         /\ claimant \in Procs /\ call[claimant] \in Calls
         /\ Len(inbox) = 1 /\ Tail(inbox) = <<>>
         /\ For(Head(inbox), call[claimant])
<1>1. 1 \in 1..Len(inbox) /\ Head(inbox) = inbox[1] /\ Len(inbox) \in Nat
      /\ Len(Tail(inbox)) = Len(inbox) - 1 /\ Tail(inbox) \in Seq(Requests)
  BY HeadTyped DEF SyncInv, TypeOK
<1>2. Awaiting
  BY <1>1, SyncCases DEF SyncInv, Idle, OnlyWipes
<1>3. Queued(call[claimant])
  BY <1>2, SyncCases DEF SyncInv, AtFinger, Answered
<1>4. Len(inbox) = 1
  <2> SUFFICES ASSUME Len(inbox) # 1 PROVE FALSE
    OBVIOUS
  <2>1. 1 \in 1..(Len(inbox) - 1)
    BY <1>1
  <2> QED
    BY <1>1, <1>3, <2>1 DEF Queued
<1>5. Tail(inbox) = <<>>
  <2>1. Len(Tail(inbox)) = 0
    BY <1>1, <1>4
  <2> QED
    BY <1>1, <2>1, EmptySeq
<1>6. claimant \in Procs /\ call[claimant] \in Calls
  BY <1>2, CallTyped DEF Awaiting, SyncInv, TypeOK
<1> QED
  BY <1>1, <1>2, <1>3, <1>4, <1>5, <1>6 DEF Queued

LEMMA TouchedIsAwaited ==
  ASSUME SyncInv, abandoned = 0, waiting # NoReq
  PROVE  /\ Awaiting /\ AtFinger(call[claimant])
         /\ claimant \in Procs /\ call[claimant] \in Calls
<1>1. Awaiting
  BY SyncCases DEF SyncInv, Idle
<1>2. AtFinger(call[claimant])
  BY <1>1, SyncCases DEF SyncInv, Queued, Answered
<1>3. claimant \in Procs /\ call[claimant] \in Calls
  BY <1>1, CallTyped DEF Awaiting, SyncInv, TypeOK
<1> QED
  BY <1>1, <1>2, <1>3

LEMMA SensorKeepsSync ==
  ASSUME SyncInv, SensorNext, UNCHANGED procVars
  PROVE  InSync'
<1> SUFFICES ASSUME abandoned = 0
             PROVE  IF Awaiting
                    THEN \/ Queued(call[claimant])'
                         \/ AtFinger(call[claimant])'
                         \/ Answered(call[claimant])'
                    ELSE Idle'
  BY DEF InSync, Idle, Awaiting, procVars, Queued, AtFinger, Answered, For
<1>0. SensorTypeOK /\ UNCHANGED <<call, claimant>>
  BY DEF SyncInv, TypeOK, procVars
<1>b. 0 \in Byte /\ 65 \in Byte /\ 221 \in Byte /\ 253 \in Byte /\ 255 \in Byte /\ 2 \in 0..64
        /\ Slots \subseteq Byte
  BY SlotsAreBytes DEF Byte
<1>1. ASSUME inbox # <<>>, Head(inbox).cmd # "wipe_sensor", waiting' = NoReq,
             inbox' = Tail(inbox),
             NEW r \in Replies, Emit(r), r.cmd = Head(inbox).cmd, r.arg = Head(inbox).arg
      PROVE  Awaiting /\ Answered(call[claimant])'
  <2>1. Drained /\ For(r, call[claimant]) /\ Awaiting /\ call[claimant] \in Calls
          /\ inbox' = <<>>
    BY <1>1, HeadIsAwaited DEF Queued, For
  <2> QED
    BY <1>0, <1>1, <2>1, EmitAnswers DEF Answered, For
<1>2. ASSUME inbox # <<>>, Head(inbox).cmd # "wipe_sensor" PROVE waiting = NoReq
  BY <1>2, HeadIsAwaited DEF Queued
<1>3. ASSUME waiting # NoReq, waiting' = NoReq, UNCHANGED inbox, NEW b \in Byte,
             Emit(Reply(waiting, 2, b, NoSlot))
      PROVE  Awaiting /\ Answered(call[claimant])'
  <2>1. /\ Awaiting /\ AtFinger(call[claimant]) /\ call[claimant] \in Calls
        /\ waiting \in Requests
    BY <1>0, <1>3, TouchedIsAwaited DEF SensorTypeOK
  <2> DEFINE r == Reply(waiting, 2, b, NoSlot)
  <2>2. r \in Replies /\ r.cmd = waiting.cmd /\ r.arg = waiting.arg
    BY <1>b, <2>1, ReplyTyped
  <2>3. Emit(r)
    BY <1>3
  <2> HIDE DEF r
  <2>4. Drained /\ For(r, call[claimant]) /\ inbox' = <<>>
    BY <1>3, <2>1, <2>2 DEF AtFinger, For
  <2> QED
    BY <1>0, <1>3, <2>1, <2>2, <2>3, <2>4, EmitAnswers DEF Answered, For
<1>4. CASE HandleQuery
  <2>1. PICK r \in QueryReplies(Head(inbox)) : Emit(r)
    BY <1>4 DEF HandleQuery
  <2>2. Head(inbox) \in Requests /\ Head(inbox).cmd # "wipe_sensor"
    BY <1>0, <1>4, HeadTyped DEF HandleQuery, Queries
  <2>3. r \in Replies /\ r.cmd = Head(inbox).cmd /\ r.arg = Head(inbox).arg
    BY <1>0, <1>4, <2>2, QueryRepliesTyped DEF HandleQuery
  <2>4. waiting' = NoReq
    BY <1>2, <1>4, <2>2 DEF HandleQuery
  <2> QED
    BY <1>1, <1>4, <2>1, <2>2, <2>3, <2>4 DEF HandleQuery
<1>5. CASE HandleAbort \/ HandleCommit \/ HandleDelete
  <2>1. /\ inbox # <<>> /\ inbox' = Tail(inbox)
        /\ Head(inbox).cmd # "wipe_sensor" /\ Head(inbox) \in Requests
    BY <1>0, <1>5, HeadTyped DEF HandleAbort, HandleCommit, HandleDelete
  <2>2. waiting' = NoReq
    BY <1>2, <1>5, <2>1 DEF HandleAbort, HandleCommit, HandleDelete
  <2>3. PICK r \in Replies : /\ Emit(r)
                             /\ r.cmd = Head(inbox).cmd /\ r.arg = Head(inbox).arg
    BY <1>0, <1>5, AnswerEmitted
  <2> QED
    BY <1>1, <2>1, <2>2, <2>3
<1>6. CASE HandleWipe
  <2>1. /\ inbox # <<>> /\ Head(inbox).cmd = "wipe_sensor" /\ inbox' = Tail(inbox)
        /\ UNCHANGED <<waiting, fifo>>
    BY <1>6 DEF HandleWipe
  <2>2. /\ Len(inbox) \in Nat /\ Len(inbox) >= 1 /\ Head(inbox) = inbox[1]
        /\ Len(inbox') = Len(inbox) - 1
        /\ \A i \in 1..Len(inbox') : inbox'[i] = inbox[i + 1] /\ i + 1 \in 1..Len(inbox)
    BY <1>0, <2>1, HeadTyped
  <2>3. CASE Awaiting
    <3>1. Queued(call[claimant])
      BY <2>1, <2>3, SyncCases DEF SyncInv, AtFinger, Answered
    <3>2. call[claimant].cmd # "wipe_sensor"
      BY <2>3 DEF Awaiting, SyncInv, Expecting, TypeOK
    <3>3. Len(inbox) # 1
      BY <2>1, <2>2, <3>1, <3>2 DEF Queued, For
    <3>4. Len(inbox') >= 1 /\ inbox' # <<>> /\ inbox'[Len(inbox')] = inbox[Len(inbox)]
      <4>1. Len(inbox') >= 1 /\ Len(inbox') \in 1..Len(inbox')
        BY <2>2, <3>3
      <4>2. Len(inbox') + 1 = Len(inbox)
        BY <2>2
      <4> QED
        BY <2>2, <4>1, <4>2, EmptySeq
    <3>5. \A i \in 1..(Len(inbox') - 1) : inbox'[i].cmd = "wipe_sensor"
      <4> TAKE i \in 1..(Len(inbox') - 1)
      <4>1. i \in 1..Len(inbox') /\ i + 1 \in 1..(Len(inbox) - 1)
        BY <2>2
      <4> QED
        BY <2>2, <3>1, <4>1 DEF Queued
    <3> QED
      BY <1>0, <2>1, <2>3, <3>1, <3>4, <3>5 DEF Queued, For, Drained
  <2>4. CASE ~Awaiting
    <3>1. Idle
      BY <2>4, SyncCases DEF SyncInv
    <3>2. \A i \in 1..Len(inbox') : inbox'[i].cmd = "wipe_sensor"
      BY <2>2, <3>1 DEF Idle, OnlyWipes
    <3> QED
      BY <2>1, <2>4, <3>1, <3>2 DEF Idle, OnlyWipes, Drained
  <2> QED
    BY <2>3, <2>4
<1>7. CASE BeginWait
  <2>1. /\ inbox # <<>> /\ Head(inbox).cmd # "wipe_sensor" /\ Head(inbox) \in Requests
    BY <1>0, <1>7, HeadTyped, CmdTable DEF BeginWait
  <2>2. /\ Awaiting /\ Tail(inbox) = <<>> /\ Drained
        /\ For(Head(inbox), call[claimant])
    BY <2>1, HeadIsAwaited DEF Queued
  <2>3. /\ waiting' = Head(inbox) /\ inbox' = <<>> /\ fifo' = fifo /\ Head(inbox) # NoReq
    BY <1>7, <2>1, <2>2, NoReqAssumption DEF BeginWait
  <2> QED
    BY <1>0, <2>2, <2>3 DEF AtFinger, Drained, For
<1>8. CASE TouchMatch
  <2>1. PICK s \in store : Emit(Reply(waiting, 2, s, NoSlot))
    BY <1>8 DEF TouchMatch
  <2>2. s \in Byte
    BY <1>0, <1>b DEF SensorTypeOK
  <2> QED
    BY <1>3, <1>8, <2>1, <2>2 DEF TouchMatch
<1>9. CASE TouchOther
  <2>1. PICK b \in {0, 65, 253, 255} : Emit(Reply(waiting, 2, b, NoSlot))
    BY <1>9 DEF TouchOther
  <2>2. b \in Byte
    BY <1>b
  <2> QED
    BY <1>3, <1>9, <2>1, <2>2 DEF TouchOther
<1> QED
  BY <1>4, <1>5, <1>6, <1>7, <1>8, <1>9 DEF SensorNext

LEMMA IdleKept ==
  ASSUME SyncInv, UNCHANGED sensorVars, ~Awaiting, ~Awaiting', abandoned' = abandoned
  PROVE  InSync'
<1>1. abandoned = 0 => Idle
  BY SyncCases DEF SyncInv
<1> QED
  BY <1>1 DEF InSync, Idle, OnlyWipes, Drained, sensorVars

LEMMA SyncKept ==
  ASSUME SyncInv, UNCHANGED <<sensorVars, claimant>>, abandoned' = abandoned,
         claimant # NoProc => phase'[claimant] = phase[claimant]
                              /\ call'[claimant] = call[claimant]
  PROVE  InSync'
<1>1. Awaiting' = Awaiting
  BY DEF Awaiting
<1>2. CASE Awaiting
  <2>1. call'[claimant'] = call[claimant] /\ UNCHANGED <<waiting, inbox, fifo>>
    BY <1>2 DEF Awaiting, sensorVars
  <2> QED
    BY <1>1, <1>2, <2>1 DEF SyncInv, InSync, Queued, AtFinger, Answered, Drained, For
<1>3. CASE ~Awaiting
  BY <1>1, <1>3, IdleKept
<1> QED
  BY <1>2, <1>3

\* A process leaves send or ready for anything but recv, or closes.
LEMMA LocalStep ==
  ASSUME SyncInv, NEW p \in Procs, UNCHANGED sensorVars, abandoned' = abandoned,
         claimant' \in {claimant, Released(p)},
         \A q \in Procs \ {p} : phase'[q] = phase[q] /\ call'[q] = call[q],
         claimant = p => phase[p] # "recv", phase'[p] # "recv"
  PROVE  InSync' /\ Expecting'
<1>1. Expecting'
  BY DEF SyncInv, Expecting
<1>2. CASE claimant = p
  <2>1. ~Awaiting /\ ~Awaiting'
    BY <1>2 DEF Awaiting, Released
  <2> QED
    BY <1>1, <2>1, IdleKept
<1>3. CASE claimant # p
  <2>1. claimant' = claimant /\ (claimant # NoProc => claimant \in Procs \ {p})
    BY <1>3 DEF Released, SyncInv, TypeOK
  <2> QED
    BY <1>1, <2>1, SyncKept
<1> QED
  BY <1>2, <1>3

\* Once a reply the claimant waits for is taken, nothing is in flight.
LEMMA TakenIsAnswer ==
  ASSUME SyncInv, abandoned = 0, NEW p \in Procs, Readable(p)
  PROVE  /\ Answered(call[p]) /\ call[p] \in Calls /\ InEp(p) \in Endpoints
         /\ fifo[InEp(p)] \in Seq(Replies)
<1>1. claimant = p /\ phase[p] = "recv" /\ fifo[InEp(p)] # <<>> /\ Awaiting
  BY DriverAssumption DEF Readable, Awaiting
<1>2. call[p] \in Calls /\ InEp(p) \in Endpoints
  BY <1>1, CallTyped, CmdTable DEF InEp, SyncInv
<1>3. ~Drained
  BY <1>1, <1>2 DEF Drained
<1>4. Answered(call[p])
  BY <1>1, <1>3, SyncCases DEF SyncInv, Queued, AtFinger
<1> QED
  BY <1>2, <1>4 DEF SyncInv, TypeOK, SensorTypeOK

LEMMA TakeStep ==
  ASSUME SyncInv, NEW p \in Procs, Readable(p), TakeReply(p), phase'[p] # "recv",
         \A q \in Procs \ {p} : phase'[q] = phase[q] /\ call'[q] = call[q]
  PROVE  InSync' /\ Expecting'
<1>1. Expecting'
  BY DEF SyncInv, Expecting
<1>2. claimant' = p /\ abandoned' = abandoned /\ ~Awaiting'
  BY DEF Readable, TakeReply, Awaiting
<1>3. ASSUME abandoned = 0 PROVE Idle'
  <2> DEFINE s == fifo[InEp(p)]
  <2>1. /\ Answered(call[p]) /\ InEp(p) \in Endpoints
        /\ s \in Seq(Replies) /\ Len(s) = 1 /\ s # <<>>
    BY <1>3, TakenIsAnswer, EmptySeq DEF Answered, InEp
  <2>2. Tail(s) \in Seq(Replies) /\ Len(Tail(s)) = 0
    BY <2>1, HeadTailProperties
  <2>3. Tail(s) = <<>>
    BY <2>2, EmptySeq
  <2>4. fifo' = [fifo EXCEPT ![InEp(p)] = Tail(s)] /\ UNCHANGED <<waiting, inbox>>
    BY DEF TakeReply
  <2>5. \A ep \in Endpoints : fifo'[ep] = <<>>
    BY <2>1, <2>3, <2>4 DEF Answered, InEp, SyncInv, TypeOK, SensorTypeOK
  <2> QED
    BY <2>1, <2>4, <2>5 DEF Answered, Idle, Drained, OnlyWipes
<1> QED
  BY <1>1, <1>2, <1>3, DriverAssumption DEF InSync, Idle

LEMMA SyncStep == SyncInv /\ TypeOK' /\ [Next]_vars => SyncInv'
<1> SUFFICES ASSUME SyncInv, TypeOK', [Next]_vars PROVE InSync' /\ Expecting'
  BY DEF SyncInv
<1>t. TypeOK
  BY DEF SyncInv
<1>1. ASSUME NEW p \in Procs, Open(p) PROVE InSync' /\ Expecting'
  <2>1. /\ UNCHANGED <<sensorVars, call, abandoned>> /\ claimant = NoProc
        /\ claimant' = p /\ phase' = [phase EXCEPT ![p] = "ready"]
    BY <1>1 DEF Open
  <2>2. ~Awaiting /\ ~Awaiting' /\ Expecting'
    BY <1>t, <2>1 DEF Awaiting, TypeOK, SyncInv, Expecting
  <2> QED
    BY <2>1, <2>2, IdleKept
<1>2. ASSUME NEW p \in Procs, Close(p) PROVE InSync' /\ Expecting'
  BY <1>t, <1>2, LocalStep DEF Close, TypeOK
<1>3. ASSUME NEW p \in Procs, MintToken(p) PROVE InSync' /\ Expecting'
  BY <1>t, <1>3, SyncKept DEF MintToken, SyncInv, Expecting
<1>4. ASSUME NEW p \in Procs, NEW c \in Callable(p), StartCall(p, c)
      PROVE  InSync' /\ Expecting'
  BY <1>t, <1>4, LocalStep DEF StartCall, TypeOK
<1>5. ASSUME NEW p \in Procs, Refuse(p) \/ SendFails(p) PROVE InSync' /\ Expecting'
  <2>1. UNCHANGED <<claimant, abandoned, sensorVars>> /\ phase[p] = "send"
    BY <1>5 DEF Refuse, SendFails, Sendable
  <2>2. /\ phase'[p] = "ready"
        /\ \A q \in Procs \ {p} : phase'[q] = phase[q] /\ call'[q] = call[q]
    BY <1>t, <1>5 DEF Refuse, SendFails, Fail, Return, TypeOK
  <2> QED
    BY <2>1, <2>2, LocalStep
<1>6. ASSUME NEW p \in Procs, Send(p) PROVE InSync' /\ Expecting'
  <2> DEFINE c == call[p]
             q == [cmd |-> c.cmd, arg |-> Arg(c.payload), auth |-> token[p]]
  <2>1. /\ claimant = p /\ phase[p] = "send" /\ inbox' = Append(inbox, q)
        /\ UNCHANGED <<claimant, abandoned, waiting, fifo>>
    BY <1>6 DEF Send, Sendable
  <2>2. c \in Calls /\ c.cmd \in CmdNames /\ q \in Requests /\ p # NoProc
    BY <1>t, <2>1, CallTyped, DriverAssumption DEF Requests, TypeOK
  <2>3. inbox \in Seq(Requests) /\ Len(inbox) \in Nat
    BY <1>t, LenProperties DEF TypeOK, SensorTypeOK
  <2>4. /\ Len(inbox') = Len(inbox) + 1 /\ inbox'[Len(inbox')] = q /\ inbox' # <<>>
        /\ \A i \in 1..Len(inbox) : inbox'[i] = inbox[i]
    BY <2>1, <2>2, <2>3, AppendProperties, EmptySeq
  <2>5. abandoned = 0 => Idle
    BY <2>1, SyncCases DEF Awaiting, SyncInv
  <2>6. \A r \in Procs \ {p} : phase'[r] = phase[r] /\ call'[r] = call[r]
    BY <1>t, <1>6 DEF Send, Return, TypeOK
  <2>7. CASE Cmd[c.cmd].in_len = 0
    <3>1. q.cmd = "wipe_sensor"
      BY <2>2, <2>7, CmdTable
    <3>2. phase'[p] = "ready"
      BY <1>t, <1>6, <2>7 DEF Send, Return, TypeOK
    <3>3. Expecting' /\ ~Awaiting'
      BY <2>1, <2>6, <3>2 DEF SyncInv, Expecting, Awaiting
    <3>4. \A i \in 1..Len(inbox') : i \in 1..Len(inbox) \/ i = Len(inbox')
      BY <2>3, <2>4
    <3>5. abandoned = 0 => Idle'
      BY <2>1, <2>4, <2>5, <3>1, <3>4 DEF Idle, OnlyWipes, Drained
    <3> QED
      BY <2>1, <3>3, <3>5 DEF InSync, Idle
  <2>8. CASE Cmd[c.cmd].in_len # 0
    <3>1. phase'[p] = "recv" /\ call' = call
      BY <1>t, <1>6, <2>8 DEF Send, TypeOK
    <3>2. c.cmd # "wipe_sensor"
      BY <2>2, <2>8, CmdTable
    <3>3. Expecting' /\ Awaiting'
      BY <2>1, <2>2, <2>6, <3>1, <3>2 DEF SyncInv, Expecting, Awaiting
    <3>4. For(inbox'[Len(inbox')], c)
      BY <2>4 DEF For
    <3>5. \A i \in 1..(Len(inbox') - 1) : i \in 1..Len(inbox)
      BY <2>3, <2>4
    <3>6. abandoned = 0 => Queued(call[p])'
      BY <2>1, <2>4, <2>5, <3>1, <3>4, <3>5 DEF Idle, OnlyWipes, Queued, Drained, For
    <3>7. claimant' = p /\ abandoned' = abandoned
      BY <2>1
    <3> QED
      BY <3>3, <3>6, <3>7 DEF InSync, Queued, Drained, For
  <2> QED
    BY <2>7, <2>8
<1>7. ASSUME NEW p \in Procs, Receive(p) PROVE InSync' /\ Expecting'
  BY <1>t, <1>7, TakeStep DEF Receive, Return, TypeOK
<1>8. ASSUME NEW p \in Procs, Retry(p) PROVE InSync' /\ Expecting'
  BY <1>t, <1>8, TakeStep DEF Retry, TypeOK
<1>9. ASSUME NEW p \in Procs, RecvFails(p) \/ Interrupt(p) PROVE InSync' /\ Expecting'
  <2>1. /\ UNCHANGED sensorVars /\ Abandon(p) /\ claimant' \in {claimant, Released(p)}
        /\ phase'[p] # "recv"
        /\ \A q \in Procs \ {p} : phase'[q] = phase[q] /\ call'[q] = call[q]
    BY <1>t, <1>9 DEF RecvFails, Interrupt, Fail, Return, TypeOK
  <2>2. CASE phase[p] = "recv" /\ claimant = p
    <3>1. abandoned' # 0
      BY <1>t, <2>1, <2>2, DriverAssumption DEF Abandon, TypeOK
    <3> QED
      BY <2>1, <3>1 DEF InSync, SyncInv, Expecting
  <2>3. CASE ~(phase[p] = "recv" /\ claimant = p)
    BY <2>1, <2>3, LocalStep DEF Abandon
  <2> QED
    BY <2>2, <2>3
<1>10. CASE SensorNext /\ UNCHANGED procVars
  BY <1>10, SensorKeepsSync DEF SyncInv, Expecting, procVars
<1>11. CASE Replug
  <2>1. /\ inbox' = <<>> /\ waiting' = NoReq /\ claimant' = NoProc
        /\ fifo' = [ep \in Endpoints |-> <<>>] /\ UNCHANGED <<phase, call>>
    BY <1>11 DEF Replug, PowerCycle
  <2> QED
    BY <2>1 DEF InSync, Awaiting, OnlyWipes, Drained, SyncInv, Expecting
<1>12. CASE UNCHANGED vars
  BY <1>12, SyncKept DEF vars, procVars, SyncInv, Expecting
<1> QED
  BY <1>1, <1>2, <1>3, <1>4, <1>5, <1>6, <1>7, <1>8, <1>9, <1>10, <1>11, <1>12
     DEF Next, Step

LEMMA SyncInvariant == Spec => []SyncInv
<1>1. Init => Expecting /\ InSync
  BY DEF Init, SensorInit, Expecting, InSync, Awaiting, OnlyWipes, Drained
<1> QED
  BY <1>1, SyncStep, TypeCorrect, PTL DEF Spec, SyncInv

\* As long as no reply was given up since power-up, the device holds the
\* outstanding call's exchange and nothing else.
THEOREM ExchangeInSync == Spec => []InSync
BY SyncInvariant, PTL DEF SyncInv

LEMMA TakenReply ==
  ASSUME SyncInv, Next, NEW p \in Procs, abandoned = 0, claimant = p,
         phase[p] = "recv", phase'[p] # "recv", fifo' # fifo, claimant' = p
  PROVE  /\ For(Head(fifo[InEp(p)]), call[p])
         /\ waiting = NoReq /\ inbox = <<>>
<1>1. p # NoProc
  BY DriverAssumption
<1>2. ~Replug /\ ~(SensorNext /\ UNCHANGED procVars)
  BY <1>1 DEF Replug, procVars
<1>3. PICK q \in Procs : Receive(q) \/ Retry(q) \/ Send(q)
  BY <1>2 DEF Next, Step, Open, Close, MintToken, Interrupt, StartCall, Refuse,
     SendFails, RecvFails, sensorVars
<1>4. Readable(q)
  BY <1>3 DEF Receive, Retry, Send
<1>5. q = p
  BY <1>4 DEF Readable
<1> QED
  BY <1>4, <1>5, TakenIsAnswer DEF Answered, InEp

\* A reply taken then was sent for the call that takes it.
THEOREM RepliesAnswerCalls == Spec => ReplyAnswersCall
<1> DEFINE A == \A p \in Procs :
       abandoned = 0 /\ claimant = p /\ phase[p] = "recv" /\ phase'[p] # "recv"
         /\ fifo' # fifo /\ claimant' = p
       => /\ For(Head(fifo[InEp(p)]), call[p])
          /\ waiting = NoReq /\ inbox = <<>>
<1>1. SyncInv /\ [Next]_vars => [A]_vars
  BY TakenReply DEF vars
<1> QED
  BY <1>1, SyncInvariant, PTL DEF Spec, ReplyAnswersCall
=============================================================================

------------------------------- MODULE Driver -------------------------------
(***************************************************************************)
(* The library of src/device.rs under its most general clients: processes  *)
(* that open the sensor, issue any calls the library's types permit, are   *)
(* killed, and compete for the USB interface.  One action per USB transfer *)
(* or early return, because another process, the sensor or a signal may    *)
(* act between any two of them.                                            *)
(***************************************************************************)
EXTENDS Sensor

CONSTANTS Procs,            \* processes linked with the library
          MaxRetries,       \* proto.rs:36
          ClientCalls,      \* bound: the calls clients issue
          AbandonCap,       \* bound: abandoned requests are counted so far
          NoProc, NoCall, NoRes

Modes == {"transceive", "raw", "destructive", "retrying"}

Calls == [mode : Modes, cmd : CmdNames, payload : Seq(Byte), tries : Nat]

Errors == {"none", "Usb", "BadMagic", "NoResponse", "Gated", "PayloadTooLarge"}

Results == [err : Errors \ {"none"}] \cup [err : {"none"}, reply : Replies]

ASSUME DriverAssumption ==
  /\ MaxRetries \in Nat \ {0} /\ AbandonCap \in Nat \ {0}
  /\ ClientCalls \subseteq [mode : Modes, cmd : CmdNames, payload : Seq(Byte), tries : {0}]
  /\ NoProc \notin Procs /\ NoCall \notin Calls /\ NoRes \notin Results

VARIABLES claimant,    \* the process that holds interface 0, or NoProc
          phase,       \* per process: closed, ready, send or recv
          call,        \* its call in progress or last call
          res,         \* what that call returned
          token,       \* it has minted a DestructiveOps
          abandoned    \* history: requests sent since power-up whose reply
                       \* nobody waits for any more, counted up to AbandonCap

procVars == <<claimant, phase, call, res, token, abandoned>>
vars == <<sensorVars, procVars>>

Phases == {"closed", "ready", "send", "recv"}

TypeOK ==
  /\ SensorTypeOK
  /\ claimant \in Procs \cup {NoProc}
  /\ phase \in [Procs -> Phases]
  /\ call \in [Procs -> Calls \cup {NoCall}]
  /\ res \in [Procs -> Results \cup {NoRes}]
  /\ token \in [Procs -> BOOLEAN]
  /\ abandoned \in 0..AbandonCap
  /\ \A p \in Procs :
        IF phase[p] \in {"send", "recv"}
        THEN call[p] # NoCall /\ call[p].tries < MaxRetries
        ELSE call[p] = NoCall

Init ==
  /\ SensorInit
  /\ claimant = NoProc
  /\ phase = [p \in Procs |-> "closed"]
  /\ call = [p \in Procs |-> NoCall]
  /\ res = [p \in Procs |-> NoRes]
  /\ token = [p \in Procs |-> FALSE]
  /\ abandoned = 0

----------------------------------------------------------------------------
(* ElanMoc2::open and Drop.  open neither resets the device nor drains its *)
(* endpoints: only a power cycle empties them.                             *)

\* Bug for the runs to find: open() without claim_interface, so that a second
\* process takes the device over.
OpenUnclaimed(p) ==
  /\ phase[p] = "closed"
  /\ claimant' = p
  /\ phase' = [phase EXCEPT ![p] = "ready"]
  /\ UNCHANGED <<call, res, token, abandoned, sensorVars>>

Open(p) ==
  /\ phase[p] = "closed" /\ claimant = NoProc
  /\ claimant' = p
  /\ phase' = [phase EXCEPT ![p] = "ready"]
  /\ UNCHANGED <<call, res, token, abandoned, sensorVars>>

Released(p) == IF claimant = p THEN NoProc ELSE claimant

Close(p) ==
  /\ phase[p] = "ready"
  /\ claimant' = Released(p)
  /\ phase' = [phase EXCEPT ![p] = "closed"]
  /\ res' = [res EXCEPT ![p] = NoRes]
  /\ UNCHANGED <<call, token, abandoned, sensorVars>>

MintToken(p) ==
  /\ ~token[p]
  /\ token' = [token EXCEPT ![p] = TRUE]
  /\ UNCHANGED <<claimant, phase, call, res, abandoned, sensorVars>>

----------------------------------------------------------------------------
(* transceive, transceive_raw, transceive_destructive, transceive_retrying *)

\* Bug: transceive_destructive callable without a token.
CallableUntokened(p) ==
  { c \in ClientCalls :
      c.mode = "retrying" => c.cmd \in {"get_enrolled_count", "finger_info"} }

\* What the types let process p call: the private transceive_retrying serves
\* two queries, transceive_destructive takes a token.
Callable(p) ==
  { c \in ClientCalls :
      /\ c.mode = "retrying" => c.cmd \in {"get_enrolled_count", "finger_info"}
      /\ c.mode = "destructive" => token[p] }

StartCall(p, c) ==
  /\ phase[p] = "ready"
  /\ phase' = [phase EXCEPT ![p] = "send"]
  /\ call' = [call EXCEPT ![p] = c]
  /\ res' = [res EXCEPT ![p] = NoRes]
  /\ UNCHANGED <<claimant, token, abandoned, sensorVars>>

Return(p, result) ==
  /\ phase' = [phase EXCEPT ![p] = "ready"]
  /\ call' = [call EXCEPT ![p] = NoCall]
  /\ res' = [res EXCEPT ![p] = result]

Fail(p, err) == Return(p, [err |-> err])

\* Bug: the raw path left out of the gate.
GatedButRaw(c) == c.mode \notin {"destructive", "raw"} /\ Persistent(c.cmd)

\* gate_check
Gated(c) == c.mode # "destructive" /\ Persistent(c.cmd)

\* The payload's first byte, or the zero the frame is filled with.
Arg(payload) == IF payload = <<>> THEN 0 ELSE payload[1]

Refuse(p) ==
  /\ phase[p] = "send"
  /\ \/ Gated(call[p]) /\ Fail(p, "Gated")
     \/ /\ ~Gated(call[p]) /\ ~Fits(call[p].cmd, call[p].payload)
        /\ Fail(p, "PayloadTooLarge")
  /\ UNCHANGED <<claimant, token, abandoned, sensorVars>>

Sendable(p) ==
  phase[p] = "send" /\ ~Gated(call[p]) /\ Fits(call[p].cmd, call[p].payload)

\* Bug: no early return, a reply to wipe_sensor is waited for.
SendAndWait(p) ==
  LET c == call[p] IN
  /\ Sendable(p) /\ claimant = p /\ Len(inbox) < OutDepth
  /\ inbox' = Append(inbox, [cmd |-> c.cmd, arg |-> Arg(c.payload),
                             auth |-> token[p]])
  /\ phase' = [phase EXCEPT ![p] = "recv"]
  /\ UNCHANGED <<claimant, call, res, token, abandoned, store, cur, waiting, fifo>>

\* write_bulk, then the early return of a command without a reply.
Send(p) ==
  LET c == call[p] IN
  /\ Sendable(p) /\ claimant = p /\ Len(inbox) < OutDepth
  /\ inbox' = Append(inbox, [cmd |-> c.cmd, arg |-> Arg(c.payload),
                             auth |-> token[p]])
  /\ IF Cmd[c.cmd].in_len = 0
     THEN Return(p, [err |-> "none",
                     reply |-> Reply([cmd |-> c.cmd, arg |-> Arg(c.payload)],
                                     0, 0, NoSlot)])
     ELSE phase' = [phase EXCEPT ![p] = "recv"] /\ UNCHANGED <<call, res>>
  /\ UNCHANGED <<claimant, token, abandoned, store, cur, waiting, fifo>>

\* The handle lost its claim, or the sensor takes no request for 10 s.
SendFails(p) ==
  /\ Sendable(p) /\ (claimant # p \/ Len(inbox) = OutDepth)
  /\ Fail(p, "Usb")
  /\ UNCHANGED <<claimant, token, abandoned, sensorVars>>

InEp(p) == Cmd[call[p].cmd].ep_in

Readable(p) == phase[p] = "recv" /\ claimant = p /\ fifo[InEp(p)] # <<>>

\* What one exchange makes of reply r.  A packet longer than the buffer is a
\* libusb overflow; a shorter one is accepted as it is.
Decoded(c, r) ==
  IF r.len > Cmd[c.cmd].in_len THEN [err |-> "Usb"]
  ELSE IF c.mode # "raw" /\ r.len > 0 /\ ~r.magic THEN [err |-> "BadMagic"]
  ELSE IF c.mode = "retrying" /\ r.len = 0 THEN [err |-> "NoResponse"]
  ELSE [err |-> "none", reply |-> r]

\* Bug: one attempt too many.
MayRetryOnceMore(c, r) ==
  Decoded(c, r).err = "NoResponse" /\ c.tries < MaxRetries

\* transceive_retrying starts another exchange after an empty reply.
MayRetry(c, r) ==
  Decoded(c, r).err = "NoResponse" /\ c.tries + 1 < MaxRetries

TakeReply(p) ==
  /\ fifo' = [fifo EXCEPT ![InEp(p)] = Tail(@)]
  /\ UNCHANGED <<claimant, token, abandoned, store, cur, waiting, inbox>>

Receive(p) ==
  /\ Readable(p)
  /\ LET r == Head(fifo[InEp(p)]) IN
     ~MayRetry(call[p], r) /\ Return(p, Decoded(call[p], r))
  /\ TakeReply(p)

Retry(p) ==
  /\ Readable(p) /\ MayRetry(call[p], Head(fifo[InEp(p)]))
  /\ phase' = [phase EXCEPT ![p] = "send"]
  /\ call' = [call EXCEPT ![p].tries = @ + 1]
  /\ TakeReply(p) /\ UNCHANGED res

Abandon(p) ==
  abandoned' = IF phase[p] = "recv" /\ claimant = p /\ abandoned < AbandonCap
               THEN abandoned + 1 ELSE abandoned

\* Two bugs.  A read timeout of 0, which to libusb is no timeout at all; and
\* a timeout that sends the request again instead of failing.
RecvWaits(p) ==
  /\ phase[p] = "recv" /\ claimant # p
  /\ Fail(p, "Usb") /\ Abandon(p)
  /\ UNCHANGED <<claimant, token, sensorVars>>

RecvResends(p) ==
  /\ phase[p] = "recv" /\ (claimant # p \/ fifo[InEp(p)] = <<>>)
  /\ phase' = [phase EXCEPT ![p] = "send"]
  /\ UNCHANGED <<claimant, call, res, token, abandoned, sensorVars>>

\* The handle lost its claim, or nothing arrived for 10 s.
RecvFails(p) ==
  /\ phase[p] = "recv" /\ (claimant # p \/ fifo[InEp(p)] = <<>>)
  /\ Fail(p, "Usb") /\ Abandon(p)
  /\ UNCHANGED <<claimant, token, sensorVars>>

----------------------------------------------------------------------------
(* The environment: a signal kills the process and the kernel releases its *)
(* claim without any USB traffic; the sensor loses power.                  *)

Interrupt(p) ==
  /\ phase[p] # "closed"
  /\ phase' = [phase EXCEPT ![p] = "closed"]
  /\ claimant' = Released(p)
  /\ call' = [call EXCEPT ![p] = NoCall]
  /\ res' = [res EXCEPT ![p] = NoRes]
  /\ token' = [token EXCEPT ![p] = FALSE]
  /\ Abandon(p)
  /\ UNCHANGED sensorVars

Replug ==
  /\ PowerCycle
  /\ claimant' = NoProc /\ abandoned' = 0
  /\ UNCHANGED <<phase, call, res, token>>

----------------------------------------------------------------------------
\* The library's own steps inside a call; one is always enabled.
Step(p) == Refuse(p) \/ Send(p) \/ SendFails(p)
             \/ Receive(p) \/ Retry(p) \/ RecvFails(p)

Next ==
  \/ \E p \in Procs : \/ Open(p) \/ Close(p) \/ MintToken(p) \/ Interrupt(p)
                      \/ \E c \in Callable(p) : StartCall(p, c)
                      \/ Step(p)
  \/ SensorNext /\ UNCHANGED procVars
  \/ Replug

Spec == Init /\ [][Next]_vars

\* Both transfers carry a timeout, so a call always has a step to take; that
\* the process is scheduled is all that is assumed.
Fairness == \A p \in Procs : WF_vars(Step(p))
LiveSpec == Spec /\ Fairness

----------------------------------------------------------------------------
(* Properties                                                              *)

\* Request or reply x is the one call c asked for.
For(x, c) == x.cmd = c.cmd /\ x.arg = Arg(c.payload)

Awaiting == claimant # NoProc /\ phase[claimant] = "recv"

Drained == \A ep \in Endpoints : fifo[ep] = <<>>

OnlyWipes(q) == \A i \in 1..Len(q) : q[i].cmd = "wipe_sensor"

\* Where the one outstanding request of call c can be: last on the OUT
\* endpoint, behind unanswered wipes; at the finger; or answered.
Queued(c) ==
  /\ waiting = NoReq /\ Drained /\ inbox # <<>>
  /\ For(inbox[Len(inbox)], c)
  /\ \A i \in 1..(Len(inbox) - 1) : inbox[i].cmd = "wipe_sensor"

AtFinger(c) == waiting # NoReq /\ For(waiting, c) /\ Drained /\ inbox = <<>>

Answered(c) ==
  /\ waiting = NoReq /\ inbox = <<>>
  /\ Len(fifo[Cmd[c.cmd].ep_in]) = 1 /\ For(Head(fifo[Cmd[c.cmd].ep_in]), c)
  /\ \A ep \in Endpoints \ {Cmd[c.cmd].ep_in} : fifo[ep] = <<>>

\* The exchange is in step: as long as no request was abandoned since power
\* came on, there is exactly one request in flight while a call waits for
\* its reply, the one it sent, and none otherwise.  Everything rests on it:
\* device.rs:229 takes whatever the endpoint holds for its own reply.
InSync ==
  abandoned = 0 =>
    IF Awaiting
    THEN \/ Queued(call[claimant])
         \/ AtFinger(call[claimant])
         \/ Answered(call[claimant])
    ELSE waiting = NoReq /\ Drained /\ OnlyWipes(inbox)

\* A call never takes another call's reply, or its own before the sensor is
\* through with it: what device.rs:229 reads was sent for this request.
ReplyAnswersCall ==
  [][\A p \in Procs :
       abandoned = 0 /\ claimant = p /\ phase[p] = "recv" /\ phase'[p] # "recv"
         /\ fifo' # fifo /\ claimant' = p
       => /\ For(Head(fifo[InEp(p)]), call[p])
          /\ waiting = NoReq /\ inbox = <<>>]_vars

\* device.rs:84: stored templates change only on a request whose sender held
\* a DestructiveOps token, however long the request was queued and whatever
\* became of the sender.
AuthorisedWrites == [][store' # store => Head(inbox).auth]_vars

\* No persistent request is queued, or waits for a finger, without such a
\* token: no mode and no payload of a client takes it around gate_check.
NoUnauthorisedRequest ==
  /\ \A i \in 1..Len(inbox) : Persistent(inbox[i].cmd) => inbox[i].auth
  /\ (waiting # NoReq /\ Persistent(waiting.cmd)) => waiting.auth

\* The writes that transceive_destructive calls of token holders are about to
\* send.
BeingSent ==
  {WriteOf([cmd |-> call[p].cmd, arg |-> Arg(call[p].payload)]) :
     p \in {q \in Procs : phase[q] = "send" /\ call[q].mode = "destructive"
                          /\ token[q] /\ call[q].cmd \in WriteCmds}}

\* device.rs:84, as a refinement: the library with the sensor at its end is a
\* store whose templates change by the writes its destructive calls name and
\* by nothing else: not by a stale or a forged request, not by another slot's.
Promise == INSTANCE TemplateStore
             WITH TemplateSlots <- Slots, allowed <- BeingSent, asked <- QueuedWrites
ImplementsStore == Promise!Spec

\* What is left of the call process p is in: an exchange at most for each
\* attempt, a transfer each way for an exchange.
CallRank(p) ==
  CASE phase[p] = "send" -> 2 * (MaxRetries - call[p].tries) + 1
    [] phase[p] = "recv" -> 2 * (MaxRetries - call[p].tries)
    [] OTHER             -> 0

\* Every call returns to its caller or dies with it, the sensor answering or
\* not: both transfers time out and transceive_retrying gives up.
CallReturns ==
  \A p \in Procs : phase[p] \in {"send", "recv"} ~> phase[p] \in {"ready", "closed"}
=============================================================================

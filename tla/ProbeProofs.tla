---------------------------- MODULE ProbeProofs ----------------------------
(***************************************************************************)
(* The probe leaves the library's exchange as it is: whatever the clients  *)
(* are guaranteed without it, they are guaranteed beside it.               *)
(***************************************************************************)
EXTENDS Probe, DriverProofs

ProbeInv == ProbeTypeOK /\ SyncInv

LEMMA Endpoint ==
  ASSUME NEW i \in 1..Len(InEndpoints)
  PROVE  InEndpoints[i] \in Endpoints
BY DEF InEndpoints, Endpoints

LEMMA ListenRange ==
  Len(InEndpoints) = 2 /\ ListenOver = 3
BY DEF InEndpoints, ListenOver

\* A probe that holds the interface finds the endpoints empty, as long as
\* the exchange is in step: nobody waits, so nothing is in flight.
LEMMA NothingToHear ==
  ASSUME ProbeInv, NEW p \in Procs, ProbeListen(p), abandoned = 0
  PROVE  UNCHANGED fifo
<1>1. InEndpoints[listen[p]] \in Endpoints /\ phase[p] = "closed"
  BY Endpoint, ListenRange DEF ProbeInv, ProbeTypeOK, ProbeListen
<1>2. CASE claimant = p
  <2>1. ~Awaiting
    BY <1>1, <1>2 DEF Awaiting
  <2>2. Drained
    BY <2>1 DEF ProbeInv, SyncInv, InSync
  <2> QED
    BY <1>1, <2>2 DEF ProbeListen, Drained
<1>3. CASE claimant # p
  BY <1>3 DEF ProbeListen
<1> QED
  BY <1>2, <1>3
LEMMA ListenTyped ==
  ASSUME ProbeInv, NEW p \in Procs, ProbeListen(p)
  PROVE  TypeOK'
<1> DEFINE ep == InEndpoints[listen[p]]
           s == fifo[ep]
<1>1. ep \in Endpoints /\ SensorTypeOK /\ TypeOK
  BY Endpoint DEF ProbeInv, ProbeTypeOK, ProbeListen, TypeOK
<1>2. UNCHANGED <<procVars, store, cur, waiting, inbox>>
  BY DEF ProbeListen
<1>3. SensorTypeOK'
  <2>1. CASE claimant = p /\ s # <<>>
    <3>1. fifo' = [fifo EXCEPT ![ep] = Tail(s)]
      BY <2>1 DEF ProbeListen
    <3>2. s \in Seq(Replies) /\ Len(s) \in Nat /\ Len(s) <= InDepth
      BY <1>1, LenProperties DEF SensorTypeOK
    <3>3. Tail(s) \in Seq(Replies) /\ Len(Tail(s)) = Len(s) - 1
      BY <2>1, <3>2, HeadTailProperties
    <3>4. Len(Tail(s)) <= InDepth
      BY <3>2, <3>3, SensorAssumption
    <3> QED
      BY <1>1, <1>2, <3>1, <3>3, <3>4 DEF SensorTypeOK
  <2>2. CASE ~(claimant = p /\ s # <<>>)
    <3>1. UNCHANGED fifo
      BY <2>2 DEF ProbeListen
    <3> QED
      BY <1>1, <1>2, <3>1 DEF SensorTypeOK
  <2> QED
    BY <2>1, <2>2
<1> QED
  BY <1>1, <1>2, <1>3 DEF TypeOK, procVars

LEMMA ProbeStep == ProbeInv /\ [ProbeNext]_probeVars => ProbeInv'
<1> SUFFICES ASSUME ProbeInv, [ProbeNext]_probeVars PROVE ProbeInv'
  OBVIOUS
<1>0. /\ SyncInv /\ TypeOK /\ listen \in [Procs -> 0..ListenOver]
      /\ \A p \in Procs : listen[p] # 0 => phase[p] = "closed"
  BY DEF ProbeInv, ProbeTypeOK
<1>t. ASSUME UNCHANGED <<phase, call, res, token, abandoned, sensorVars>>,
             claimant' \in Procs \cup {NoProc}
      PROVE  TypeOK' /\ Expecting'
  BY <1>0, <1>t DEF TypeOK, SensorTypeOK, sensorVars, SyncInv, Expecting
<1>1. ASSUME NEW p \in Procs, ProbeClaim(p) PROVE ProbeInv'
  <2>1. /\ claimant = NoProc /\ claimant' = p /\ phase[p] = "closed"
        /\ UNCHANGED <<phase, call, res, token, abandoned, sensorVars>>
        /\ listen' = [listen EXCEPT ![p] = 1]
    BY <1>1 DEF ProbeClaim
  <2>2. ~Awaiting /\ ~Awaiting'
    BY <2>1 DEF Awaiting
  <2>3. InSync'
    BY <1>0, <2>1, <2>2, IdleKept
  <2>4. ProbeTypeOK'
    BY <1>0, <1>t, <2>1, ListenRange DEF ProbeTypeOK
  <2> QED
    BY <1>t, <2>1, <2>3, <2>4 DEF ProbeInv, SyncInv
<1>2. ASSUME NEW p \in Procs, ProbeListen(p) PROVE ProbeInv'
  <2>1. TypeOK' /\ UNCHANGED <<procVars, store, cur, waiting, inbox>>
    BY <1>2, ListenTyped DEF ProbeListen
  <2>2. Expecting'
    BY <1>0, <2>1 DEF SyncInv, Expecting, procVars
  <2>3. InSync'
    <3>1. CASE abandoned = 0
      <4>1. UNCHANGED sensorVars
        BY <1>2, <2>1, <3>1, NothingToHear DEF sensorVars
      <4> QED
        BY <1>0, <2>1, <4>1, SyncKept DEF procVars
    <3>2. CASE abandoned # 0
      BY <2>1, <3>2 DEF InSync, procVars
    <3> QED
      BY <3>1, <3>2
  <2>4. listen[p] \in 1..2 /\ listen' = [listen EXCEPT ![p] = @ + 1]
    BY <1>2, ListenRange DEF ProbeListen
  <2>5. ProbeTypeOK'
    BY <1>0, <2>1, <2>4, ListenRange DEF ProbeTypeOK, procVars
  <2> QED
    BY <2>1, <2>2, <2>3, <2>5 DEF ProbeInv, SyncInv
<1>3. ASSUME NEW p \in Procs, ProbeEnd(p) PROVE ProbeInv'
  <2>1. /\ claimant' = Released(p) /\ phase[p] = "closed"
        /\ UNCHANGED <<phase, call, res, token, abandoned, sensorVars>>
        /\ listen' = [listen EXCEPT ![p] = 0]
    BY <1>0, <1>3 DEF ProbeEnd
  <2>2. InSync' /\ Expecting'
    BY <1>0, <2>1, LocalStep
  <2>3. claimant' \in Procs \cup {NoProc}
    BY <1>0, <2>1 DEF Released, TypeOK
  <2>4. ProbeTypeOK'
    BY <1>0, <1>t, <2>1, <2>3, ListenRange DEF ProbeTypeOK
  <2> QED
    BY <1>t, <2>1, <2>2, <2>3, <2>4 DEF ProbeInv, SyncInv
<1>4. CASE Clients
  <2>1. TypeOK' /\ SyncInv'
    BY <1>0, <1>4, TypeStep, SyncStep DEF Clients
  <2> QED
    BY <1>0, <1>4, <2>1 DEF Clients, ProbeInv, ProbeTypeOK
<1>5. CASE UNCHANGED probeVars
  <2>1. UNCHANGED vars /\ UNCHANGED listen
    BY <1>5 DEF probeVars
  <2>2. TypeOK' /\ SyncInv'
    BY <1>0, <2>1, TypeStep, SyncStep
  <2> QED
    BY <1>0, <2>1, <2>2 DEF ProbeInv, ProbeTypeOK, vars, procVars
<1> QED
  BY <1>1, <1>2, <1>3, <1>4, <1>5 DEF ProbeNext

LEMMA ProbeInvariant == ProbeSpec => []ProbeInv
<1>1. ProbeInit => ProbeInv
  <2> SUFFICES ASSUME ProbeInit PROVE ProbeInv
    OBVIOUS
  <2>1. TypeOK /\ Expecting /\ InSync
    BY TypeInit DEF ProbeInit, Init, SensorInit, Expecting, InSync, Awaiting,
       OnlyWipes, Drained
  <2> QED
    BY <2>1, ListenRange DEF ProbeInit, ProbeInv, ProbeTypeOK, SyncInv
<1> QED
  BY <1>1, ProbeStep, PTL DEF ProbeSpec

\* Types, the retry bound and the place of every probe.
THEOREM ProbeTypeCorrect == ProbeSpec => []ProbeTypeOK
BY ProbeInvariant, PTL DEF ProbeInv

\* Probes beside the clients, in any number, keep the exchange in step.
THEOREM ProbeKeepsSync == ProbeSpec => []InSync
BY ProbeInvariant, PTL DEF ProbeInv, SyncInv

\* What a probe takes is only ever what an abandoned request left behind.
THEOREM ProbeIsPassive == ProbeSpec => ProbeHearsNothing
<1> DEFINE A == \A p \in Procs :
       abandoned = 0 /\ listen[p] # 0 /\ listen'[p] # listen[p] => fifo' = fifo
<1>1. ProbeInv /\ [ProbeNext]_probeVars => [A]_probeVars
  <2> SUFFICES ASSUME ProbeInv, ProbeNext, NEW p \in Procs, abandoned = 0,
                      listen[p] # 0, listen'[p] # listen[p]
               PROVE  fifo' = fifo
    BY DEF probeVars
  <2>1. PICK q \in Procs : ProbeClaim(q) \/ ProbeListen(q) \/ ProbeEnd(q)
    BY DEF ProbeNext, Clients
  <2> QED
    BY <2>1, NothingToHear DEF ProbeClaim, ProbeEnd, sensorVars
<1> QED
  BY <1>1, ProbeInvariant, PTL DEF ProbeSpec, ProbeHearsNothing

LEMMA ProbeLocal ==
  ASSUME NEW p \in Procs, ProbeClaim(p) \/ ProbeListen(p) \/ ProbeEnd(p)
  PROVE  UNCHANGED <<phase, call, res, token, abandoned, store, cur, waiting, inbox>>
BY DEF ProbeClaim, ProbeListen, ProbeEnd, procVars, sensorVars

\* A call of any client still takes only the reply to its own request, a probe
\* having listened on its endpoint or not.
THEOREM RepliesKeptBesideProbes == ProbeSpec => ReplyAnswersCall
<1> DEFINE A == \A p \in Procs :
       abandoned = 0 /\ claimant = p /\ phase[p] = "recv" /\ phase'[p] # "recv"
         /\ fifo' # fifo /\ claimant' = p
       => /\ For(Head(fifo[InEp(p)]), call[p])
          /\ waiting = NoReq /\ inbox = <<>>
<1>1. ProbeInv /\ [ProbeNext]_probeVars => [A]_vars
  <2> SUFFICES ASSUME ProbeInv, ProbeNext, NEW p \in Procs, abandoned = 0,
                      claimant = p, phase[p] = "recv", phase'[p] # "recv",
                      fifo' # fifo, claimant' = p
               PROVE  /\ For(Head(fifo[InEp(p)]), call[p])
                      /\ waiting = NoReq /\ inbox = <<>>
    BY DEF probeVars, vars
  <2>1. ~\E q \in Procs : ProbeClaim(q) \/ ProbeListen(q) \/ ProbeEnd(q)
    BY ProbeLocal
  <2>2. Next
    BY <2>1 DEF ProbeNext, Clients
  <2> QED
    BY <2>2, TakenReply DEF ProbeInv
<1> QED
  BY <1>1, ProbeInvariant, PTL DEF ProbeSpec, ReplyAnswersCall

\* What the gate and the tokens rest on is nothing a probe touches.
LEMMA ProbeAuthStep ==
  ASSUME ProbeInv, ProbeInv', AuthInv, [ProbeNext]_probeVars
  PROVE  AuthInv'
<1>1. TypeOK'
  BY DEF ProbeInv, ProbeTypeOK
<1>2. CASE [Next]_vars
  BY <1>1, <1>2, AuthStep
<1>3. ASSUME NEW p \in Procs, ProbeClaim(p) \/ ProbeListen(p) \/ ProbeEnd(p)
      PROVE  AuthInv'
  <2>1. UNCHANGED <<phase, call, token, waiting, inbox>>
    BY <1>3, ProbeLocal
  <2> QED
    BY <1>1, <2>1 DEF AuthInv, TokenHeld, NoUnauthorisedRequest
<1> QED
  BY <1>2, <1>3 DEF ProbeNext, Clients, probeVars

LEMMA ProbeAuthInvariant == ProbeSpec => []AuthInv
<1>1. ProbeInit => AuthInv
  <2> SUFFICES ASSUME ProbeInit PROVE AuthInv
    OBVIOUS
  <2>1. TypeOK /\ inbox = <<>> /\ waiting = NoReq /\ phase = [p \in Procs |-> "closed"]
    BY TypeInit DEF ProbeInit, Init, SensorInit
  <2> QED
    BY <2>1 DEF AuthInv, TokenHeld, NoUnauthorisedRequest
<1>2. ProbeInv /\ ProbeInv' /\ AuthInv /\ [ProbeNext]_probeVars => AuthInv'
  BY ProbeAuthStep
<1> QED
  BY <1>1, <1>2, ProbeInvariant, PTL DEF ProbeSpec

\* Beside any number of probes no persistent request passes without a token.
THEOREM GateHoldsBesideProbes == ProbeSpec => []NoUnauthorisedRequest
BY ProbeAuthInvariant, PTL DEF AuthInv

\* probe.rs:197 "device state unmodified": library, sensor and probes together
\* implement TemplateStore; a probe asks for no write and changes no template.
THEOREM ProbeKeepsStore == ProbeSpec => ImplementsStore
<1>1. ProbeInit => Promise!Init
  BY DEF ProbeInit, Init, SensorInit, Promise!Init, QueuedWrites
<1>2. AuthInv /\ [ProbeNext]_probeVars => [Promise!Next]_<<store, QueuedWrites>>
  <2> SUFFICES ASSUME AuthInv, [ProbeNext]_probeVars
               PROVE  Promise!Next \/ UNCHANGED <<store, QueuedWrites>>
    OBVIOUS
  <2>1. CASE [Next]_vars
    BY <2>1, PromiseStep
  <2>2. ASSUME NEW p \in Procs, ProbeClaim(p) \/ ProbeListen(p) \/ ProbeEnd(p)
        PROVE  UNCHANGED <<store, QueuedWrites>>
    BY <2>2, ProbeLocal DEF QueuedWrites
  <2> QED
    BY <2>1, <2>2 DEF ProbeNext, Clients, probeVars
<1> QED
  BY <1>1, <1>2, ProbeAuthInvariant, PTL DEF ProbeSpec, ImplementsStore, Promise!Spec
=============================================================================

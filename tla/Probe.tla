------------------------------- MODULE Probe -------------------------------
(***************************************************************************)
(* The descriptor probe, src/bin/probe.rs, run beside the clients of the   *)
(* library.  It sends nothing, but after its descriptor reads it listens   *)
(* once on every bulk IN endpoint, and takes whatever packet it finds.     *)
(* Descriptor reads use the control endpoint and touch no state modelled   *)
(* here.                                                                   *)
(***************************************************************************)
EXTENDS Driver

\* The IN endpoints the protocol uses, in descriptor order; nothing ever
\* arrives on 0x81 and 0x82.
InEndpoints == <<EP_CMD_IN, EP_MOC_CMD_IN>>
ListenOver == Len(InEndpoints) + 1

VARIABLE listen    \* per process: 0 while it runs no probe, else the place in
                   \* InEndpoints the probe listens at next, or ListenOver

probeVars == <<vars, listen>>

ProbeTypeOK ==
  /\ TypeOK
  /\ listen \in [Procs -> 0..ListenOver]
  /\ \A p \in Procs : listen[p] # 0 => phase[p] = "closed"

ProbeInit == Init /\ listen = [p \in Procs |-> 0]

\* Bug for the runs to find: the probe detaches whoever holds the interface.
ProbeClaimForced(p) ==
  /\ phase[p] = "closed" /\ listen[p] = 0
  /\ claimant' = p
  /\ listen' = [listen EXCEPT ![p] = 1]
  /\ UNCHANGED <<phase, call, res, token, abandoned, sensorVars>>

\* claim_interface; a probe that is refused ends there.
ProbeClaim(p) ==
  /\ phase[p] = "closed" /\ listen[p] = 0 /\ claimant = NoProc
  /\ claimant' = p
  /\ listen' = [listen EXCEPT ![p] = 1]
  /\ UNCHANGED <<phase, call, res, token, abandoned, sensorVars>>

\* read_bulk takes the oldest packet, or gives up after 300 ms; an error,
\* as of a handle that lost its claim, is printed and the next is read.
ProbeListen(p) ==
  LET ep == InEndpoints[listen[p]] IN
  /\ listen[p] \in 1..Len(InEndpoints)
  /\ fifo' = IF claimant = p /\ fifo[ep] # <<>>
             THEN [fifo EXCEPT ![ep] = Tail(@)] ELSE fifo
  /\ listen' = [listen EXCEPT ![p] = @ + 1]
  /\ UNCHANGED <<procVars, store, cur, waiting, inbox>>

\* release_interface at the end, or the death of the process on the way.
ProbeEnd(p) ==
  /\ listen[p] # 0
  /\ claimant' = Released(p)
  /\ listen' = [listen EXCEPT ![p] = 0]
  /\ UNCHANGED <<phase, call, res, token, abandoned, sensorVars>>

\* A process that runs the probe makes no library calls.
Clients ==
  /\ Next /\ UNCHANGED listen
  /\ \A p \in Procs : listen[p] # 0 => phase'[p] = phase[p] /\ token'[p] = token[p]

ProbeNext ==
  \/ \E p \in Procs : ProbeClaim(p) \/ ProbeListen(p) \/ ProbeEnd(p)
  \/ Clients

ProbeSpec == ProbeInit /\ [][ProbeNext]_probeVars

----------------------------------------------------------------------------
\* probe.rs:10 "Bulk IN reads are passive: with nothing queued the device
\* NAKs": as long as no request was abandoned since power came on, the probe
\* takes no packet, neither one a call still waits for nor one it will.
\* (What an interrupted identify left behind it does take.)
ProbeHearsNothing ==
  [][\A p \in Procs :
       abandoned = 0 /\ listen[p] # 0 /\ listen'[p] # listen[p]
         => fifo' = fifo]_probeVars
=============================================================================

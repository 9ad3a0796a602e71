------------------------------ MODULE MCDriver ------------------------------
(* Driver for TLC: sets of client calls. *)
EXTENDS Driver, TLC

C(m, c, pl) == [mode |-> m, cmd |-> c, payload |-> pl, tries |-> 0]

\* The processes are interchangeable; sound for invariants and action properties.
ProcSymmetry == Permutations(Procs)

\* Queries retried and blocking calls, competing for one sensor.
ExchangeCalls ==
  { C("retrying", "get_enrolled_count", <<>>), C("transceive", "identify", <<>>) }

\* Persistent commands with and without a token, and the one command that
\* answers nothing, ahead of ones that do.  245 is the slot byte of slot 0.
WriterCalls ==
  { C("raw", "delete", <<245>>),
    C("destructive", "commit", <<0>>), C("destructive", "delete", <<245>>),
    C("destructive", "wipe_sensor", <<>>),
    C("retrying", "get_enrolled_count", <<>>) }
=============================================================================

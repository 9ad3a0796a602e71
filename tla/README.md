# Specifications of the ELAN 04f3:0c00 driver

TLA+ models of the Rust driver in `src/` (crate `elan_0c00`, binaries `elanctl`
and `probe`), of libfprint's `elanmoc2` C driver as `patches/` leaves it, and of
the scripts that install it, checked with TLC on small instances and, where it matters most, proved with
TLAPS for every instance. `PROJECT.json` maps every definition to the lines it
models. Paths below are relative to the repository.

## The system

| Part | State it keeps | Operations | Talks to |
|---|---|---|---|
| wire protocol, `src/proto.rs` | none | `frame`, `Status::from_byte`, `is_retryable`, `bcd`, `user_id_offset`, the ten `Cmd` constants | used by both below |
| device library, `src/device.rs` | USB handle, interface claim | `open`, `Drop`, `transceive`, `transceive_raw`, `transceive_destructive`, `transceive_retrying`, the queries built on them, `gate_check`, the `DestructiveOps` token | the sensor, by bulk transfers |
| front-end, `src/bin/elanctl.rs` | the place in one subcommand | `info`, `dump`, `collision`, `identify` | the library |
| the sensor (firmware, not in the repository) | templates, last match, a command waiting for a finger | queries, abort, identify, enroll, commit, delete, wipe | OUT endpoint 0x01; replies on 0x83, and on 0x84 for commands that wait for a finger |
| descriptor probe, `src/bin/probe.rs` | a claim | standard descriptor reads and their decoding, one passive read per IN endpoint | the sensor |
| elanmoc2 C driver, `patches/` | libfprint state machines, the template count, the match data | enroll, delete, clear, identify/verify, cancel | fprintd above, the sensor below |
| install scripts, `scripts/*-local.sh`, `fix-symlink.sh`, `packaging/` | `/usr/lib`, the SONAME link, a backup, pacman's database | install, repair, uninstall | ldconfig, pacman |
| hardware tests, `scripts/verify-*.sh` | counters over logs | verdicts | fprintd, journal, coredumps |

What is hard about it:

* **Replies are anonymous.** A reply carries no opcode and no tag. `read_bulk`
  (device.rs:229) accepts whatever the endpoint holds. Every result the user
  sees rests on exactly one request being in flight, the caller's own.
* **The exchange has two ends and each can fail alone.** A read times out after
  10 s while the sensor keeps the request; a process is killed while the sensor
  waits for a finger; the cable is pulled under an open handle. `open` neither
  resets the device nor drains its endpoints.
* **Several processes share one device**, kept apart only by the interface
  claim.
* **Some requests outlive their call.** `wipe_sensor` has no reply and is
  answered by silence; a process may be gone when a write takes effect.
* **Destructive commands share the wire with queries.** A `Cmd`'s `effect`
  field, a run-time gate and a token are all that separates them.
* **Two replies decide what a third request does.** The C driver takes a slot
  from one reply and deletes it two replies later; every early return completes
  operation and state machine by hand; an error has two owners.
* **The install replaces a file another package owns**, and rests on one backup,
  a link any `ldconfig` may repoint, and scripts that stop anywhere.
* **Byte-level edges**: payloads that just fit, zero-length and short replies,
  status bytes that are slot numbers, `u8` arithmetic.

What makes each part correct: frames are unambiguous and never truncated
(protocol); the exchange stays in step, every call returns, templates change
only by authority (library); the subcommands never write, end, and print the
record they name (front-end); an operation changes only the templates it was
asked to, and reports what is so (C driver); an install lasts, can be rolled
back and be removed (scripts).

## Modules

```
Proto <- Sensor <- Driver <- ElanCtl, Probe          TemplateStore
  ^        ^         |                                 ^       ^
UserId     |         +--- implements ------------------+       |
  ^        +------ Elanmoc2 --- implements --------------------+
  |                   |
  +-------------------+           Install (on its own)
  ^
ProtoInputs -> Descriptors        MCDriver, MCProbe, MCElanmoc2: values for TLC

Proofs: ProtoProofs <- DescriptorProofs; InstallProofs
        SensorProofs <- DriverProofs <- ProbeProofs, ElanCtlProofs
        SensorProofs <- Elanmoc2Proofs
```

**Proto** is `proto.rs` as pure definitions: a row per `Cmd`, `Fits`/`Frame` for
`frame` (one refuses, the other fills), `FromByte`, `IsRetryable`, `Bcd` with
its `u8` wrap.

**UserId** is what patch 0004 makes of the length of a `finger_info` reply, and
the slot byte of a delete (0002:66), as functions of numbers.

**Descriptors** is the two decoders of `probe.rs` as recursive functions; a
result is the list of byte ranges read.

**ProtoInputs** has no counterpart in the code. It walks commands, payloads and
bytes, so that TLC evaluates the definitions of the three modules on each. A
payload doubles as a descriptor, a byte as the length of a reply.

**Sensor** is the environment, and external: the firmware is known only through
the code that talks to it and `docs/PROTOCOL.md`. A query is answered, answered
with no bytes (legal, proto.rs:98) or cut to one byte. Identify and enroll
block until a touch, which matches some stored template, none, or is misplaced.
`finger_info` ignores its index when `SlotAware` is FALSE, as PROTOCOL.md
section 2 observed on 04f3:0c00: it returns the record of the last match, and
`40 ff` when there was none. (PROTOCOL.md says "since the device was opened";
its own captures were made by another process than the one that had identified,
so the model keeps the record until power is lost.) Nothing obliges the sensor
to answer. The fields `cmd` and `arg` of a reply and `auth` of a request are
history: no definition that models code looks at them.

**Driver** is `device.rs` under its most general client: any number of
processes open, call whatever the types let them call, drop, are killed.

| Code | Model |
|---|---|
| `ElanMoc2::open` that succeeds; fails | `Open`; no step |
| `Drop` | `Close` |
| entering a `transceive*` | `StartCall`, with the calls in `Callable` |
| `gate_check`, `frame(..)` returning `None` | `Refuse` |
| `write_bulk`, the early return at `in_len == 0` | `Send`; `SendFails` when the claim is gone or the endpoint stays full |
| `read_bulk` and the checks after it | `Receive`, with `Decoded` the result |
| the loop of `transceive_retrying` | `Retry`, which goes back to the gate |
| `read_bulk` timing out or failing | `RecvFails` |
| a signal | `Interrupt`: the kernel drops the claim, no USB traffic |
| unplug, reset | `Replug`: device state lost, templates kept, handles dead |

`abandoned` is history: how many requests since power-up were given up by a
process that held the interface and was waiting for their reply.

**ElanCtl** is `elanctl.rs`. A subcommand is a function from (stage, last
result) to the next stage; `Continue` runs it and starts the next call, or drops
the handle. It reuses every action of Driver. `info` and `dump` carry on after
an error in a slot, as the code does; `identify` aborts on an error and ignores
what the abort returns; a short reply to identify ends the command without an
abort.

**Probe** is `probe.rs` beside the clients of Driver: a process claims the
interface (`ProbeClaim`; refused, it ends), takes at most one packet from each
IN endpoint in descriptor order (`ProbeListen`; 300 ms without a packet, or a
dead handle, and it goes on), releases or dies (`ProbeEnd`). `listen` is its
place. Meanwhile it makes no library call (`Clients`). Descriptor reads are on
the control endpoint and change nothing modelled. 0x81 and 0x82 carry nothing.

**TemplateStore** is the abstract specification: templates change only by writes
that were asked for, a write is asked for only while somebody's operation calls
for it, and has the effect of its kind and no other. `Driver!ImplementsStore`
takes the writes calls are sending for what is called for;
`Elanmoc2!ImplementsStore` takes the operation in progress (`CalledFor`): an
enrollment calls for commits and for the delete of the template of the finger
just presented, a delete for its own print, a clear for the wipe, verify and
identify for nothing. With the exchange out of step (`abandoned > 0`) an
enrollment may take a stale reply for its finger, and any delete is allowed it;
a wipe never is. The mapping takes the requests on the OUT endpoint for the
writes asked for, so a request that outlives its operation is covered.

**Elanmoc2** is the C driver. libfprint runs one operation at a time, each a
state machine; `at` is the handler that runs next, `sent` the command whose
reply it waits for.

| Code | Model |
|---|---|
| `elanmoc2_delete_print`, and the entry points upstream | `Begin`; data that is not this driver's completes at once |
| `elanmoc2_delete_run_state` (0002:41) | `DeleteSend`, `DeleteCheck` |
| `ENROLL_ATTEMPT_DELETE` (0004:192) | `AttemptDelete` |
| `ENROLL_CHECK_DELETED` (0002:5) | `CheckDeleted` |
| `ENROLL_COMMIT` (0004:225) | `EnrollCommit` |
| `elanmoc2_identify_verify_report` (0003:61) | `Report`, part of `GetFingerInfo`, `IdentifyCheckNum`, `CheckFingerInfo` |
| the comparison with the prints asked for (0004:147) | `Recognised` |
| `fpi_device_*_complete`, `fpi_ssm_mark_completed` | `Complete`; the result reaches the client in `Deliver` |
| a transfer that fails, times out or is cancelled | `TransferFails` |
| death of fprintd; unplug | `Crash`; `Replug` |

The handlers between these are upstream code outside the repository, marked
external. The model allows more than they do where the patches do not tell:
`prepare_cmd` may have no frame at any delete; a reply without a status byte
fails the operation, or is an assertion (`Crash`); an empty count is asked
again without limit. `touched` and `abandoned` are history.

**Install** is the three scripts over the contents of six places: the library,
the backup, the backup older versions left in `/usr/lib`, the SONAME link, the
files no package owns, meson's log. Each command that changes one is an action,
and a script dies between any two (`Dies`); `cp -a` is two steps, because an
interrupted copy leaves a file. One administrator runs one script at a time;
pacman and other packages' ldconfig run between them; `mv` and `meson install`
are one step. ldconfig links to any file with the SONAME. Install starts on a
stock system or on one an older version of `install-local.sh` was run on, with
its backup in `/usr/lib`. `legacy` is history: that state, not yet repaired.

## Runs

Each run takes at most about two minutes. The constants spelled `No...` are
model values. The two Driver runs use the symmetry of the processes
(`ProcSymmetry`); they check safety only. Deadlock is checked except in
`proto_inputs`, where the walk simply ends.

| Run | Question | Instance and why it is enough |
|---|---|---|
| `proto_inputs` | Is each frame the concatenation proto.rs:9 promises, does it carry its own opcode only, is nothing cut short, do versions stay distinct? Does a user-id stay within its reply, does a slot byte name one template, do the decoders stay within the descriptor? | Payloads up to 4 bytes over eight values that include the opcode bytes 4, 17, 25, 153, 255 and the head 9, 33 of a HID record; the limit is reached for every `out_len` but 72. All 256 bytes for `bcd`, reply lengths and ids. Descriptors up to 13 bytes, whole records and cut ones. |
| `driver_exchange` | Does the exchange stay in step, does a call take only its own reply, and does the probe take none? | Two processes that run the probe or the library, a retried query and a blocking identify, kill and unplug anywhere, two attempts. Two processes suffice: only the claimant's exchange and its predecessor's remains interact. |
| `driver_writers` | Can a persistent request reach the wire, or a template change, without a token? Does the library implement TemplateStore? | Persistent commands through the raw and the destructive path, with and without a token, and a retried query beside them; the command without reply queued ahead of ones with a reply. |
| `ctl` | Do the subcommands stay within their stages and the library's types, print the record of the slot they name, write nothing, and end? Does every step bring the end nearer? | All four subcommands, one process, two slots and every subset of them filled (gaps occur), user-id offset 3 and a sensor that honours the index (0c5e), three attempts as in the code. `Spec` is Driver's specification: refinement by the identity mapping. |
| `ctl_session` | Is the match identify prints the finger's, does an answered abort bring the sensor back, and is every request on the device waited for or counted as abandoned? | Two processes on a 0c00 sensor, up to two abandoned requests; two requests in the OUT endpoint, so that an abort finds room behind the identify it follows. |
| `moc` | Does every machine end with its operation, once? Are results true of the sensor, is no template touched that was not asked for? | Every kind of operation, an invalid delete included, in any order on two slots filled in every way; two enroll stages, so that one is not the last; one lost reply, after which the exchange is out of step; crash and unplug anywhere. |
| `install` | Does an install last, can it be rolled back, does an uninstall leave nothing in pacman's way? | The whole state space: any number of installs, repairs, uninstalls, rollbacks and upgrades; two files beside library and link, so that one can be done and one not. |

`MatchedRecord`, `InfoTruthful`, `DeleteTruthful`, `VerifyTruthful` and
`CountNeverWraps` speak of exchanges in step (`abandoned = 0`); what happens
outside is the subject of `ctl_stale` below, and holds of the C driver too: no
reply says what it answers.

Five runs end in a counterexample on purpose: the documentation, a comment or a
message says one thing, the code does another (listed under `findings`).

| Run | Statement | What the trace shows |
|---|---|---|
| `ctl_ctrl_c` | elanctl.rs:31 "Ctrl-C aborts" | no handler: the process dies, no abort is sent, the sensor keeps waiting |
| `ctl_stale` | elanctl.rs:30 "Wait for a finger and match it" | after an interrupted identify the next one reads the earlier touch |
| `ctl_info_0c00` | device.rs:306 "user-id for one slot" | on 0c00 every listed slot shows the last matched record |
| `moc_collision` | docs/PROTOCOL.md:221 "`ff 10` is never issued during enrollment" | after the last stage it is, and `ENROLL_COMMIT` reads its reply |
| `install_backup` | install-local.sh:29 "keeping the original backup" | an install stopped while copying leaves a partial file; the next takes it for the backup and overwrites the library |

Smaller differences have no run. identify returns after 10 s without a touch
(device.rs:229), where elanctl.rs:31 says it blocks until one. Status bytes
0x41-0x44, 0xfb and 0xfe are retryable (proto.rs:271) although their high nibble
is set (proto.rs:218). After an abandoned request the probe does take the packet
that answers it, which "device state unmodified" (probe.rs:197) does not say. The
comment on `Error::Short` (device.rs:25) speaks of the declared `in_len`, while
the code compares with 2 or with the user-id offset. `MAX_RETRIES` (proto.rs:35,
"retries") is the number of attempts. `info` goes on to the next slot after a
timeout and prints the late record under that slot (elanctl.rs:130). The
pre-flight (install-local.sh:23) and fix-symlink.sh:29 pipe into `grep -q` under
`pipefail`, against the warning at install-local.sh:52. A repair stopped after
its `mv` leaves the link dangling, and an uninstall with an old backup still in
`/usr/lib` leaves a link to it, which pacman then refuses to write over, unless
it owns the link; `UninstallClears` is about the moment before its ldconfig.

### Bounds

`OutDepth`, `InDepth`: requests and replies the endpoints hold (1 or 2, and 1);
a full OUT endpoint is reached, which is what makes a write time out.
`AbandonCap`: where the history counter stops; `MaxAbandoned`: how many replies
the C driver gives up before power is cycled. `ClientCalls`, `Subcommands`,
`Requested`: what is run. `EnrollTimes`: 2 of the real 8. `MaxPrints`: 1 or 2 of
the real 10. `MaxRetries`: 2, or the real 3 in `ctl`. `Extras`: files without an
owner. None of them is a limit of the theorems, except that `AbortWorks` asks for an
`OutDepth` and an `AbandonCap` above 1.

### Fairness

`Driver!Fairness` and `CtlFairness` assume only that a process inside a call, or
between two calls, is scheduled. Both bulk transfers carry a timeout
(device.rs:9-11), so one of a call's steps is enabled at every moment: the
read or write completes, or it times out. Nothing is assumed of the sensor,
of a finger, of another process or of the user. No liveness is claimed of the
C driver, whose retry loops a sensor may keep going for ever, nor of the
scripts, which may die.

### Variants of definitions

Definitions commented as bugs (`OpenUnclaimed`, `RecvWaits`,
`FitsWithoutHeader`...) belong to no specification. Each is a plausible mistake
in the code it sits next to; `PROJECT.json` (`mutants`) names the property that
fails once it takes the place of the definition after it.

## Theorems

Proved for any number of processes, any calls, retries, queue depths and slots
up to 16, from the named assumptions in the modules (types of the constants,
and that the `No...` values are none of the values they stand beside;
`CliCallsAssumption`: the client calls allowed include those of elanctl).

* `ProtoProofs!FramesUnambiguous`, `FramesLaidOut`, `PayloadsKept`,
  `BcdsInjective`: for payloads of any length over any bytes. No two opcodes of
  the table are prefixes of one another, and a payload is placed behind the
  opcode; the layout is shown byte by byte, then for the sequence.
* `ProtoProofs!UserIdsInBounds`, `SlotBytesDistinct`: linear arithmetic over any
  reply length and slot; the slot byte by `% 16`.
* `DescriptorProofs!HidWalkInRange`, `ReportCutInPieces`: both decoders walk
  forward, so what they yield is shown from the right end of the descriptor
  leftwards (`FromTheEnd`, from the least element of a set of naturals). The two
  are cases of one walk, given by where it ends, what it puts out and where it
  goes on: it is well defined (`WalkExists`) and its records are linked, each by
  the place the one before it leads to (`WalkChained`). What is left for each
  decoder is arithmetic on one step.
* `DriverProofs!TypeCorrect`: one step per action; `ReadTyped` and
  `StepOutcome` say what any step inside a call leaves behind.
* `DriverProofs!GateHolds`, `WritesAuthorised`: the inductive invariant adds to
  `NoUnauthorisedRequest` that a process inside `transceive_destructive` still
  holds its token (`TokenHeld`): without it, a destructive call whose token was
  lost could send an unauthorised request. Writes then follow, since only
  commit, delete and wipe at the head of the queue change the store.
* `DriverProofs!StoreImplemented`: `Send` is the step that asks, and asks for what
  its call names (`SendAsks`); a sensor step carries out the head of the queue
  (`SensorProofs!SensorCarries`, shared with the C driver); losing power loses
  what was asked.
* `DriverProofs!ExchangeInSync`, `RepliesAnswerCalls`: `InSync` says where the
  one request in flight is. It is not inductive alone: `Expecting` adds that
  no process waits for a reply to `wipe_sensor`, which would never come and would
  leave the exchange waiting for nothing. Sensor steps move the request from queue to finger to endpoint; a
  taken reply empties the system; a timeout or a kill makes `abandoned` positive
  and the invariant says nothing further until power is cycled. That it says
  nothing further is not a weakness of the proof: `ctl_stale` is the
  counterexample.
* `ProbeProofs!ProbeTypeCorrect`, `ProbeKeepsSync`, `ProbeIsPassive`: the same
  invariant holds with probes beside the clients. A process that runs the probe
  is `closed` to the library, so while it holds the claim no call waits and, in
  step, the endpoints are drained: there is nothing for it to take.
  `RepliesKeptBesideProbes`, `GateHoldsBesideProbes`, `ProbeKeepsStore`: beside
  probes the clients keep what they are guaranteed without them, since a probe
  step touches neither queue, tokens nor templates.
* `ElanCtlProofs!CtlTypeCorrect`, `CtlImplementsLibrary`: every step of a
  subcommand is a step of the general client, so all of the above holds of
  elanctl. The case that needs work is `Continue`: the next stage's call must be
  one the library's types allow.
* `ElanCtlProofs!CliNeverWrites`: elanctl mints no token, hence no request on
  the wire is authorised (`Unarmed`), hence by `WritesAuthorised`' lemma no step
  changes a template.
* `ElanCtlProofs!NothingPilesUp`: `RequestsCounted` is inductive with
  `CallsOfStages`, which says that a call in progress is the one its stage makes,
  hence never `wipe_sensor`. A request adds one to what is on the device when
  `Send` makes its process wait for it; a sensor step adds nothing
  (`SensorProofs!SensorLoad`); what stops waiting without a reply is counted.
* `ElanCtlProofs!IdentifyPrintsMatch`, `InfoPrintsSlot`: `TruthInv` says, of an
  exchange in step, that a match on the endpoint names the last matched slot, a
  record the slot asked for (or the last matched one), and that what a process
  has in hand is the answer to the call of its stage. It rests on `InSync` and on
  `MocInv`: only identify and enroll wait for a finger, so nothing changes the
  last match while a record is on its way. `InfoPrintsSlot` assumes `SlotAware`;
  without it the property is false, run `ctl_info_0c00`.
* `ElanCtlProofs!AbortWorks`: `AbortInv` follows a failed identify through its
  abort while at most one request is abandoned: what the identify left, the abort
  queued behind it or answered, then nothing. It assumes that the OUT endpoint
  holds two requests and that the history counter tells one abandoned request
  from two. With room for one the property is false of the model: after an
  interrupted run the count of the next one takes the earlier late reply, its own
  request still fills the endpoint, the identify fails unsent, and the abort takes
  the late answer to the count for its own. How many requests the endpoint takes
  is the firmware's affair; the code neither knows nor checks.
* `ElanCtlProofs!StepsNearEnd`: needs no invariant but the types. `StageRank` is
  how many stages are left, `CallRank` how many transfers; every step of a
  process lowers the pair. It is what `CommandEnds` rests on besides fairness.

* `Elanmoc2Proofs!MocTypeCorrect`, `MachinesEnd`: types are inductive only with
  `Placed` (a machine waits for the command its state reads the reply of) and
  `StagesLeft` (a stage is asked for only while one is missing); otherwise a
  late stage could be counted beyond the last.
* `Elanmoc2Proofs!CountsInRange`, `DeletesTruthful`, `VerifiesTruthful`: the
  invariant is `Flight`, where the one request in flight is (behind wipes in the
  queue, at the finger, answered, or nowhere), with `Held`, what the driver
  knows: a reply belongs to the command its handler reads, a count is of
  templates, a good delete reply means that the slot is empty, `print_index` is
  the slot of the finger just presented. Each handler either sends
  (`SendInStep`) or ends, each sensor step moves the request on, each loss
  makes `abandoned` positive.
* `Elanmoc2Proofs!ErrorsOwned`: by itself, over the steps that report.
* `Elanmoc2Proofs!StoreKept`: the refinement, from the same invariant: the
  delete of an enrollment names `print_index`, which in step is the finger's.
* `InstallProofs`: a whole backup of ours implies that the distribution's is
  still in `/usr/lib` (`BackupInv`), ours is in place from meson's step on and a
  rival of the link exists only before a repair (`LinkInv`), and the done lines
  of the log are cleared or pacman's (`RemoveInv`); `RollbackPossible` needs the
  first, `InstallHolds` the second, `UninstallClears` the third.

Only model-checked: `CallReturns` and `CommandEnds`, since liveness under
fairness is out of the prover's reach. The safety half of `CommandEnds` is
proved: by `StepsNearEnd` no step gets a subcommand nowhere. That a process
inside a call always has a step to take, and takes it, is what the run adds.
Every other property of a passing run is stated by a theorem.

## Not modelled

Wording and printing; `fp-probe.c` (opens, prints, closes); USB enumeration
(`find`) and kernel-driver detaching in `open`; the choice among several
sensors. In the C driver: what the patches do not show and no trace tells, in
particular `elanmoc2_cancel` beyond the failed transfer it causes, and
`ENROLL_WIPE_SENSOR`, which nothing reaches once 0002 is applied; fprintd, which
decides what is asked for. Of the scripts: the checks they print at the end;
versions of the distribution's library; two scripts run at once. `PKGBUILD` is a
build recipe. The hardware test scripts count lines of a log whose wording is
not in the repository, and the time systemd-coredump takes. Captures under
`logs/` are data.

## Next

1. The late reply `info` prints under the next slot (elanctl.rs:130) as a run.
2. Versions of the distribution's library in Install.

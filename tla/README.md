# A TLA+ model of ns3-mmwave: RLC, dual connectivity, visualizer

The repository is a fork of ns-3 3.29 with the NYU/Padova mmWave extensions
(`src/ns3-mmwave-3.0`), kept by a course project that adds one simulation
script (`scratch/tcp-stream`).  Its own protocol logic, as opposed to upstream
ns-3, is the LTE and mmWave stack: `src/lte` with the dual-connectivity changes
and `src/mmwave`.  Most of its Python is generated bindings and build scripts;
the one program among it that runs beside the simulator is the PyViz visualizer
(`src/visualizer`), whose GUI thread and simulator thread share the simulator.
This directory specifies parts of both in TLA+, checks them with TLC and proves
some of their properties with TLAPS.

Paths below are relative to `src/ns3-mmwave-3.0/src/lte/model` unless they say
otherwise; `core.py` is `src/visualizer/visualizer/core.py` and `pyviz.cc` is
`src/visualizer/model/pyviz.cc`.

## 1. Inventory

ns-3 is a discrete-event simulator: a handler runs to its end before the next
event, so the steps of the models are whole handlers, and what interleaves is
handlers of different entities, message arrivals and timers.  The visualizer is
the exception: it has two threads, and its models have finer steps.

| component | state | operations | hard behaviour | what makes it correct |
|---|---|---|---|---|
| RLC AM entity (`lte-rlc-am.cc`) | VT(A), VT(S), transmitted and to-be-retransmitted buffers, partial retransmissions, VR(R), VR(X), VR(MS), VR(H), reception buffer, four timers | PDCP PDU in, transmission opportunity, data PDU in, STATUS PDU in, t-PollRetransmit, t-Reordering, t-StatusProhibit, report timer | loss, overtaking, segments, SN wraparound, polling that must not stop | PDCP PDUs arrive once, in order, all of them |
| RLC AM header (`lte-rlc-am-header.cc`) | field lists | push NACK, serialize, deserialize | bits across octets, room in the opportunity | read what was written, fit |
| sequence numbers (`lte-rlc-sequence-number.h`) | value, modulus base | `++ + - < ...` | negative remainders | compares distances |
| RLC UM, low-latency RLC UM (`lte-rlc-um*.cc`) | queue, VR(UR), VR(UX), VR(UH), reassembly state | as AM, without retransmission | loss, reassembly after loss | what arrives is whole and in order |
| PDCP and dual-connectivity PDCP (`lte-pdcp.cc`, `mc-enb-pdcp.cc`, `mc-ue-pdcp.cc`) | SNs, which leg is used | PDU in/out, `SwitchConnection` | two legs, no reordering | nothing lost or reordered by a switch |
| eNB RRC (`lte-enb-rrc.cc`) | `UeManager` state machine, timers, per-IMSI coordinator maps | RRC, X2, S1 messages, timeouts, SINR updates | handover messages racing with timers, scheduled handovers | every UE ends in exactly one cell, no assertion fails |
| UE RRC (`lte-ue-rrc.cc`) | state machine, measurements | RRC messages, timers | crossing messages | as above |
| X2 (`epc-x2.cc`) | sockets, interfaces | one message per procedure | ordering | messages reach the right handler |
| EPC (`epc-mme*.cc`, `epc-enb-application.cc`, `epc-sgw-pgw-application.cc`, `epc-ue-nas.cc`) | bearers, TEIDs | path switch, attach | path switch against data in flight | one path per bearer |
| mmWave MAC (`src/mmwave/model/mmwave-{enb,ue}-mac.cc`) | buffer reports, HARQ packet buffers | DCI, opportunities | stale buffer reports | every reported byte gets its opportunity |
| mmWave schedulers (`mmwave-flex-tti-*.cc`) | HARQ state, per-UE queues | schedule a subframe | HARQ process reuse | symbols not given twice |
| mmWave PHY/HARQ (`mmwave-harq-phy.cc`, `mmwave-*-phy.cc`) | soft-combining history | receive, decide | HARQ history reset | numerical |
| PyViz visualizer (`core.py`, `pyviz.cc`) | simulated time and its target, go/quit flags, pause messages, samples, update timer, play button | run a period, update the view, play, pause, change speed, quit | a main loop inside a handler, a lock, an event that is set and cleared by two threads, timers that outlive their identity | the simulator stays within a period of the view, no pause is lost, nobody waits for ever |
| generated bindings, `test.py`, `wutils.py` | none | declare classes, start programs | | generated or upstream |
| upstream ns-3 (simulator, internet, wifi, upstream LTE MAC/PHY) | | | | not the repository's own |
| `scratch/tcp-stream` | none | configures a WiFi network and a DASH client | | |

The hazards found while reading, each at its line and with the properties that
guard it, are in `PROJECT.json`.  A hazard without a property has a note.

How the modelled components meet: `LteRlcAm` and `LteRlcUm` fill and take apart
data fields with the same code (`LteRlcFraming`); `LteRlcAm` owns `SequenceNumber10` values and
builds and reads `LteRlcAmHeader`s; PDCP hands SDUs down through
`DoTransmitPdcpPdu` and receives them through `ReassembleAndDeliver`; the MAC
calls `DoNotifyTxOpportunity` and `DoReceivePdu`.  Everything else is a timer.

The coordinator (LTE cell), the UE contexts (mmWave cells) and the two RRC entities
of the UE talk over X2 (`McX2`) and over RRC messages; `McConnection` composes
them.  The two threads of the visualizer share `SimulationThread`'s lock, event
and fields.

## 2. Modules

| module | models | state and actions against the code |
|---|---|---|
| `SequenceNumber10` | the counter modulo `Modulus` and its comparisons | `Rel(v, base)` is the quantity `operator>` compares |
| `SequenceNumber10Code` | the same in the arithmetic of C++ | operators only: `CppRemainder`, the `uint16_t` conversion of the constructor; the modulus base is an operand |
| `LteRlcAmTx` | transmitting side of `LteRlcAm` | variables as members without `m_`; `TransmitNew`, `RetransmitRest`, `RetransmitSegment`, `RetransmitNothing` are the paths of `DoNotifyTxOpportunity`; `ReceiveStatus`, `ExpirePollRetransmitTimer` |
| `LteRlcAmRx` | receiving side | `PlacePdu` and `DiscardPdu` are the two outcomes of `DoReceivePdu`; `ExpireReorderingTimer`, `TransmitStatus`, `ExpireStatusProhibitTimer` |
| `LteRlcAm` | one direction of a bearer: a sender, a receiver, the MAC between them | actions named as the SAP calls |
| `LteRlcAmService` | what the bearer promises | a bounded queue, PDUs handed over in order, once, in the end unless the sender is `stalled` (finding 12) |
| `LteRlcAmHeader` | the STATUS PDU octet by octet | one behaviour is the construction of one STATUS PDU |
| `LteRlcFraming` | what RLC UM and RLC AM share: filling a data field from the queue, `ReassembleAndDeliver` | operators only; `SkipsUnexpectedRest` is the one case in which the two copies of the code differ |
| `LteRlcAmSdus` | the SDUs of an AM bearer, on top of the channel of `LteRlcAmService` | `DoTransmitPdcpPdu`, `TransmitNew`, `Receive` |
| `LteRlcUm` | one direction of a UM bearer: a sender, a receiver, the MAC between them | actions named as the SAP calls; `DiscardPdu` and `PlacePdu` are the two outcomes of `DoReceivePdu` |
| `McX2` | the X2 control plane between cells | a FIFO for each direction of each interface; nothing between interfaces |
| `MmWaveCoordinator` | the LTE cell of a dual connected UE | the per-IMSI maps as variables; `FallBackToLte`, `ConnectToMmWave`, `ReturnToMmWave`, `HandOverNow`, `TttBasedHandover`, `KeepServing` are the branches of `TriggerUeAssociationUpdate` and the two functions it calls; `PerformHandover`; one action per message |
| `MmWaveUeContext` | the contexts of the UE at the mmWave cells | one action per X2 handler of a `UeManager` with `m_isMc`, and the timers |
| `McConnection` | the UE, and the composition of all four | the handlers of `LteUeRrc`; `Next` |
| `PyViz` | the GUI thread and the simulator thread | `SimCheck` .. `SimRun` are the statements of `SimulationThread.run`; `UpdateViewTimeout`, `SimulatorBusy`, `NothingPending`, `UpdateView`, `UpdateViewEnds` those of `update_view_timeout`; the user's actions |
| `*Proofs` | theorems about the module they are named after (section 4); `LteRlcAmProofs` also about `LteRlcAmTx` and `LteRlcAmRx`; `LteRlcArithmeticProofs` is about `LteRlcAmHeader` and `SequenceNumber10Code`; `LteRlcFramingProofs` holds the lemmas that `LteRlcAmSdusProofs` and `LteRlcUmProofs` share | |

The configurations instantiate the modules directly; their values are numbers and small
sets, so no separate module with definitions is needed.  Symmetry is not used: the cells
are ordered (the first of the best is taken), and so are the identities of timers.

### Abstractions of the RLC AM model

* An entity has both sides; the model has one direction, so the sender never
  has STATUS PDUs to send and the receiver never has data.  The code sends the
  STATUS PDU first when both are due, which here is just one of the
  interleavings.  Only component carrier 0 carries STATUS PDUs, and the model
  has only that one.
* The payload of a PDU is its number in the order of construction and the length
  of its data field.  How SDUs fill it (length indicators, the 2047-byte rule,
  framing information) is abstracted to a nondeterministic number of bytes taken
  from the queue (`NewLens`), of which the code takes one.  `LteRlcAmSdus` has
  the SDUs and abstracts the window instead; its `PduFits` bounds what `NewLens`
  may choose.
* The header of a data PDU has a constant size `HdrLen`.
* `m_pollPdu` is 1 and nothing sets it, so every new PDU polls;
  `m_pduWithoutPoll` and `m_byteWithoutPoll` are therefore not modelled.
  `m_lastSegSent` is set and reset within one branch, and is not modelled.
* Left out because nothing modelled depends on them: the retransmission counter
  (it is counted and compared, and the only effect is a log line), HARQ process
  ids, the AQM queue (`m_enableAqm`), buffer status reports and their timer, the
  copies kept for lossless handover, traces.
* The receiver keeps of a partial PDU how many bytes it has (`RxEntry`): the code
  keeps the segments and accepts only the one that continues the last.

### Abstractions of the RLC UM model and of the framing

* A piece of an SDU is its SDU, the offset, the length and the status tag.  A
  packet is a sequence of pieces, because `AddAtEnd` joins whatever it is given;
  that only pieces that belong together are joined is a property
  (`IsWhole`), not part of the model.
* `MaxLi` is 2047 in the code and 5 in run `am_sdus`, where both sides of the
  2047-byte rule occur.
* The header of UM is 2 octets plus the length indicators, that of AM 4 octets
  plus the length indicators, as in the code.
* Buffer status reports and traces are left out.

### Abstractions of the dual-connectivity model

* One UE and one bearer, three mmWave cells, `m_interRatHoMode` false.  The UE has
  its LTE connection; the model begins when the coordinator would tell it to
  connect to mmWave.
* SINR is one of a few levels, chosen anew for every cell at every decision.  The
  length of the time to trigger is not modelled: a scheduled handover may be
  performed at any moment, and where the code schedules afresh or not depending on
  the remaining time, both are possible.
* The initial access to a mmWave cell (NAS, random access, RRC set-up) is one step.
* RRC over LTE is a FIFO in each direction; X2 is a FIFO in each direction of each
  interface (UDP on a point-to-point link of its own), so that messages of different
  interfaces overtake each other in every way.
* Contexts are numbered over all cells instead of by RNTI and cell, and are
  never reused.
* The code's assertions on the state of a context are guards of the handlers, and
  `HandlersAccept` says that the guard holds whenever the message is next.
* `m_handoverJoiningTimeout` and `m_handoverLeavingTimeout` are 45 s in this
  repository, a handover some tens of milliseconds: they expire only after a
  *mishap* (a lost command, a lost completion, a failed random access, a refusal).
  `MaxMishaps` bounds those; properties of the undisturbed procedure say
  `mishaps = 0`.
* `m_queuedHandoverRequestCellId` is not a variable: `SetupMeansIdle` shows that no
  request arrives at a context that is HANDOVER_JOINING.

### Abstractions of the visualizer model

* A handler of the GUI is one step unless it waits for the lock or uses the
  simulator without it (`blocked`, `peeking`); `update_view_timeout`, which runs the
  main loop inside, is four steps and a stack (`nested`).  The simulator thread has
  one step per statement that reads or writes what is shared.
* GLib is external: a source is not dispatched while its own callback runs, sources
  of higher priority come first (`PRIORITY_UPDATE_MODEL`), removing a source that
  is gone does nothing.  Identities of sources are reused once nothing refers to
  them; `TimerIds` has one more than are ever in use.
* Simulated time counts periods; a run ends at the target or, when the simulated
  program stops, before.  An event of the simulation pauses at most once in a run.
  `m_stop` is set by `Pause` and read by nobody, so a pause does not end a run.
* A run advances by at least one period: a program that stops exactly where the run
  began, without simulated time moving, is left out.  No property depends on it.
* Samples are one bit: whether a period was run that nobody has fetched.

### The MAC

Data and STATUS PDUs in flight are sets: they are delivered in any order, at
most once, or lost.  That is what HARQ does with several processes and a last
retransmission.  `DataCap` bounds the PDUs in flight (HARQ processes).  Two
assumptions are explicit because they carry weight:

* `Young`: no PDU stays in the MAC while the sender uses `WindowSize` (512)
  further SNs.  A HARQ process lives some tens of milliseconds.
* `StatusCap = 1`: t-StatusProhibit is longer than the life of a STATUS PDU.
  This is *not* guaranteed by the code: the timer is an attribute, 10 ms by default and
  1 ms in `src/mmwave/examples/mmwave-tcp-building-example.cc:290`.  Finding 4 and
  run `stale_nack` are what happens without it; the theorems that do not name the
  assumption hold without it.  With it no STATUS PDU overtakes another, so what
  `segments`, `whole` and `live` check says nothing of stale STATUS PDUs
  (`lte-rlc-am.cc:2123`).

The UM model has the same MAC, each PDU arriving once at most, and states what
it assumes of time as two conditions on sending:

* `Young`, as above.
* `Timely` (when `ReorderingIsPrompt`): the sender does not get `WindowSize` PDUs
  ahead of the oldest gap.  t-Reordering is 10 ms by default
  (`lte-rlc-um.cc:78-80`), shorter than 512 opportunities of one bearer take as
  long as the bearer gets fewer than five or so in each 100 us subframe.  It also
  excludes that `WindowSize` PDUs in a row are lost.  Finding 11 is what
  happens without it.

## 3. Runs

Bounds: `MaxAccepted` bounds the bytes (in `LteRlcUm` and `LteRlcAmSdus` the PDCP
PDUs) accepted in a behaviour and so the number of PDUs; `Modulus` and `WindowSize` are 4/2, 6/3 or 8/4 instead of 1024/512.  With a
window of 2 every SN is used again after four PDUs, so four or five PDUs cover
wraparound (`live`); `whole` has a window of 4, the least in which a PDU can be
acknowledged from the retransmission buffer while a later one is still unanswered
and the window is not full, which finding 12 takes.  `whole` and `live` have
`RetxAlwaysBigEnough`: an opportunity too small for a retransmission (`lte-rlc-am.cc:610`)
occurs in `segments` only.  `SduSizes`, `OppSizes` give one byte per PDU where the size does
not matter, and in `segments` a data field that needs up to two segments next to
opportunities in which not even the header fits.

| run | shows |
|---|---|
| `segments` | re-segmentation under loss and overtaking: `InOrderExactlyOnce` (each payload once, whole, in order), `NothingForgotten` (the sender drops a PDU only when the receiver has it), `SizesExact` (the unsigned byte counters), `TxBuffersOK`, `RxWindowOK`, `HolBuffered`, `TypeOK` |
| `whole` | a window of 4 with whole PDUs: `WindowsNested` (VT(A) <= VR(R) <= VR(H) <= VT(S)), `ReorderingOK`, `VrMsNeverRetreats`, `SilentOnlyIfPollDue` (the sender has a timer, a transmission or a poll to come, but for the case of finding 12) |
| `live` | `AllAcknowledged` and `ImplementsService` under fairness, with five PDUs over four SNs; the latter has that no PDU of an earlier turn is taken for a new one and that everything is delivered.  Both allow the stall of finding 12, which a window of 2 cannot reach: here everything is acknowledged |
| `header` | with the real 10-bit numbers in 16-bit words: `RoundTrip`, `OverrunIsOneOctet`; `OperatorsAgree` and `RebaseKeepsOrder` for the arithmetic on the sequence numbers of the STATUS PDU, at the edges of the number range |
| `um` | `WholeSdusInOrder` (only whole SDUs, in order, none twice), `LossExplained` (an SDU whose PDUs arrived in time is delivered), `WindowOK`, `NothingWaitsUntimed` |
| `am_sdus` | `EverySduInOrder`, `PduFits` over the reliable channel |
| `mc` | dual connectivity: `HandlersAccept` (no handler meets a context in a state it asserts against), `SetupMeansIdle` (one procedure at a time), `ScheduledHandoverIsCurrent` (what a time to trigger was started for still holds when it is over), `ServedByItsContext` (coordinator, cell and UE mean the same context), `ForwardingMeansLeaving`, `DownlinkPath`, `HandoverEnds`, `SecondaryCellIsSetUp`, `TypeOK` |
| `pyviz` | visualizer: `NotAheadOfView`, `PausesConserved`, `PlayingIsTimed`, `TypeOK` with two speeds and updates nested twice |
| `pyviz_live` | `PlayProgress`, `PauseTakesEffect`, `QuitEnds` under fairness |
| `stall`, `mc_outage`, `stale_nack` | violations, section 5: findings 1, 2 and 4 |

`stale_nack` has `StatusCap = 2`, a window of 4 and three PDUs, and STATUS PDUs with room
for two NACKs: a later STATUS PDU can acknowledge what the one before it NACKs.

The UM runs have six SNs and a window of three (the code has `2 * WindowSize =
Modulus` too).  In `um` up to four SDUs are cut into up to twelve PDUs, so that
every SN is used again; opportunities of 3 and 6 bytes cut an SDU of three bytes
into three PDUs or put two SDUs into one.  In `am_sdus` opportunities of 7, 11 and
17 bytes and SDUs of 1, 2 and 6 give data fields of one piece up to four, with
SDUs below and above `MaxLi`.

In `mc`, three cells are enough for a UE to be handed over while messages of the
handover before are under way between the other two, and to come back to a cell
that still has a context of it.  `MaxDecisions = 3` decisions that send something
give a set-up followed by two handovers, or by a fall back, a handover and a
return; `MaxMishaps = 1` lets one thing go wrong anywhere.  Levels 0, 1 and 3 with
a threshold and a difference of 1 are below, at and above each of the thresholds.

In `pyviz`, `MaxTime = 3` gives several periods of either length, and a change of
speed in the middle of one; `MaxNested = 2` is an update inside an update;
`MaxPauses = 1` is enough for a message to be lost or shown twice.  Deadlock is
checked: only a closed visualizer stops (`Closed`).  `pyviz_live` has one speed and no
nesting, for the size of the graph.

`CHECK_DEADLOCK FALSE` is set where a behaviour ends because the bound
`MaxAccepted` is used up, or, in `LteRlcAmHeader`, because the STATUS PDU is made;
in `pyviz_live` it changes nothing that `pyviz` does not check.

### Fairness

`LteTestMac` (`src/lte/test/lte-test-entities.cc`) reschedules its transmission
opportunities for ever in RANDOM_MODE and gives one per report in
AUTOMATIC_MODE, so opportunities are weakly fair.  The simulator executes every
event, so a running timer expires: weak fairness of the three timeouts.  The
losses of the error models are independent draws, so a PDU with a given SN, or a
STATUS PDU, that is sent again and again gets through again and again: strong
fairness of reception, per SN.  Nothing is assumed of acceptance from PDCP and of
losses.

In `McConnection` the simulator's event queue runs everything that is scheduled:
each kind of message, the UE, the timers and a time to trigger are weakly fair, and
mishaps are not.  The coordinator decides every `m_crtPeriod`; that a UE in outage is
told to connect needs that a cell comes out of outage, which is weak fairness of
`ConnectToMmWave` over the choice of SINR.

In `PyViz` both threads run (weak fairness of `SimulatorThread` and `GuiGoesOn`).
The user may do anything, but leaves the main loop idle again and again and long
enough for a timer: strong fairness of `NothingPending` and `TimeoutFires`, because
what the user does disables them meanwhile.  Nothing is assumed of the user
playing, pausing or quitting.

The liveness run of RLC uses whole PDUs.  With segments liveness fails, which is
finding 1; with whole PDUs it fails in one case, finding 12, which `AllAcknowledged`
and the `stalled` of `LteRlcAmService` name.

## 4. Proofs

The theorems about RLC hold for every `Modulus`, every `WindowSize` with
`2 * WindowSize <= Modulus` (the assumption the comparison by distance needs;
1024/512 in the code), every header length, opportunity and SDU size, and any number
of PDUs.  Further assumptions are hypotheses of the theorem that needs them, and
listed here.

**Sequence numbers.**

* `SequenceNumber10Proofs`: how `Rel` changes when the SN or the base moves, and
  that a set of naturals has a least element.  Everything else rests on these lemmas.
* `LteRlcArithmeticProofs!OperatorsAgreeAlways`, `OrderSurvivesRebase`: the operators
  of the class, with the remainder of C++ and the conversion to `uint16_t`, are those of
  `SequenceNumber10`, for every modulus that divides `Width`.  The argument is the
  uniqueness of the remainder (`RemainderUnique`), applied once to `Width` and once to
  `Modulus`.

**The STATUS PDU** (second part of `LteRlcArithmeticProofs`).

* `StatusIsReadBack`, `StatusOverrunsByOne`: for every opportunity, every ACK and any
  number of NACKs, and assuming `Modulus <= 1024`, since the fields have ten bits.  The
  state needs little strengthening (`HeaderInv`: the length is two octets and those of
  the NACKs, and what was written is `Serialize` of the lists).  The work is in
  `DeserializeSerialize`.  The two sides cut differently: `Serialize` writes
  groups of octets, three for two NACKs, and the highest bit of each pair goes into the
  octet *before* it, while `Deserialize` looks at one extension bit after another.
  `FlattenIsJoint` turns the groups into one sequence with an index (by a least
  counterexample, for want of induction), `PairsWritten` says what stands at each index
  (`Written`), `PairRead` that the three octets and the bit before them give the pair
  back, and `CountsNacks` that the extension bits end the list where it ended.

**RLC AM, each side by itself** (first part of `LteRlcAmProofs`).

* `TxSafety`: `TxSpec => [](TxTypeOK /\ TxBuffersOK)`, where
  `TxSpec` receives *any* STATUS PDU, stale or invented.  The invariant is
  inductive with the types.  One step per action; the long one is
  `ReceiveStatus`, where VT(A) moves over acknowledged SNs only.
* `TxCountersExact`: `SizesExact` of the same specification.  The sum of
  a buffer's bytes is a fold over a set, of which the library proves nothing; the lemmas
  on `BytesIn` establish by induction over subsets (in the form of a least
  counterexample) that taking a PDU out or moving it changes the sum by its bytes.
* `VtAForward`: `VtANeverRetreats` of the same specification.  A STATUS PDU takes VT(A)
  over SNs it acknowledges, none of them beyond VT(S) (`AckedRun`), however stale it is.
  No run checks it: with `StatusCap = 1` no STATUS PDU is stale.
* `RxSafety`, `VrMsForward`: the same for the receiving side
  with any data PDU.  `VrMsForward` needs `ReorderingOK` as a strengthening:
  VR(MS) restarts from VR(X) when t-Reordering expires, and does not retreat
  because the SNs between them are complete.

**RLC AM, the bearer** (second part of `LteRlcAmProofs`).

* `TypeSafety`, `BearerSafety`, `BearerReordering`, `BearerCountersExact`,
  `BearerVrMsForward`, `BearerVtAForward`: for every `StatusCap`.  Every step of the composed bearer is a step or a stutter of
  each side (`NextIsTxStep`, `NextIsRxStep`), so the invariants of both hold of it; in
  addition what is in flight is well typed.
* `DeliveryInOrderExactlyOnce`, `SenderForgetsNothing`, `BothWindowsNested`,
  `HeadOfLineBuffered`: the end-to-end properties, from one
  inductive invariant, `DeliveryInv`.  None of them is inductive, because the two sides
  know SNs only and the properties speak of payloads.  `DeliveryInv` gives every SN in
  use the number of its PDU, counted down from VT(S) (`NumberOf`), and adds: the order of
  the four ends of the windows (`PositionsOK`); that both buffers and everything in
  flight hold parts of the PDU of that number (`BufferedOK`, `ReceivedOK`, `FlightOK`);
  that what is unacknowledged is at the sender or, all of it, at the receiver
  (`NothingLost`); and that a STATUS PDU in flight acknowledges only what the receiver
  has and NACKs only what the sender has (`StatusOK`).  Assumed: `StatusCap = 1`
  (section 2); with more the properties are false, finding 4.  Segments are
  included: `RetxAlwaysBigEnough` is not assumed.
* `NobodyWaitsForNothing`: `SilentOnlyIfPollDue`, with `StatusCap = 1` and whole PDUs
  (`RetxAlwaysBigEnough`; with segments it fails, finding 1).  `PollInv` says that
  when the tail of the transmitted PDUs waits for an answer, t-PollRetransmit runs or
  the window is open and a poll is due.  The attempt to prove `NoSilentStall` without the
  exception led to finding 12.
* `ImplementsServiceSafely`: the initial states of the bearer are initial states of
  `LteRlcAmService`, and its steps are steps or stutters of it, under the same
  `StatusCap = 1`.  Its fairness is left to run `live`.

**Framing** (`LteRlcFramingProofs`), what AM and UM share.

* The lengths are sums, which the model writes as folds over sets of indices;
  `AddingUpExists` and `SizeSteps` give a sum its recursion, by a least counterexample
  over the length.  The lemmas on `Fill` say what construction takes: no more than the
  opportunity leaves after the length indicators (`TakenHasRoom`, `FieldFits`), and
  exactly the next octets of the queue (`Filled`, `CutPiecesOK`).

**The SDUs of RLC AM** (`LteRlcAmSdusProofs`).

* `SdusInOrder`, `PduAlwaysFits`: `EverySduInOrder` and `PduFits`, for every set of SDU
  sizes, every set of opportunities and any depth of queues, with no assumption beyond
  those of the modules.  The inductive invariant,
  `SduInv`, measures both ends in octets of the stream of all SDUs ever accepted: the
  first octet still queued and the first octet the receiver lacks (`TxPosition`,
  `RxPosition`), between which the fields in flight lie, each from where the one before
  it ends (`ChannelOK`); and the receiver has delivered the SDUs that end at or before its
  position and keeps exactly the octets since (`ReceiverOK`).  `ReceivesField` takes
  `ReassembleAndDeliver` through one field, for each of the four framing states it can
  arrive in.

**RLC UM** (`LteRlcUmProofs`).

* `UmWindowSound`, `UmNeverWaitsUntimed`: `WindowOK` and `NothingWaitsUntimed`.
  `DoReceivePdu` compares above VR(UH) - UM_Window_Size, which it moves half-way; the
  inductive invariant `UmInv` measures everything below the next SN of the *sender*
  instead, which no step of the receiver moves (`FlightOK`, `PositionsOK`, `WaitingOK`).
  It follows that `ReassembleOutsideWindow` never finds anything and VR(UR) is never
  pulled up by the window.  Assumed: `ReorderingIsPrompt` (section 2; without it
  `WindowOK` fails, finding 11) and `WindowSize > 1` (512 in the code; with a window of
  one SN and a modulus of two, VR(UR) passes VR(UH) - UM_Window_Size).
* `UmWholeSdus`, `UmLossExplained`: `WholeSdusInOrder` and `LossExplained`, under the same
  two assumptions, for every set of SDU sizes and opportunities.  Between the two ends PDUs
  disappear, so a field cannot be required to begin where the one before it ends, as in
  `SduInv`.  `UmSduInv` says instead that there is a history, the data fields of
  *all* the PDUs ever built, which together are the stream of octets up to the
  first one still queued, and that whatever is in flight or in `m_rxBuffer` carries the
  field of its number (`HistoryInv`).  Of every number from `First`, that of VR(UR),
  the PDU is in flight, in the buffer, or its SDUs count as lost; and the reassembly
  stands at `First` (`Stands`): what it has delivered are whole SDUs that end before, what
  it keeps is the beginning of the SDU that is cut there, and what it skipped was lost.
  One action hands over a batch, the PDUs below the new VR(UR): `Ordered` and
  `PassedInTurn` show that `InOrder` puts them in the order of their numbers, and
  `HandedOneByOne` unfolds the fold over them, so that `StandsBatch` can move `Stands`
  from field to field.  `TakesField` and `SkipFields` take `ReassembleAndDeliver` through
  one field, after the field before it or after a gap.  A PDU below VR(UR) that is still
  in flight counts as lost, since it will be discarded.  The history is in no variable, so
  TLC cannot evaluate `UmSduInv`: run `um` checks the two properties.

**Dual connectivity and the visualizer.**

* `McConnectionProofs`: `McInvariant` (`Spec => []McInv`), and from it
  `ScheduledIsCurrent`, `NothingWhileSetUp` and `DownlinkFollows`, for any number of
  cells, decisions and mishaps and any SINR levels and thresholds.
  `ScheduledHandoverIsCurrent` and `SetupMeansIdle` are not inductive: that nothing
  is under way while the flag is set says nothing of how many procedures there are
  when it is not.  `McInv` adds `OneProcedure`, that what is under way is one token at
  one place (an X2 message, an RRC message to or from the UE, a command, the UE
  itself, a completion), `BusyIsInvolved` (a context in the middle of a handover is
  the one the token is about), `BearerFirst` and `Coordinated`, besides the shapes of
  messages.
* `McConnectionProofs!TypeCorrect`: `TypeOK` of `McConnection`.  `TypeInv` says besides that
  every message, command and map names a context that has been made or a cell there is.
  That the best cell *is* a cell needs the `CHOOSE` of `Best` to have something to choose:
  the ties are broken by the order of the cells, and a least counterexample over the sizes
  of sets of cells shows that one of them is better than all others.  Assumed: the SINR
  map of a UE has finitely many cells, at least one (an entry is made by the first report).
* `McConnectionProofs!CourseIsTaken`, and from it `ServedAlways`, `HandlersAlwaysAccept` and
  `ForwardingOnlyWhileLeaving`: `ServedByItsContext`, `HandlersAccept` and
  `ForwardingMeansLeaving`, for any finite set of cells, any SINR and any number of
  decisions.  All three speak of `mishaps = 0`; what a mishap can do to them is in
  section 5 (findings 7 and 8 and the list at its end).  None of them is inductive: that the
  UE is served again at the end of a handover follows from what was known at each step of
  it.  `Course` says, for each place of the token of `OneProcedure`, which context serves
  the UE and in which state, which one it goes to, and what the map of each cell, the
  coordinator and the UE know of both (`TokenCourse`, `RrcCourse`, `ServingCourse`); for
  each message beside the token, a release or a switch to LTE, that the context it is
  about waits for it (`SideCourse`); and that a context that leaves is the one the UE is
  handed over from, or has its release under way (`LeavingCourse`).  The order of
  messages matters in one place: a cell may be sent a release, a switch and the request
  of the next handover while it forwards for a context that has been left, so `InOrder`
  says which of two messages on an interface may be the first: without it the request
  would overtake the release, and the acknowledgement find the tunnel of the bearer
  still forwarded.  Each action has a lemma; most of them take the token one place
  further (`GoesOn`, `PassedOn`), the others keep it where it is (`Kept`).
* `PyVizProofs`: `PyVizInvariant`, and `TypeCorrect`, `NeverAhead`, `NoPauseLost`,
  `PlayingHasTimer`, for every set of periods and timer identities and all bounds.
  The four invariants are inductive together with `TakenIsShownNext` (messages are in
  hand only between the update of the view and its end).

**Only model-checked.**

* Liveness everywhere, and the fairness of `ImplementsService`: liveness under
  fairness and ENABLED are out of the prover's reach.
* The three runs that end in a violation (section 5), which state what does not hold.

## 5. Findings

The numbers are those the rest of this file refers to.  With a run:

* **1. Stall after a lost last segment** (`stall`, `lte-rlc-am.cc:473`).  A
   retransmission in segments polls on the first segment only, the STATUS PDU
   stops t-PollRetransmit, and when the last segment is lost nothing is left
   that would act, although the comment at line 431 waits for "ACK or reorder
   timer".
* **2. A UE in outage at its first connection stays on LTE** (`mc_outage`,
   `lte-enb-rrc.cc:4074`).  With THRESHOLD the branch that would "perform initial
   access to mmWave eNB, since for the first time one mmWave eNB is not in outage!"
   asks for `m_mmWaveCellSetupCompleted`, which that access would set.
* **4. NACK of a PDU no longer buffered** (`stale_nack`, `lte-rlc-am.cc:2153`).
   `NS_ASSERT (m_retxBuffer.at (seqNumberValue).m_pdu != 0)` fails when STATUS PDUs
   overtake each other: the first NACKs SNs 0 and 1, PDU 1 arrives, the second NACKs 0
   only, arrives first and has PDU 1 dropped, and then the first NACKs it.  Worse follows
   when the stale STATUS PDU is a window old: an ACK_SN below VT(A) compares as far ahead
   (line 2123) and acknowledges everything in flight.  With the constants of
   `LteRlcAmLive.cfg`, `StatusCap = 2` and `MaxAccepted = 6`, `NothingForgotten`,
   `WindowsNested`, `HolBuffered` and `SilentOnlyIfPollDue` fail too, and with `MaxAccepted = 8` `InOrderExactlyOnce`: the
   receiver delivers a later PDU with the SN of one that was given up.  `StatusCap = 2`
   stands for a STATUS PDU that lives longer than t-StatusProhibit.

Without a run of their own.  The definition named is in the module named, and TLC
finds it violated when it is made the only INVARIANT of a configuration with the
constants given:

* **3. A whole PDU meets a partial one** (`LteRlcAm!WholePduCompletes`,
   `lte-rlc-am.cc:1914`; `LteRlcAmWhole.cfg` with a window of 2 over 4 SNs,
   `OppSizes = {3, 4}`, `SduSizes = {2}`, `MaxTxBufferSize = 4`,
   `RetxAlwaysBigEnough = FALSE`).  The comment at 1889-1892 places it and drops the
   duplicate bytes; the code has no branch for it.
* **5. STATUS PDU one octet too long** (`LteRlcAmHeader!StatusFits`,
   `lte-rlc-am-header.cc:223`, `LteRlcAmHeader.cfg`).  It is never longer than that
   (`OverrunIsOneOctet`).
* **6. VR(UR) stops at SN 0** (`LteRlcUm!UrIsMissing`, `lte-rlc-um.cc:557`; `LteRlcUm.cfg`
   with `OppSizes = {3}`, `SduSizes = {1}`, `MaxTxBufferSize = 2`, `MaxAccepted = 9`).  The
   loop that looks for the next missing SN counts past 1023, where nothing is
   buffered, and the remainder is taken afterwards: SN 0 becomes VR(UR) although it
   was received.  The PDU waits for t-Reordering; nothing is lost (`LossExplained`).
* **7. A failed handover is never reported** (`McConnection!ProcedureCodeSupported`,
   `epc-x2.cc:571`, `McConnection.cfg`).  `HandoverJoiningTimeout` means to "notify the LTE eNB (coordinator) of the failure"
   (`lte-enb-rrc.cc:4537`) by a message for which `RecvFromX2cSocket` has no branch but
   `NS_ASSERT_MSG (false, "ProcedureCode NOT SUPPORTED!!!")`.  Without assertions the flag
   of the set-up stays false, and the UE is never handed over again.
* **8. A refusal after a fall back** (`McConnection!RefusalIsFromTheTarget`,
   `lte-enb-rrc.cc:2089`, `McConnection.cfg`).  A fall back to LTE while a handover is
   being prepared overwrites `m_targetCellId`, and the refusal that then arrives fails
   `NS_ASSERT (cellId == m_targetCellId)` (line 1288).
* **9. Samples of a period are lost** (`PyViz!EveryPeriodSampled`, `core.py:1434`,
   `PyViz.cfg`).  The signal is "emitted after every simulation period" (line 711), but
   `SimulatorRunUntil` clears the samples (`pyviz.cc:293`) and may run before
   `update_model` has fetched those of the period before.
* **10. The simulator without its lock** (`PyViz!SimulatorNotShared`, `core.py:1640`,
   `PyViz.cfg`).  "NS 3 is not thread safe, so it could cause serious problems" (line
   1490), but the handlers of `populate-node-menu` (`plugins/olsr.py:121`) and
   `autoscale_view` do not take the lock.
* **11. PDUs left outside the reordering window** (`LteRlcUm!NothingLeftOutside`,
   `lte-rlc-um.cc:1123`; the constants of finding 6 with `ReorderingIsPrompt = FALSE`).
   "Reassemble RLC SDUs from any UMD PDUs with SN that falls outside of the reordering
   window" (line 516), but `ReassembleOutsideWindow` walks the buffer by the value of the
   SN and stops at the first PDU inside the window, so when the window spans SN 0 the PDUs
   that fell out of it are not reached.  It takes a gap that stays open for `WindowSize`
   PDUs; t-Reordering is an attribute without bounds.
   `WindowOK` fails too.  In run `um`, where gaps are given up in time, nothing ever falls
   out of the window.
* **12. A due poll without a PDU** (`LteRlcAm!NoSilentStall`, `lte-rlc-am.cc:2828`;
   `LteRlcAmWhole.cfg`).  t-PollRetransmit expires while a PDU waits for its
   retransmission and the window is open: `ExpirePollRetransmitTimer` moves nothing and
   does not start the timer again, it leaves the poll to the next PDU
   (`m_pollRetransmitTimerJustExpired`).  If a STATUS PDU on its way acknowledges the
   waiting PDU first, there is no next PDU; a later PDU, sent and lost, stays in the
   txedBuffer for ever unless PDCP sends something more.  It takes whole PDUs only, and a
   window of at least 4.  `PollWithoutPdu` is that state; `SilentOnlyIfPollDue` and
   `NobodyWaitsForNothing` say that it is the only one of its kind.

Read in the code, not shown by TLC:

* `lte-design.rst:1739-1742` says that RLC AM does not re-segment a PDU that waits
  for its retransmission.  It does (`lte-rlc-am.cc:542-671`), and run `segments` is
  about that.
* After a fall back and a handover the downlink is switched back to mmWave
  (`lte-enb-rrc.cc:1944`), the uplink of the UE is not (`lte-ue-rrc.cc:2040` only
  traces), until the next switch.
* A preparation failure never reaches the coordinator, and `m_rlcRequestVector` was
  cleared (line 700): a second attempt would carry no RLC.
* A context that completes after `HandoverJoiningTimeout` is removed 300 ms later
  although it is connected (line 4551); `RemoveUe` leaves it in `m_imsiRntiMap`; the
  forwarding entry stays after `HandoverLeavingTimeout`.
* `m_stop` of `PyViz` is set by `Pause` and read by nobody (`pyviz.cc:256`).

## 6. Not modelled, and why

* PDCP data: which leg is used is modelled (`downlinkMmWave`, `uplinkMmWave`), what a
  switch does to PDUs in flight is not.  EPC: planned, section 7.
* In RRC and X2: the LTE connection, the hard handover between LTE and mmWave
  (`m_interRatHoMode`), carrier aggregation, measurement reports, several bearers or
  UEs, user data over X2.
* mmWave MAC: only as the environment stated in section 2.  What its stale buffer
  reports do to RLC is planned.
* Low-latency RLC UM: the same reassembly as UM with other reports.
* Schedulers, PHY, error models: numerical.  What the RLC models use of them is
  that PDUs are lost and overtake each other.
* In the visualizer: canvas, layout, dialogs and the tables of the plugins, which
  draw what the models above make available.
* Generated Python bindings (`src/*/bindings/modulegen__*.py`) and the scripts that
  build and test: declarations without state.  They are nearly all of the Python of
  the repository (more than 800 000 lines); the protocol logic is C++, so the share
  of Python lines this directory models is very small and cannot become large.
* ns-3 itself, the other upstream modules and the scripts of `scratch/`: not this
  repository's protocol logic.
* Within RLC: buffer status reports, AQM, the retransmission counter (compared,
  but nothing happens when it is reached), lossless-handover buffers, traces.

## 7. Plan

1. **Dual-connectivity PDCP** (`McPdcp`): `McEnbPdcp` and `McUePdcp` over two
   bearers, each of them `LteRlcAmService`; `SwitchConnection` on both sides, driven by
   `McConnection`.  Abstract specification: one ordered channel, and precisely what a
   switch can reorder.
2. **MAC** (`MmWaveMac`): opportunities from buffer reports, composed with
   `LteRlcAm`, for the hazards at `lte-rlc-am.cc:2808` and `mmwave-ue-mac.cc:764`;
   scheduler HARQ bookkeeping.
3. **EPC path switch** and the hard handover mode, composed with `MmWaveUeContext`.

Every invariant of the passing runs is stated by a theorem; liveness and ENABLED stay
with TLC.

# NR sidelink mode 2 with opportunistic retransmissions: TLA+ models and proofs

The repository simulates C-V2X mode 2 in ns-3 and adds two distributed schemes
(O-Re and D-Re) that choose when a vehicle may transmit.  The parts with control
state of their own are the sidelink stack of one UE under `ns3Code/src/nr` and
`ns3Code/src/lte` (RLC queue, MAC with its semi-persistent grants, HARQ entity, sensing,
scheduler, receiving PHY) and the controllers in `ns3Code/scratch`, with which every
UE exchanges what it sensed for what it shall do.  This directory models them, checks
the models with TLC and proves their main safety properties with TLAPS.

Paths below are relative to `ns3Code/src` unless they say otherwise; `run.py` is
`ns3Code/scratch/O-Re_experiments/run.py`.

## 1. Inventory

| Component | State it keeps | Operations |
|---|---|---|
| RLC UM transmit side, `lte/model/lte-rlc-um.cc` | `m_txBuffer`, `m_rbsTimer` | `DoTransmitNrSlPdcpPdu`, `DoNotifyNrSlTxOpportunity`, `ExpireNrSlRbsTimer`, `DoReportNrSlBufferStatus` |
| UE MAC transmit side, `nr/model/nr-ue-mac.cc` | `m_grantInfo` per destination (counters, allocations, HARQ id), `m_slTxPool`, `m_reselCounter`, `m_cResel` | `DoSlotIndication`, `DoNrSlSlotIndication`, `GetNrSlTxOpportunities`, `FilterTxOpportunities`, `DoSchedUeNrSlConfigInd`, `CreateGrantInfo`, `DoTransmitNrSlRlcPdu`, `DoReportNrSlBufferStatus` |
| HARQ entity, `nr/model/nr-sl-ue-mac-harq.cc` | FIFO of ids, packet buffer | `InitHarqBuffer`, `AssignNrSlHarqProcessId`, `AddPacket`, `GetPacketBurst`, `RecvNrSlHarqFeedback` |
| Resource pool, `lte/model/nr-sl-comm-resource-pool.cc` | the physical pool (static) | `GetNrSlCommOpportunities` and others |
| Sensing, `nr/model/nr-ue-mac.cc` | `m_sensingData` | `DoReceiveSensingData`, `UpdateSensingWindow`, `GetNrSlTxOpportunities`, `GetFutSlotsBasedOnSens` |
| Scheduler, `nr/model/nr-sl-ue-mac-scheduler-{ns3,simple,lcg}.cc` | per destination, the believed buffer size | `DoSchedUeNrSlRlcBufferReq`, `DoSchedUeNrSlTriggerReq`, `DoNrSlAllocation`, `RandomlySelectSlots`, `GetAvailSbChInfo`, `RandSelSbChStart`, `AssignedData` |
| O-Re and D-Re controllers, `ns3Code/scratch/*_experiments/run.py`, and the simulator's end of the exchange, `nr/model/ORE-env.cc` | estimate of the edge, exclusions and packets per UE; a block of shared memory, five files | `passSensingData`, `getResourceSelections`; the two branches of the controller's loop |
| PHY reception, `nr/model/nr-ue-phy.cc`, `nr/model/nr-spectrum-phy.cc`, `nr/model/nr-harq-phy.cc` | `m_slRxGrants`, `m_slTransportBlocks`, `m_slDataHistory` | `StartSlot`, `PhyPscchPduReceived`, `SaveFutureSlRxGrants`, `SendSlExpectedTbInfo`, `AddSlExpectedTb`, `ClearExpectedSlTb`, `RxSlPscch`, `RxSlPssch`, `EndRxSlFrame` |
| Receiving MAC, RRC, bandwidth part manager, SCI headers, channel and error models, statistics, Matlab, generated bindings | see `PROJECT.json` and section 6 | static, stateless or numerical |

**How they interact.**  The simulator runs in one thread and its parts communicate by
direct calls through SAPs.  A PDU of the application reaches the RLC, which queues it
and reports the size of its queue through the MAC to the scheduler.  The slot
event of the PHY calls `NrUeMac::DoSlotIndication`.  In a sidelink slot that
function loops over the destinations and triggers the scheduler for those
without a usable grant: it looks for candidate slots by what was sensed, filters out the
slots of other grants, and the scheduler answers inside the same call with
`SchedUeNrSlConfigInd`, which creates a grant.  A second loop over all grants
takes the allocations of the current slot: it fetches a PDU from the RLC (new
TB) or a burst from the HARQ buffer (retransmission) and hands it to the PHY.
The HARQ feedback is blind: the MAC calls it itself after the last
transmission of a TB.

The controller is a second process.  Between the search for candidates and the
scheduler's choice, the simulator writes the heard packets into four files and
hands the shared memory over (`passSensingData`, which does not wait); the
controller reads and removes the files.  The scheduler then asks
(`getResourceSelections`, which waits), and the controller writes a string of
digits to a fifth file: resources of other UEs to overwrite, or a number of slots
to draw.

The receiving UE learns from an SCI 1-A which TB comes in this slot and in which
one or two later slots it is repeated without an SCI.  The PHY queues the later
ones; at each slot start it enters what is due into the table of expected TBs, in which
`RxSlPssch` looks up what to decode and with which soft bits to combine it.  Every
SCI also goes to the sensing data of the MAC.

**What is hard.**

- Grants of several destinations are created in different slots and live for
  many periods; only `FilterTxOpportunities` keeps them apart.
- The HARQ id of a TB is copied into the grant, while the FIFO goes round.
- Three counters of a grant (`slResoReselCounter`, `cReselCounter`,
  `tbTxCounter`) are updated by different branches; one is unsigned and another
  is tested with `>= 0`.
- The view the scheduler has of the RLC queue is deducted when a grant is made,
  and corrected only by reports whose timer each new PDU cancels.
- A grant without data is *wasted*: part of the iteration is done, part is not.
- The head of `slotAllocations` alone is compared with the current slot.
- The sensing data is erased while it is iterated over, and its age is a difference of
  unsigned numbers; a later projection must make up for what stays too long.
- Two processes share files, which are opened, written, read and removed one after
  another, while only one of the two calls waits.
- A resource travels from a slot number to one modulo 100, to a place in a list, to
  two digits, and back, and is sorted three times on the way.
- A receiver acts slots later on what an SCI announced: SCIs are lost, the receiver
  is itself transmitting in some slots, and the program aborts when an
  announcement does not come true or comes twice.

**What makes each part correct.**  RLC and believed queue: data is never forgotten
and is sent in the end.  MAC: one TB per slot; each TB sent as often as announced
under one HARQ id; grants run out and are replaced; no slot is missed.  HARQ: no
id is handed out twice, lost, or reset too late.  Pool: every allocation is a
sidelink slot.  Sensing: nothing heard in the window is lost, nothing older counts, each
packet is reported once, and the loop ends.  Exchange: the controller never
fails, every UE gets an answer made from what it just sensed, and no packet is lost.
Selection: only resources of far UEs are overwritten, drawn ones are
free, as many as asked for, and announced by the SCIs.  PHY: every announced TB is
expected in its slot, the program is never
stopped by what is expected, and soft bits are combined within one TB only.
The hazards in `PROJECT.json` name the lines.

## 2. Modules

| Module | Content |
|---|---|
| `NrSlUeMacHarq` | the HARQ entity as operators on a record, and its aborts |
| `NrSlUeMac` | RLC queue, scheduler view, grants and slot processing of one UE |
| `SlBlindRetransmission`, `SlAnnouncedTransmission` | the abstract service: one TB per slot, each block repeated as announced; and with its times: in the slots fixed at its first transmission, and in no other |
| `NrSlUeMacInv`, `MCNrSlUeMac` | the inductive invariants `IInv`, `ServiceInv`, `TimelyInv`, `FilledInv` and `ServedInv`, and the conditions of the last three; the pools and the symmetry of the runs |
| `NrSlUeMacLemmas`, `NrSlUeMacProofs` | lemmas on HARQ operators and on sets of allocations; the theorems on slots and HARQ ids |
| `NrSlUeMacServiceProofs` | the refinement of `SlBlindRetransmission`, and the theorems on data, counters and buffered TBs |
| `NrSlUeMacServedProofs` | the theorems that need a condition on the period or on the load: no slot missed, no id leaked, resources while the counter runs, no stop, and the refinement of `SlAnnouncedTransmission` |
| `NrSlRxPhy` | the receiving PHY: announced and expected TBs, half-duplex, soft bits |
| `NrSlRxPhyInv`, `MCNrSlRxPhy`, `NrSlRxPhyProofs` | its inductive invariant `RxInv`, who sends the streams, the theorems |
| `NrSlSensing` | the sensing data, its trimming, the threshold loop, the packets for the controller |
| `NrSlSensingInv`, `MCNrSlSensing`, `NrSlSensingProofs` | its inductive invariants `SensingInv` and `ReportInv`, the condition `OnePeriod`, the measure `StepsLeft`, the SCIs of the runs, the theorems |
| `ControllerCall` | what the exchange promises: asking the controller is a call |
| `OReExchange` | simulator and controller as two processes with shared memory and files |
| `OReExchangeInv`, `MCOReExchange`, `OReExchangeProofs` | its inductive invariant `ExInv`, the measure `StepsLeft`, controllers and loads, the theorems |
| `OReSelection` | from the packets heard to the allocations: the controller's choice, the string of digits, the scheduler's slots and subchannels |
| `OReSelectionInv`, `MCOReSelection`, `OReSelectionProofs` | its inductive invariants `SelInv` and `ChoiceInv`, the measure `StepsLeft`, tables, packets and occupied resources of the runs; the theorems |

`NrSlSensing`, `OReExchange` and `OReSelection` are the stages of one call of
`GetNrSlTxOpportunities` and the scheduler after it: the list and the packets that
`NrSlSensing` passes on are the inputs `occupied` and `Heard` of `OReSelection`,
`OReExchange` shows that the second stage works on the data of the first, and the slots
that come out are the choice which `NrSlUeMac` makes when a grant is created.  What
one stage guarantees another assumes:

| Assumed | Where | Shown |
|---|---|---|
| the table of the controller has a row for the exclusions of a UE that asks | `OReExchange`, `PassSensingData` | the loop of `NrSlSensing` goes on while `TooMany` (`Eliminate`) |
| packets announce resources in the window, one packet for a resource | `OnePerResource` of `OReSelection` | `EachReportedOnce` (the theorem: if all UEs announce one period) |
| the answer is made from the packets the UE has just sensed | `OReSelection`, whose controller gets `packets` | `AnswerIsOwn`, `AskIsACall` |
| selected slots are from the list and distinct | `NrSlUeMac`, `Reselect` | `DrawnAreFree`, `SelTypeOK`; duplicates of the overwriting are dropped (`Allocations`) |
| one TB of a UE per slot, announced TBs are sent | `NrSlRxPhy`, `NewTb` | `OneTbPerSlot`, `AnnouncedTransmission` |

Correspondence with the code (`PROJECT.json` "map" has the line ranges):

### The MAC

- **Time.**  A slot number is relative to the current slot, so that the state
  space is finite: `SlotIndication` moves every allocation one slot closer.
  All the past slots are `-1`: none of them can equal the current slot again.
- **Slot processing.**  `SlotIndication` is the head of `DoNrSlSlotIndication`,
  which chooses between the two loops (`pc`).  Each iteration of a loop is an
  action, with the destinations still to come in `todo`: `SkipDst`, `Keep`,
  `Reselect` for the first, `NoTxNow`, `ReadEmptyGrant`, `NoHarqProcess`, `NewTx`,
  `NewTxWasted`, `ReTx` for the second.  RLC events occur with `pc = "idle"` only,
  as in a single-threaded simulator.  The order of a loop is any order (the code
  uses a map ordered by id).
- **Grant.**  `grantInfo[d]` has the fields of `NrSlGrantInfo` that carry control.
  An allocation is its slot and `tx`, its place among the transmissions of
  a TB (`tx = 0` is `ndi = 1`); subchannels, MCS and the SCI content are left to
  `OReSelection`.
- **HARQ.**  A burst is present or not (`full`).  A packet holds the destination.
  One logical channel per destination: a second packet in a burst aborts.
- **RLC.**  SDUs are counted.  A transmission takes any part of the queue, because
  the TB size and the segmentation are data: the choice of what is left
  covers "all", "some" and "a segment of the first SDU".
- **Scheduler.**  `txQueueSize` is what it believes.  It answers a request for a
  destination it knows data of, with `TotalTx` slots or all when there are fewer, and
  deducts a part or all of that data.  Which slots is a choice.
- **Stops.**  `halted` names what ends the program: `harqBusy` and `harqMismatch`
  are the fatal errors of the HARQ entity, `assert` an `NS_ASSERT_MSG` of a debug
  build (`AssertsEnabled`), `undefined` the dereference of `begin ()` of an empty set.
  The value read there is any outcome of that dereference: nothing happens or the
  program stops.
- **Widths.**  `cReselCounter` is 16 bits and wraps.

### The receiver

- **Transmitters.**  A *stream* is one destination of one UE (`RntiOf`).  What
  reaches the air is what the MAC model guarantees: `tb[s]` is the TB under way with the
  slots to come, as many as its total says, distinct from those of other streams of the UE
  and never left out once announced: what `AnnouncedTransmission` of `NrSlUeMac` says.  `NewTb` starts any block:
  number of transmissions, slots within `Window`, HARQ id.  `TxSci1A`, `SlotNumInd` and
  `ComputeGaps` say which transmissions carry an SCI and what it announces.
- **A slot** is `StartSlot` (table cleared, front of the queue entered), one
  `PhyPscchPduReceived` or `SciLost` per SCI on the air, `StartRxSlPssch`, one
  `RxSlPssch` per expected TB, `EndRxSlFrame`.  `hears` is what half-duplex leaves of the slot.
- **Queue.**  `slRxGrants` is `m_slRxGrants`: RNTI and slot.  A slot that
  passed is `-1`; it could only be met again after 65536 frames.
- **Table.**  `expected` is the set of RNTIs in `m_slTransportBlocks`: its entries are
  always of the current slot, so that the erasing branch of `AddSlExpectedTb` is
  never taken.
- **Soft bits.**  `history` says of which TBs the entries of `m_slDataHistory` are: the TB
  under way (`"this"`) or one before it (`"earlier"`).  Outcomes of decoding are a choice.  The
  error model for data is on, as in the scenarios.  The set of decoded TBs
  (`m_slDecodedTb`) is written but never read by sidelink code, and left out.

### Sensing

- **Data.**  An element of `m_sensingData` is an SCI and its age in slots; powers are in
  steps of the threshold, 3 dB, so that a turn of the loop is one step.  `sensed` is a
  history variable: all that was heard in the window, erased by nothing but age; `late`
  marks what was heard after the first `SensWindow` slots.
- **`UpdateSensingWindow`** is called at the start of a slot, after `SlotIndication`.  A turn of
  its loop is `EraseOutdated`, with the place of the iterator in `it`: an erase advances it,
  the loop increments it again, and past the end of a `std::list` the increment leads to
  the first element.  `WindowUpdated` is the end of the loop.
- **`TrimSensedData`** drops the SCIs of the last `Tproc0` slots.  When these are all, the code reads
  and removes from an empty list; the outcome is to go on with an empty list or to stop
  (`undefined`).
- **`Eliminate`** is one turn of the threshold loop.  `Hits` are the SCIs and resources that
  the nested loops compare, `Occupied` those above the threshold, and `Reported` the
  packets for the controller, which are collected in the first turn only.  `TooMany` is
  the comparison with the share, in integers.
- The turns of `UpdateSensingWindow`, and `TrimSensedData`, the turns of `Eliminate` and
  `PassSensingData`, are one call each: nothing else happens between them (`pc`).

### The exchange

- **Two processes.**  `simPc` and `ctlPc` are their places, `turn` the lock and completion count of
  the shared memory (the base class of `ORE-env.cc` is a library, modelled
  from its use).  The simulator: `SenseNothing`, `Sense`, `OpenFile`, `WriteFile`,
  `PassSensingData`, `DoNotAsk`, `GetResourceSelections`, `ReadInstructions`.  The
  controller: `LoadSensingData`, `ReadFile`, `RemoveFile`, `DecodePackets` in one branch,
  `SelectResources` in the other.
- **Data** is abstracted to the sensing pass it stems from, a number modulo
  `NumPasses`, and a number of packets.  `AnswerIsOwn` is then a comparison of pass numbers.
- **Files** are absent or hold a pass and a number of packets; opening one for writing
  empties it.  A file that is absent leaves the controller's string as it was, and
  decoding shortens the strings in place.
- **No delay.**  The simulator calls `sleep(.1)` before it passes the data
  (`nr-ue-mac.cc:1517`); the argument is an integer, so that this is `sleep(0)`.  The
  controller's own sleeps are commented out.  Nothing but the lock orders the processes.
- **Scenario.**  Which controller runs, whether a pass may remain without a question
  (`mayIdle`: an emptied list, all slots filtered, no data in the RLC) and whether a UE may ask
  before it has sensed anything (`mayBeDeaf`).

### The selection

- **Controller.**  `WidenEdge` is one turn of the loop for the edge.  Distances are in zones;
  beta is 1/2, as `run.py` sets it, and gamma a constant in tenths.  The estimate of the
  density is numerical: which settings table it leads to is a choice (`Tables`).  `Fits`, `Chosen`
  and `Digits` are the choice of a row, the sorted choices from the left and the right, and
  the string.
- **Scheduler.**  `DoNrSlAllocation`, `DrawSlot`, `DrawOddSlot`, `AssignSubChannels` and `Allocate` are
  the steps of one call.  The size of a TB is the number of subchannels it would fill
  (`need`).  `slotAllocList` is a set ordered by the slot: a second allocation
  for a slot is dropped, which is modelled.
- One logical channel per destination, as the scheduler asserts.
- When all slots are to be drawn, the packets are forgotten after the answer was
  written (a reduction; nothing reads them until the next selection).

**Constants.**  Assumptions are named: `MacAssumption`, `HarqAssumption`, `RxAssumption`,
`SensingAssumption`, `ExAssumption`, `SelAssumption`.  `T2 <= ResvPeriod` is assumed because
every scenario of the repository has it (t2 = 33 slots, 100 ms period); the code does
not check it.  `SelAssumption` takes from the tables of `run.py` that a row has fewer
than ten resources and fewer than the window has slots, and that every row the
loop tries has at least one.  `SensingAssumption` says that no announcement
reaches further back than the sensing window, which holds for the periods of the scenarios.
The probability to keep resources is compared with the integer draws 0 and 1, as the
code does.

## 3. Runs

| Run | Question | Result |
|---|---|---|
| `sps` | do grants of two destinations, with one or two transmissions per TB, sensing and grants that may be kept, have the safety properties, and does the MAC implement `SlAnnouncedTransmission`? | yes |
| `served` | with data always waiting: no HARQ id leaks, counters mean resources, all in the pool, no abort, and every destination is served again and again | holds |
| `rx_streams` | two UEs, one with two destinations: does the receiver never abort, and is an announced block with only earlier ones before it in the queue expected in its slot? | yes |
| `sensing` | is what was heard kept, what is too old harmless and rare, each packet reported once, and does the loop end? | yes |
| `ore_exchange` | when the controller is called in the order its authors describe: does it never fail, does every UE get its own answer, and is the exchange a call (`ControllerCall`)? | yes |
| `ore_select` | are overwritten resources those of far UEs, drawn ones free, and all transmissions announced? | yes |
| `rx_soft` | are soft bits combined within one TB only? | violated |
| `ore_race` | does the controller never fail when a pass remains without a question? | violated |
| `ore_rows` | are all rows of a settings table tried but the last? | violated |
| `sensing_start` | does the sensing data have all that was heard in the window, from the first slot on? | violated |
| `data_wasted` | while HARQ processes are free, is data that reaches the RLC followed by a transmission? | violated |
| `rx_queue` | two UEs: is every announced block expected in its slot? | violated |

The inductive invariants of section 4 are invariants of these runs, and with them the type
invariants that they contain: `ServiceInv` (with `IInv` and `TypeOK`) of `sps`, `ServedInv`
(with `TimelyInv` and `FilledInv`) of `served`, `RxInv` (with `RxTypeOK`) of `rx_streams`,
`ChoiceInv` (with `SelTypeOK`) of `ore_select`, `ExInv` (with
`ExTypeOK`) of `ore_exchange` and `ReportInv` (with `SensingInv` and `SensingTypeOK`) of `sensing`.

**Bounds and why they suffice.**

- *MAC.*  Two destinations are the least that share the slot, the FIFO and the filter;
  every safety property relates at most two.  Two HARQ processes make the FIFO go
  round and become empty; a queue of one SDU is empty, full and overflowing.  `sps`
  has a period of three slots and a selection window of two: two
  grants with two transmissions collide, interleave and leave one of them
  less than it asked for (in `served` the window is the whole period, the longest that is allowed); three periods (`CReselFactor * ReselCounters`, 10 times 5 to 15
  in the code) give a first, a middle and a last one, and more than the counter uses, as in
  the code.  Its probability to keep is 50, so that both outcomes occur, a grant is kept with
  fewer periods than its counter, and `begin ()` of an empty set is met
  (748 284 states).  `served` has a pool with three sidelink slots in a period of four.
- *MAC, data.*  The counter stops for wasted TBs, which use up allocations and HARQ ids alike.  Which of the
  two runs out first is a matter of their numbers: 255 ids, and 10 allocations per unit of the counter,
  in the experiments.  In `data_wasted` it is the allocations, too: a grant of three periods, four processes.
- *Receiver.*  `rx_streams` has two streams of one UE and one of another, which mix in a window of
  four slots, the largest number of slots an SCI may announce (3) and blocks of one, three and four
  transmissions: an SCI with no and with two gaps, and a second SCI for a block (495 590 states).
  What two SCIs announce can lie before, between and behind each other, and in one slot.  `rx_queue` has one stream
  of each UE.  `MaxRxGrants` bounds the queue: an SCI that would exceed it counts as lost.
  Four entries are what two SCIs announce, or what stays behind with what is ahead; the theorems have no bound.
- *Sensing.*  A window of three slots, with `Tproc0 = 1`, leaves ages that are too
  young, in between, the oldest and outdated.  Two SCIs per slot let an outdated one be passed
  over beside one that is erased; with more, more are passed over in the same way.  Four kinds of SCI are decoded on each
  subchannel, with a retransmission, and collided and stronger.  Two candidate slots of two
  subchannels and a share of 60 % make one exclusion acceptable and two too many, so that
  the loop turns until the list is emptied (`MaxThres = 2`: 818 969 states).
- *Exchange.*  Two UEs, one of them at the edge of the road, are the least for an answer to go to
  the wrong one.  Three passes tell the current, the last and an older one apart.  One
  packet or none decides about everything a number of packets decides, except the length of strings, which
  the proof covers (352 718 states).
- *Selection.*  The window 2 to 6 with the time 95 lets slot numbers wrap around modulo 100, with two
  and with one digit.  The table has a row of each kind of `run.py`: with and without a bound
  on the counter, with an even and an odd number, and the last, for drawing.  Packets come in none, two, and four, from
  both sides and the same place, near, at the edge and beyond.  gamma is one half,
  where two packets meet the equality that takes ten with the code's 0.1
  (144 869 states).  `ore_rows` has a table of the length of that for the lowest density.

**Fairness.**  `FairSpec` of `NrSlUeMac` (`served`, `data_wasted`): `WF(Slot)`, as the slot event
re-schedules itself and its handler runs to the end.  `SF(ExpireNrSlRbsTimer)`: the
timer is an event of its own at a fixed delay; in the model it is disabled while a
slot is processed, so weak fairness would allow it to be postponed for ever, which
the simulator cannot do.  Restarting does not hurt: an `SF` obligation exists only
while it is running again and again.  `WF(TransmitNrSlPdcpPdu)` holds only with
`SaturatedTraffic`, where a slot waits until every queue has data: it is a
description of the load, not of the code.  `OReExchange`: `WF(Simulator)` and `WF(Controller)`, two
processes of the operating system, each of which continues when it can; nothing is
assumed of their relative speed.  `OReSelection` and `NrSlSensing`: weak fairness of the steps of
one call, which nothing interrupts, and none of the events that start it.

**Deadlock** is checked in every run but `ore_race`, where the controller stops and the
simulator waits for ever: this is what the run shows.

**Disagreements found.**  Six are shown by a run (details and the quoted claims under "findings"):

- `data_wasted`: a destination is given new resources only when its counter is negative.  TBs without
  data use up the allocations and leave the counter as it is, so that after a while without traffic
  the grant is empty and the destination is passed over for good: later data is never sent,
  although HARQ processes are free.
- `rx_queue`: `SendSlExpectedTbInfo` is described as going over the list of announcements; it looks
  at the front only.  With two UEs a TB that is due stands behind a later one and is not
  received, and then blocks what comes after it for good, because no entry of a passed slot is ever
  removed.  `InTurnIsExpected` says what the front alone does promise.  It needs more than one
  reservation per SCI; the experiments have one.
- `sensing_start`: in the first slots of a simulation the difference of unsigned slot numbers
  wraps around, and what was heard a slot ago is erased.
- `rx_soft`: the soft bits of a TB that was not decoded are erased by the first transmission of the
  next one.  When that is missed, retransmissions of the new TB are decoded with
  soft bits of the old.
- `ore_race`: a sensing pass does not wait for the controller.  If no question follows it, the next
  pass writes the files while the controller is still reading them.
- `ore_rows`: the loop over a settings table ends one row too early.  For the lowest density
  O-Re never overwrites.

Others were met while modelling:

- A TB without data takes an HARQ id; the turn ends before the feedback, and the next TB of
  the grant overwrites the copy of the id, which nobody can return any more, while the comment in the code
  (`nr-ue-mac.cc:1857-1859`) has it come back with the grant.  After as many of
  them as there are processes, the first loop never runs again.  `NoHarqIdLeak` therefore holds in
  `served`, where queues are never empty, and not in `sps`; that an empty queue is the only cause is what its
  theorem says, which assumes `SaturatedTraffic`.
- With `SlProbResourceKeep` above zero, a grant is kept with fewer periods left than
  its counter needs; `slotAllocations.begin ()` is then read although the set is empty.
  `CounterMeansResources` holds without keeping (`served`, and the theorem), and not in `sps`.
- The reservation period is not required to be a multiple of the pool length, since the calls
  that would see to it are commented out (`nr-ue-mac.cc:2415`, `nr-sl-comm-resource-pool.cc:325`).
  Later periods fall outside the sidelink pool; the slot
  indication does not run there, the allocation stays at the head of the set and blocks the grant for good.
  `AllocationsInPool` holds where the period is a multiple (`served`, and the theorem); it fails
  with, say, a period of two and a pool of four slots of which one is not a sidelink slot.
- The list of candidates is emptied when the raised threshold passes 0 dBm, before it is
  looked at how many resources the last turn took away, even if it took none; the comment at
  `nr-ue-mac.cc:1434-1438` says that all of them are then occupied.
- Both assertions on the old grant's counter are reached with a negative counter in
  the normal course of a reselection: debug builds stop there (`AssertsEnabled = TRUE`
  stops the model at the first one).  The design document
  triggers a reselection when the counter reaches zero, but the code
  tests `>= 0` and sends one TB more.

Two oddities do no harm.  `cReselCounter >= 0` on an unsigned number is always
true, but the counter covers the remaining allocations
(`CReselCoversAllocations`), so that zero implies an empty set, which is tested too.
`UpdateSensingWindow` passes over every second outdated element, but these announce no
candidate (`OutdatedNeverCounts`) and do not pile up (`FewOutdated`).

## 4. Proofs

For every value of the constants that satisfies the named assumptions:

| Theorem | Statement |
|---|---|
| `Invariant`, `TypeCorrect` (of `NrSlUeMac`) | `Spec => []IInv`, `Spec => []TypeOK` |
| `OneTbPerSlotHolds`, `RetxHoldsHarqIdHolds` | `Spec => []OneTbPerSlot`, `Spec => []RetxHoldsHarqId` |
| `ServiceInvariant`, `ImplementsService` | `Spec => []ServiceInv`, `Spec => BlindRetransmission` |
| `NoLostWakeupHolds`, `CReselCoversAllocationsHolds`, `BufferedTbHasGrantHolds` | `Spec => []NoLostWakeup`, `[]CReselCoversAllocations`, `[]BufferedTbHasGrant` |
| `TimelyInvariant`, `NoMissedSlotHolds`, `AllocationsInPoolHolds` | `PeriodFitsPool` implies `Spec => []TimelyInv`, `[]NoMissedSlot`, `[]AllocationsInPool` |
| `ImplementsTimedService` | `PeriodFitsPool` implies `Spec => AnnouncedTransmission` |
| `FilledInvariant`, `NoHarqIdLeakHolds` | `SaturatedTraffic` implies `Spec => []FilledInv`, `[]NoHarqIdLeak` |
| `ServedInvariant`, `CounterMeansResourcesHolds` | `PeriodFitsPool` and `Saturated` imply `Spec => []ServedInv`, `[]CounterMeansResources` |
| `NeverStopsHolds` | these two and `EnoughProcesses` imply `Spec => []NeverStops` |
| `RxInvariant`, `RxTypeCorrect`, `NeverAbortsHolds` (of `NrSlRxPhy`) | `Spec => []RxInv`, `[]RxTypeOK`, `[]NeverAborts` |
| `InTurnIsExpectedHolds` | the action property `Spec => InTurnIsExpected` |
| `ExInvariant` (of `OReExchange`) | `OrderKept` implies `Spec => []ExInv` |
| `NeverFails`, `AnswersAreOwn`, `PacketsDoArrive` | `OrderKept` implies `Spec => []ControllerNeverFails`, `[]AnswerIsOwn`, `[]PacketsArrive` |
| `ExTypeCorrect` | `OrderKept` implies `Spec => []ExTypeOK` |
| `ImplementsCall` | `OrderKept` implies `Spec => AskIsACall` |
| `CallShortensHolds` | `OrderKept` implies `Spec => [](StepsLeft \in Nat) /\ CallShortens` |
| `SelInvariant`, `EdgeAlwaysSplits`, `AlwaysEnoughLeft` (of `OReSelection`) | `Spec => []SelInv`, `[]EdgeSplits`, `[]EnoughLeft` |
| `ChoiceInvariant`, `SelTypeCorrect`, `OverwritesFarHolds`, `DrawnAreFreeHolds` | `Spec => []ChoiceInv`, `[]SelTypeOK`, `[]OverwritesFar`, `[]DrawnAreFree` |
| `AnnouncesRestHolds` | `OnePerReserve` implies `Spec => []AnnouncesRest` |
| `SelectionShortensHolds` | `Spec => [](StepsLeft \in Nat) /\ SelectionShortens` |
| `SlotRoundTrip`, `DigitsRoundTrip` | a slot survives the way modulo 100 to a place, and a place that to two digits |
| `SensingInvariant`, `SensingTypeCorrect` (of `NrSlSensing`), `FewOutdatedHolds`, `OutdatedNeverCountsHolds`, `LateAreKeptHolds` | `Spec => []SensingInv`, `[]SensingTypeOK`, `[]FewOutdated`, `[]OutdatedNeverCounts`, `[]LateAreKept` |
| `ReportInvariant` | `Spec => []ReportInv` |
| `EachReportedOnceHolds` | `OnePeriod` implies `Spec => []EachReportedOnce` |
| `CallsShortenHolds` | `Spec => [](StepsLeft \in Nat) /\ CallsShorten` |
| `OutdatedAnnouncesNothing` | an SCI older than the sensing window announces no slot from `T1` on |

None of the properties is inductive.  `BlindRetransmission` is proved without a condition; the
run `sps` checks `AnnouncedTransmission`, which contains it.

**The MAC.**  `OneTbPerSlot` needs that two grants never share a
future slot (`NoSharedSlot`), for all periods, while `FilterTxOpportunities` looks at
one selection window only.  The missing fact is `Periodic`: the allocations of a grant
that are still ahead repeat with the period *down to the current slot*.  Suppose a slot of period k
of a new grant met an allocation of another one: going back k periods, that
allocation has a predecessor in the selection window, since `T2 <= ResvPeriod`, and the filter
would have removed it.  This is where the bound on T2 is used, and without it the claim is false.
`SlotTaken` carries the fact from the set of allocations to the TBs
already sent in the current slot.

`RetxHoldsHarqId` needs that a retransmission at the head of a grant means the TB
is under way (`MidTb`: the count, the id and its owner), which needs that
allocations are numbered in sequence (`InSequence`), one per slot (`SlotsDistinct`),
and that the FIFO has no duplicates and only reset entries (`FreeIdsAreClean`).  Two
grants cannot hold one id, since it has one owner.

The lemmas are split accordingly: what each HARQ operation does to `FreeIdsAreClean`, and what
passing a slot, erasing the head and creating a grant do to `Ordered` (`NrSlUeMacLemmas`); one
lemma per action (`NrSlUeMacProofs`).

**The service.**  `ServiceInv` adds to `IInv` what the other properties of the MAC need
(`NrSlUeMacServiceProofs`).  `CReselCoversAllocations` is not inductive in the middle of a TB,
where some of its allocations are used and the counter is not yet decremented: `Counted` adds
the transmissions so far, `a.tx` of the next allocation `a`.  With it the last
transmission finds the counter at one or more.  `NoLostWakeup` breaks if the counter of a grant
falls below zero when the scheduler has forgotten the data: this happens at the last
transmission of a TB, and by then the first one has reported what is left or started the timer.
So a grant counts as a reason to wait only while new data comes next (`Woken`).  A grant whose
allocations are used up counts, too: that it never ends is not a lost report, and is what `data_wasted` shows.  A
buffered TB is retransmitted by a grant whose next allocation is a retransmission
(`Retransmits`), and each transmission but the last is followed by the next (`Followed`), which a
new grant has and which passing slots and used allocations preserve.  Then `NewTx`, which starts at an
allocation with `tx = 0`, never finds a TB of its destination on the air: it is `First` of the service, a
retransmission from a filled buffer is `Repeat`, `SlotIndication` is `NewSlot`, and
every other step changes nothing a receiver sees.  `Turn` collects what the three kinds of
transmission have in common, so that the invariant and the refinement are shown once for them.

**No slot is missed.**  The conditions of `NrSlUeMacServedProofs` are those under which section 3
says that the properties hold.  `PeriodFitsPool` is what `nr-ue-mac.h:684-688` demands of the
period.  `SaturatedTraffic` is the load of the run `served`.  `Saturated` adds that no grant is kept and
that a grant has at least two periods per unit of its counter (10 in the code).
`EnoughProcesses` gives every destination a HARQ process of its own and leaves the assertions
of a debug build out.

With a period that fits, a slot in the pool has its later repetitions in the pool (`InPool`;
`ModShift` and `PeriodsInPool` are the arithmetic).  The slot of an allocation is then
processed, but the second loop could still miss it: it takes the head of a grant only when the
head is of this slot, and a grant that has *expired* is replaced by the first loop, which
runs only while an id is free.  `OnTime` closes the gap: a grant expires in a turn of the
second loop that gives an id back, so that the first loop runs in the next sidelink slot and
replaces it before that slot is missed.

The same fact gives the service its times (`ImplementsTimedService`).  The slots ahead of a TB
are mapped to the allocations of its grant before those of the next TB (`SlotsAhead`).  When
the first of them is used, the others are numbered 1 up to the total less one, each once
(`Numbered`): hence as many as announced (`AheadCount`).  That every number occurs needs a least
one that does not; `LeastNumber` takes it from the well-founded order of the naturals
(`LessWellFounded`), which stands in for induction.  They are in nobody
else's slots by `NoSharedSlot`, and each use takes the head away and leaves the
others (`AheadErase`).  A slot goes by only when nothing is left to send in it: between two slots `OnTime` has every
allocation ahead.  Every other step leaves the slots ahead as they are; in
particular a grant with a TB on the air is neither kept nor replaced.

`FilledInv` says that with data in every queue each id taken from the FIFO ends in a buffered
TB: the turn of the second loop that takes it finds data.  Ids are then either free or hold a TB, which has a grant by `ServiceInv`.
`Lasts` counts: a grant has as many allocations left as `cReselCounter` promises TBs, and that
counter starts at a multiple of the counter that is tested, so that resources are left
while it is not negative.  `NeverStops` follows with one more argument, that of the pigeonhole: a
destination that needs a new id holds none, so that the others hold fewer than there are.

**The receiver.**  `NeverAborts` needs that each announcement still ahead is *backed* by a
transmission of that UE in that slot which carries no SCI (`Backed`): then an
entry taken from the queue has a signal, and an SCI of the same UE in that slot would be a second
transmission of it there, which `SlotsApart` and `InOrder` exclude.  `GapsLemma` shows that
what an SCI announces is backed: transmissions between two SCIs carry none.  This
holds for any number of UEs, whatever is lost; past entries need not be backed
and are not, which is why `AnnouncedIsExpected` fails with several UEs while `NeverAborts` does not.

`InTurnIsExpected` is about any number of UEs, too.  An entry is in turn when what stands before it is for
earlier slots, all still ahead (`InTurn`).  An SCI appends (`SciAppends`; by `RxInv` it has what to append), and
what is appended behind an entry cannot disturb it (`InTurnStays`).  At the start of a slot everything moves one slot
closer.  Only the front can be due, since the slots before an entry in turn increase: if the entry is due it is the
front, and `StartSlot` enters it; if the front is due and is not the entry, it leaves, and the entry is in
turn one place further on; if nothing is due, the entry stays (`InTurnMoves`).  What is missed is
thus exactly what an SCI enters behind a later slot, or the same.

**The exchange.**  `OrderKept` is the order of calls that `run.py:245-255` describes: with O-Re each
pass is followed by a question.  `Alternation` says whose turn it is, and in particular
that the simulator waits in front of its next turn while the controller loads
(`Loading => simPc = "trigger"`).  Then the files can be followed
through the loops of both processes (`FilesFollow`): below the writer's place they hold this
pass, above it they are absent, and the same for the reader.  So the
four strings are of one pass when they are decoded, and decoding does not fail.  `Sent` and
`Loaded` carry the pass from the shared memory to the controller's
variables, `RowsExist` that the estimate is in the table.  Without `OrderKept` the first
part fails, which is the run `ore_race`.

`ImplementsCall` maps the two processes to `ControllerCall`.  The stage of the call is read off the place of
the simulator and the turn (`CallStage`), the answer from the fifth file while the simulator is
about to read it (`AnswerInFile`).  Writing, passing, loading and
removing files are stutters.  `SelectResources` is the reply: by `Loaded` and `Sent` the packets it
works on are those which the UE has sensed last, all of them, and for that UE.

**The selection.**  `EdgeAhead` is the missing fact of `EdgeSplits`: while the loop runs, more than gamma
of the packets lie beyond the distance already passed; it starts with all packets beyond 0
(`AllAtLeastZero`), for which gamma must be below one.  `EnoughLeft` is inductive once the list is known to be finite:
a full slot is dropped only while more slots are left than are asked for in all.

`ChoiceInv` follows a choice from the packets to the allocations.  `AnswerOK`: the string is a number to
draw, or pairs of digits, each the place of a resource that a far UE has announced with a
counter the row allows (`FarResource`).  `OverwriteOK`: the scheduler reads the same resources from it, by
the two round trips, and one drawn slot more for an odd number.  `DrawnOK`: drawn slots are
from the list and distinct, so that as many allocations come out as were asked for.  The sorting on the way
is treated by *ranks*: in a finite set with an order, each rank below its size is taken by exactly
one element (`RankTaken`, `RankLaws`), so that the k-th choice of a sorted set exists and is
one of its elements.  `AnnouncesRest` is a statement on ranks, too: SCIs go with the ranks that are
multiples of the number per reservation, and each announces those up to the next
(`UpToNextLeader`).  It is proved under `OnePerReserve`, that with overwriting an SCI announces its own transmission only, as
in the experiments (`ns3Code/scratch`, O-Re_Experiments.cc:467): two overwriting choices may fall
into one slot, one of which is dropped, and then an SCI would announce more than is left.

**Sensing.**  `OutdatedAnnouncesNothing` is arithmetic: the last announced period is at most `Q` periods after
the SCI.  With the types it gives `OutdatedNeverCounts`.

`FewOutdated` is a matter of counting.  A slot begins with at most `MaxPerSlot` elements that the last sweep has
passed over and as many that have just become too old, since no more have one age
(`FewPerSlot`).  Each turn of `UpdateSensingWindow` erases one of them and goes one place further, so
that their number and the place of the iterator together do not grow (`HalfIsLeft`).  At the end all that are left are
in front of the iterator, because the data is in the order of its age: they are at most half of what
they were.  In the first slots, where the comparison wraps around, nothing is too old (`FirstSlots`).  `LateAreKept` needs
that the history has nothing too old, so that what is erased is not part of it (`HistoryInWindow`);
it is stated from the end of both sequences, where an erase further in front changes nothing.

`EachReportedOnce` needs more than the data: the order in which the SCIs of a slot arrive.  Those that are decoded
come before the collided ones, and each has a subchannel of its own (`DecodedFirst`), because
`NowInHistory` ties what is of the current slot to what was heard in it.  The packets
are those of the first turn of the loop (`ReportKept`, `FirstReport`), in which every SCI is above the
threshold.  With one period (`OnePeriod`) and no retransmissions announced, hits on one resource
are of SCIs of one slot on one subchannel (`OnePeriodHits`): at most one of them was decoded, and it is
met before the collided ones could hide it (`DecodedAreReported`).
`OnePeriod` is what the experiments configure (`ns3Code/scratch`, O-Re_Experiments.cc:470 and :749).

**No loop goes round forever.**  Liveness under fairness cannot be proved here, but what is hard in it
can: that the loops, which end when a comparison comes out, do end.  In each of the last three
components `StepsLeft` is a natural number that every step of a call makes smaller, though
the code itself keeps no such count:

- in the selection, the distance from the edge to the farthest packet, since beyond that no packet
  is left to be counted (`WidenEdgeShortens` needs `EdgeAhead`); then the slots still in the
  list, each drawn slot being taken from it whether or not it is used; and for an odd number the one missing choice
  (`OneMissing`).  The attempts to hit a free resource within a slot count as one step;
- in sensing, the length of the data, since an iterator that comes round has erased an element,
  and the way of the threshold to 0 dBm;
- in the exchange, the files still to be written and to be read, and the flag of the shared memory, which
  decides whether the controller has a pass to load or a question to answer.

All three hold of every behaviour of `Spec` (that of the exchange under `OrderKept`), without fairness; they are proved only,
no run checks them.

**Only model-checked:** the liveness properties (`SaturatedIsServed`,
`AskIsAnswered`, `SelectionReturns`, `SelectionEnds`): they need fairness, whose `ENABLED` is beyond the
provers used.  Of `AskIsAnswered` and `SelectionEnds` it is proved that no behaviour takes the
steps of a call forever, the former under `OrderKept`, and the same of the threshold loop of `SelectionReturns`; that
a next step is enabled and is taken is left to the runs.

## 5. State of the plan

Done: the transmitting MAC with its HARQ entity, the receiving PHY, sensing, the
exchange with the controllers, and the selection of resources from the packets to the
allocations, each with its runs and theorems.  All invariants of the passing runs, their action properties and
both refinements are proved.

Left, in this order:

1. A composition of two `NrSlUeMac` with their `NrSlRxPhy`, in place of the assumption
   on what reaches the air.
2. RLC reassembly at the receiver.

## 6. Not modelled

- Radio propagation, interference, link adaptation, SINR and error models are numerical.
  Whether an SCI or a TB is decoded is a choice.
- The controller's estimate of the density of UEs is an interpolation in measured tables.
  Which settings table it leads to is a choice.
- RRC, bandwidth part manager and MAC configuration run once before the
  simulation.  SCI headers and tags are records.
- The statistics, the experiment set-up and the Matlab scripts only configure or evaluate runs.
- The cellular side of the UE MAC and PHY, and every other ns-3 module in the repository, are upstream
  code and not used by these scenarios, or, as the core and the
  network modules are, the platform on which they run.
- `*/bindings/modulegen__gcc_*.py`, which make up nearly all of the repository's lines of
  Python, are generated registrations of C++ types.  They are lists of declarations without
  state.  Of the Python code only the two `run.py` are the experiments' own,
  and both are modelled.
- More than one logical channel per destination and a changing resource
  pool do not occur in the scenarios; the scheduler stops at a second logical channel.
- A selection window longer than the reservation period (`T2 > ResvPeriod`): two grants may
  then share a slot of a later period.  No scenario has it.
- Hazards in `PROJECT.json` that no property covers have a note there.

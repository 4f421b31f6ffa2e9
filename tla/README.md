# ioHdlc in TLA+

A verification development for ioHdlc, an HDLC (ISO/IEC 13239) data link
implementation in C for Linux and ChibiOS. The modules are translated from the
source under `src/`; `PROJECT.json` maps every definition to the lines it models.

## 1. The system

| Component | State | Operations | Talks to |
|---|---|---|---|
| Station and peers (`src/ioHdlc.c`, `include/ioHdlc.h`) | `iohdlc_station_t` (mode, flags, `pf_state`, `c_peer`, `connected_count`), `iohdlc_station_peer_t` (V(S), N(R), V(R), queues, `um_*`, `ss_state`) | init, add peer, link up, link down, write, read, TEST, UI | TX thread by core events, applications by `app_es` |
| Receive side (`ioHdlc_core.c`: `ioHdlcRxEntry`, `handleUFrame`, `commonRx`) | the peer, `pf_state` | one handler per frame type | TX thread by event flags, reader and writer by condition variables |
| Transmit side (`ioHdlc_core.c`: `ioHdlcTxEntry`, `ioHdlcConnectedTx`) | local `cm_flags` | serve U commands, U responses, timers, I-frame burst, S-frame, next peer | driver; timers |
| Runner (`ioHdlc_runner.c`) | T1 and T3 of each peer, the two threads | start, stop, expiry callback | TX thread by event flags |
| OSAL (`os/*/`) | event sources and listeners, virtual timers, mutexes | broadcast, wait, get and clear | all threads |
| Frame pool (`ioHdlcpool_common.c`, `ioHdlcfmempool.c`) | free list, reference counts, watermark state | take, reference, release | writer, RX thread, busy condition |
| Software driver (`ioHdlcswdriver.c`, `ioHdlcll.c`) | receive parser, receive queue and semaphore, frame in flight, `raw_q` | configure, start, stop, send, receive; port callbacks | stream port, pool, transmit gate of a frame |
| Stream ports (`os/chibios/src/ioHdlcstream_*.c`) | the transfer in progress, a saved RX buffer, the DATA_READY state (SPI) | submit, cancel, completion, error, watchdog | hardware; driver by callbacks in interrupts |
| Link manager (`utils/link_manager`) | `stop_requested`, `running`, two listeners on one event bit | init, run, stop | API; core by `app_es` |
| Log, boards, tests | - | - | - |

What is hard here, and what makes each part correct:

* **Window.** Two queues of one peer and four sequence variables are changed by
  writer, TX thread and RX thread; the TX thread gives up the mutex between the
  I-frames of a burst. Correct: the queues hold exactly the unacknowledged
  frames in order, under the numbers the receiver expects, within the window.
* **Poll/final.** One P/F state is shared by I-, S- and U-frames. Correct: a
  poll is answered, one poll is outstanding at a time, a timer is running
  whenever something is waited for.
* **Recovery.** Loss is repaired by REJ, by checkpoint retransmission, by T1 and
  by T3. Correct: the receiver sees every frame once and in order, and
  everything written is acknowledged in the end.
* **Flow control.** The watermark of the pool drives RNR and RR. Correct: busy
  ends, and does not stop the polls.
* **Connections.** Calls, U-frames, retries and aborts run in different threads
  and share `um_cmd` and the mode. Correct: both ends agree, requests are
  served, commands conclude, a dead peer is detected.
* **Read and write.** A call waits, copies without the mutex and goes on while
  the connection ends and comes up again; a frame has several holders at a
  time. Correct: references balance, the octets of two connections do not mix,
  every waiter is woken.
* **Framing.** The receiver sizes its transfers by octets from the line, and must
  find the next frame after any disturbance. Correct: it stays in its buffer,
  delivers only what was sent, and gets back into step.
* **SPI.** Master and slave share one line of interrupts, one transfer each and
  no arbitration. Correct: transfers exclude each other, a collision loses the
  frame and nothing else, no frame and no receive buffer is forgotten.
* **Link manager.** Coalesced events of all peers, a retry deadline and Stop wake
  one thread through one bit. Correct: it never sleeps over a state it has not
  reported, reconnects, ends after Stop and leaves no listener behind.

`PROJECT.json` lists these as hazards, at the lines where they bite.

## 2. Modules

| Module | What it is |
|---|---|
| `HdlcPeer` | The send side of one peer as a record, and the functions on it as operators: `Enqueue`, `SendIFrame`, `ProcessNR`, `CheckpointRetransmit`, `RejRetransmit`, `ResetWindow`, and what a consistent record is (`PeerConsistent`). |
| `HdlcWindow` | One peer against an arbitrary remote station: any N(R), any P/F, REJ at any time, reset at any time, also inside a burst. |
| `HdlcPeerProofs` | Arithmetic modulo `Mod`, and one lemma for each operator of `HdlcPeer`: it keeps `PeerConsistent`. |
| `HdlcWindowProofs` | The theorems about `HdlcWindow`. |
| `HdlcStream` | Abstract specification: two ordered, reliable streams. |
| `HdlcLink` | Two connected stations, their TX and RX threads, writers, readers, timers, pools, and a line that loses frames. Uses the operators of `HdlcPeer`; refines `HdlcStream`. |
| `HdlcLinkProofs` | The theorems about `HdlcLink`, the refinement among them. |
| `HdlcConn` | Link-up and link-down calls, U-frames, retries, multipoint turns, idle polls, resets of a secondary. |
| `HdlcConnProofs` | The theorems about `HdlcConn`. |
| `HdlcStreamIO` | `ioHdlcWriteVTmo` and `ioHdlcReadVTmo` on one peer, with the pool, the transmit gate, the TX thread, the driver and the connection that comes and goes. |
| `HdlcStreamIOProofs` | The theorems about `HdlcStreamIO`. |
| `HdlcConfig` | Pure operators: from the options of a station to the configuration of its driver; FCS capabilities and policy. |
| `HdlcFraming` | Pure operators: frame format field, FCS-16, transparency, the transmit plan, the checks on reception. |
| `HdlcParser` | The receive side of the software driver over a UART (`s_on_rx`, the receive queue and its permits, the pool), with any octets from the line. |
| `HdlcParserProofs` | The theorems about `HdlcParser`. |
| `HdlcDriver` | A sender of the software driver, `HdlcParser` as its receiver, and a line that disturbs octets. Its actions change the receiver by the actions of `HdlcParser` only. |
| `HdlcSpi` | Two stations over SPI: port, transmit pipeline and receive parser of each, DATA_READY, the watchdog of the slave. |
| `HdlcSpiProofs` | The theorems about `HdlcSpi`. |
| `HdlcLinkManager` | `ioHdlcLinkManagerRun` and `Stop`, the application listeners under them, and the core as far as it changes the state of the peer. It has no constants and no bounds. |
| `HdlcLinkManagerProofs` | The theorems about `HdlcLinkManager`. |
| `MCHdlcWindow`, `MCHdlcLink`, `MCHdlcConn`, `MCHdlcDriver`, `MCHdlcSpi` | Instances for TLC. |

### How the models follow the code

*A step is a critical section.* Everything between a lock and the unlock of
`p->state_mutex` is one action. The TX thread therefore takes several steps
per round: in `HdlcLink` `TxStart` (wait, timers), `TxBurst` once per I-frame,
`TxBurstEnd`, `TxTail` (S-frame); in `HdlcConn` `TxFetch` (the flags are taken
before the mutex), `TxServe` (U command, U response, disconnected case,
timers) and `TxTail` (S-frame, turn to the next peer). The call of an
application is split where it holds no lock (`LinkUpBegin`, `LinkRequest`,
`LinkEvent`; in `HdlcStreamIO` `WriteLoop` takes a frame, which is filled
without the mutex, and `WriteQueue` queues it). In `HdlcLinkManager` a step of
the manager's thread is one critical section of a listener, of the thread's
event bits, of the manager or of the peer. A broadcast is one step: the
listener's lock is held from the flags to the bit, and taking the flags needs
the same lock.

*Links.* `HdlcLink` and `HdlcConn` take the links to look at from a constant
set: what the stations are configured with and the bounds of the link. `Init`
chooses one, and `link` never changes.

*Events.* `iohdlc_evt_broadcast_flags` adds flags to the listener and sets a
pending bit of the waiting thread; `iohdlc_evt_get_and_clear_flags` takes the
flags and leaves the bit. A later wait then returns at once with no flags. This
is modelled as it is, because a lost or surplus wake-up is what several
properties are about. In `HdlcLink` flags that the TX thread treats alike are
one flag (`WORK`, `URGENT`).

*Timers* are off, armed or expired. An expiry counts only if the timer was not
stopped or started again after it raised the flag
(`ioHdlcIsReplyTimerExpired`). `ioHdlcRestartReplyTimer` touches an armed timer
only and so changes nothing here. Timeouts are configured longer than a round
trip, so a timer runs out when the line is at rest (`AtRest`); `maxEarly` of a
link lets some run out earlier, while the answer is on its way.

*Data.* The information field of a frame is its ordinal in the stream. Addresses
are station names. Frames on the line carry type, command/response, P/F, N(R),
N(S). A damaged frame is dropped by its FCS and counts as lost. `Mod`, 8 or 128
in the code, is a constant. In `HdlcStreamIO` a frame is a buffer of the pool
and carries the connection it was queued or received in; sequence numbers are
left to the modules above. In `HdlcFraming`, `HdlcParser` and `HdlcDriver` octets
are numbers and the CRC is computed. On SPI a frame is three units, since the port tells
apart only transfers of one octet and of a whole body.

*Transmit gate.* The TX thread waits for the gate of a frame with the mutex held
(`tx.pc = "gate"`), and then no other action that needs the mutex is enabled
(`MutexFree`).

*Interrupts.* `chb_spi_data_cb` takes up to three steps; between them DATA_READY
may come in on the master and the watchdog on the slave. Threads of a side do
not run meanwhile. `s_on_rx` is one step of the port's callback.

*External.* The lines (`Lose`, `Arrive`), the SPI hardware (`Clock` and what it
uses, `Transfer`, `Edge`) and a port that computes the FCS (`PortWire`) have no
code in the repository.

`HdlcLinkManager` takes from the core what `HdlcConn` shows of it: state and
event change in one critical section; a peer that was connected is closed with
LINK_DOWN or LINK_LOST. `Refuse`, a DM for a set-mode command, is enabled only
while the peer is not connected: the code would disconnect a connected peer
without an event the manager wants, but no instance of `HdlcConn` used here
reaches such a DM. The `connect` hook and `ioHdlcStationLinkUp` are the same
steps, `is_ready` is a free choice.

`HdlcConn` leaves out I-frames: all queues are empty there, so that the
connection state can be explored on its own; the data phase is `HdlcLink`, and
what the end of a connection does to readers and writers is `HdlcStreamIO`.

## 3. Runs

Window:

* `window` (Mod 4, Ks 3, 6 frames): the invariants of the window. Every N(R),
  in and out of the window, occurs with and without a checkpoint in every
  state, and the numbers wrap.

Data transfer:

* `data` (Mod 3, Ks 2, one loss): refinement of the stream, window consistency
  of both ends, answered polls, no refused N(R), and the turns of half-duplex
  NRM. Five links: full-duplex NRM with three frames and a timer that runs out
  while the answer is on its way (a repeated poll is answered twice);
  half-duplex NRM with two frames one way, and with one each way; full-duplex
  ABM with two and one; half-duplex ABM with one. Three frames make the numbers
  wrap; the loss hits any I- or S-frame, so that REJ, checkpointing and both
  timers are exercised.
* `nrm_flow` (pool marks at two frames and one, one loss): RNR, RR and the
  writer's gate; a timer is always running and everything written is
  acknowledged.

Connections:

* `conn`: half duplex with three calls and one loss (connect, disconnect,
  connect) and with one call and two losses, which exhaust the retries
  (`RetryMax` 1); full duplex with two secondaries, two calls and one loss. The
  primary has no ghost connection; a connected station stays in its mode (one
  secondary called); a pending command is sent (full duplex).
* `conn_watch` (full duplex, one secondary, one connection, two losses, two
  resets of the secondary): an idle connection is watched by T1 or T3, a reset
  is found out, and a command is concluded, with liveness. The run says nothing
  of two secondaries, nor of disconnection: see the rows `ioHdlc_core.c:1689`
  and `2203` of the table of disagreements.

Read and write:

* `io` (three frames, LOW at none free, NORMAL above one, Ks 1, limit 2, one
  write of three frames, one read, one frame received, one fault, two
  connections): references, the transmit gate, terminal states, the stream of
  one connection, the watermark, and the return of a write. The write is longer
  than the limit, so that it waits; the limits equal the pool, so that it runs
  low; the fault is a transport error or a retransmission, so that a frame is
  sent again while its first transmission is not over.

Driver and ports:

* `driver` (two frames, one disturbance, silence twice, pools of one and two
  frames): no FFF, transparency, FFF of one and two octets, with FCS of two
  octets and none, and options that are refused. One INFO field is empty, one
  holds a flag and an escape. Any octet may be lost, broken or become a flag or
  a length; the receiver may restart inside a frame. A frame of which nothing
  stands against (`Regular`, undisturbed, preceded by a flag the receiver saw)
  is delivered. Without FCS the driver cannot tell a made-up frame, and `Intact`
  is about configurations with an FCS. `PlanAgrees` and `FcsHandled` compare the
  two transmit paths and the FCS policy over all configurations, backends and
  ports of the instance.
* `spi` (two frames for each side, a watchdog of two ticks, one fault): both
  sides send at will, the fault is a DMA error of a receiving slave, or a
  restart of either side; overruns follow from the clock.

Link manager:

* `manager`: the whole state space, without bounds. `IInv` is the inductive
  invariant of the proofs; `StopReturns` and `Reconnects` are its liveness. No
  deadlock: the caller may always run or stop it again.

Violations. Each is a place where the code does not do what a comment or a
document of the repository says; the traces are short.

| Run | What happens |
|---|---|
| `abm_poll_lost` | T3 recovery while a P is pending answers instead of polling, and no timer is left (`TimerWatches`). |
| `conn_answer_f` | The P of DISC is answered by RR,F; the UA has no F and is dropped; the RR,F stopped T1, and the DISC stays outstanding. (`Concludes` is therefore checked in `conn_watch`, without disconnection.) |
| `io_stuck` | A writer without timeout waits on a low pool; a reader returns the pool to normal and signals nobody; with nothing in flight no acknowledgement comes, and the writer sleeps on (`WriterWoken`, with a remote station that acknowledges everything). |

### Disagreements without a run

The same modules show these under other bounds or for formulas that are not
properties of the project. Each limits what the passing runs may claim.

| Where | What happens | Seen as |
|---|---|---|
| `ioHdlc_core.c:1828` | A busy primary never sets P on I-frames, and an I-frame suppresses the poll: after T3 no timer runs until the reader frees the pool. | `TimerWatches` with `Readers = {"A", "B"}`, `PoolLow = 2`, `PoolNormal = 1` in NRM |
| `ioHdlcswdriver.c:956` | FFF of two octets: if the second octet is lost and the address octet is 1, or a disturbance makes it 1, the declared length is 1 and the next transfer has no octets, which the assertion at 1021 forbids. `InBounds` says that nothing else leads there. In the model such a transfer takes none and never ends, as on a DMA stream started with a count of zero; silence on the line ends it. | `drv.up => drv.n # 0` in `driver` |
| `ioHdlc_core.c:1829` | A busy NRM secondary puts no F on I-frames, and an I-frame that was sent suppresses RNR,F (1960): the poll stays unanswered until the T1 of the primary. | `PollAnswered` with `Readers = {"A", "B"}`, `PoolLow = 2`, `PoolNormal = 1`, one frame each way in full-duplex NRM |
| `ioHdlc_core.c:1829` | A busy combined station's first response after P has no F, against the comment at 480. | a response without F in `chan`, both readers slow, ABM |
| `ioHdlc_core.c:1198` | `chkpt_actioned` outlives its retransmission and inhibits a later REJ for another frame; T1 or T3 then recovers it. | ABM, three frames, two losses |
| `ioHdlc_core.c:450` | In half-duplex ABM both ends may start sending at once. | `HalfDuplex` for ABM links |
| `ioHdlc_core.c:345` | A SNRM repeated after a lost UA counts its peer twice in `connected_count`. | `connected_count` against the number of connected peers, bounds of `conn_answer_f` |
| `ioHdlc_core.c:274` | DISC in NDM leads to ADM. | `mode = "ADM"` in NRM, bounds of `conn_answer_f` |
| `ioHdlc_core.c:2046` | A second LINK_REQ sends the outstanding command again. The surplus UA may be taken for the answer to a later SNRM. | `NoGhost` in full duplex with three calls, in half duplex with five; `conn` has two and three |
| `ioHdlc_core.c:2123` | In half duplex a LINK_REQ without a send opportunity is dropped and the command never sent; the T1 retry of a DISC to a disconnected peer is not sent either. | `RequestServed` in half duplex |
| `ioHdlc_core.c:2071` | When a command is given up the TX thread clears its flags and sleeps; the command of another peer that was pending is not sent until its `LinkUpEx` times out. "Re-trigger LINK_REQ to chain-serve other pending peers" (743) is done after an answer only. | `RequestServed` with two secondaries called, two calls, two losses |
| `ioHdlc_core.c:529` | A DISC for a connected peer that is not the current one is not found: the search for a pending command takes disconnected peers only. LINK_REQ is dropped, against "Signal TX task to send the command" (`ioHdlc.c:1187`). | `RequestServed` with two secondaries called, three calls, one loss |
| `ioHdlc_core.c:2133` | A stale UM_RECVD keeps the TX thread from ever waiting again. | `[]<>(tx[s].pc = "wait")` under `FairSpec`, bounds of `conn_answer_f` |
| `ioHdlc_core.c:273` | The abort of one peer changes the mode under the link-up of another; the restored `s_mode` of a failed `LinkUpEx` does the same in ABM. | `ModeKept` with two secondaries called, or ABM and three calls |
| `ioHdlc_core.c:1689` | Two secondaries are connected and one is lost. The T3 of the other runs out while the lost one is polled; its flag is cleared (1707) and looked at for the current peer only, and T3 is not started again. When the retries of the lost one are exhausted the TX thread gets no flags back and waits: nobody becomes the next peer, and LINK_DOWN (312) is not among the events it waits for (2016). No timer runs and the other secondary is never polled again, although `PROTOCOL.md:590` says "surveillance advances immediately to the next connected peer; no further application operation is required to detect its loss independently". By default T3 is shorter than the retries together. | `AtRest`, a connected secondary and no timer of the primary armed: two secondaries called in full duplex, two calls, one reset, no loss. With one loss and no reset the T3 of a connected peer is cleared at 2203, while the current peer has a repeated SNRM outstanding |
| `ioHdlc_core.c:2203` | RR,F in answer to the P of a DISC stops T1 with the DISC outstanding (as in `conn_answer_f`); a T3 that runs out then is dropped because a command is outstanding, and no timer is left. | `Surveillance` without its condition on DISC; one secondary and a link-down call |
| `ioHdlc.c:1288` | The command of a link-down call overwrites a received SABM in `um_cmd` that was not answered yet; the TX thread takes it for a received DISC, closes its end and never sends DISC. | both ends connected or both not, at rest; ABM, two calls |
| `ioHdlc.c:1675` | "Report the previous terminal result before consuming data belonging to the new connection": the test is made only while connected. If the next connection has ended too, a read that has octets of the first goes on with octets of the second. | octets of two connections in one read, three connections |
| `ioHdlcstream_spi.c:388` | A failed transmission drops the saved receive buffer and reports no RX error: the slave hears nothing until its next send or restart, against 758 ("RX DMA will be launched automatically at the end of the TX transfer"). | `KeepsListening` with `DmaErrors = {<<"S", "tx">>}` |
| `ioHdlcstream_spi.c:388` | A failed reception of the master does not try a queued frame again. | `NotStranded` with `DmaErrors = {<<"M", "rx">>}` |
| `ioHdlcstream_spi.c:126` | With a limit of one tick the watchdog may abort a transfer whose completion is just being served. | `PortDriverAgree` with `Limit = 1` |
| `ioHdlcstream_spi.c:271` | A DATA_READY interrupt between the end of TX (263) and `spiUnselectI` may start a reception, which is then deselected. | chip select is not modelled |
| `ioHdlcswdriver.c:899` | The minimum length of four octets counts the FCS: without FCS, frames of two or three octets are discarded. | `Regular` demands `MinLen` |
| `ioHdlc.c:655` | With transparency the frame size is doubled for stuffing, but the INFO limit of a peer is computed from the doubled size: a long INFO field full of flags does not fit its buffer. | `Configured`: `mifl` against `framesize` |
| `ioHdlcll.c:176` | "@retval false if the destination buffer is not large enough": the size is never looked at; the result tells whether anything was escaped. | `TransparentEncode` |

`CHECK_DEADLOCK FALSE` is set where a system with all writes, calls or faults
used up and all timers off rightly stands still. The bounds on writes, calls,
losses, early timers, faults and resets stop the exploration, not the code.

### Fairness

`FairSpec` assumes that the two threads of a station run (`TxStep`, `RxFrame`),
that armed timers expire when the line is at rest, that a writer that queued a
frame gets to its broadcast, a reader keeps reading and a call goes on. All are
threads or timers the runner starts and nothing blocks for good. Nobody is
assumed to write or to call, and the line loses a bounded number of frames.
For the manager it assumes that its thread and the caller of Stop run, that a
link-up call returns (it has a safety timeout) and that time goes on; the core
and the hooks may do nothing for ever.

In `HdlcStreamIO` threads in a call and the TX thread run, the port ends its
transfers and timeouts expire; `AckSpec` adds a remote station that
acknowledges. In `HdlcDriver` the UART ends its transfers, octets sent arrive or
are disturbed, and the RX thread runs. In `HdlcSpi` interrupts are served, the
clock runs while the master has a transfer, the watchdog ticks, and a stopped
side is started again. Fairness there is weak throughout.

## 4. Proofs

Each theorem holds for every value of the constants that the named `ASSUME`s
of its module admit. Where an invariant of a run is proved, the inductive
invariant was model-checked first, with the constants of that run.

### The window: `HdlcPeerProofs`, `HdlcWindowProofs`

For every modulus, window, writer margin and number of writes
(`ModAssumption`, `KsAssumption`, `WriterMarginAssumption`,
`MaxWritesAssumption`) the window stays consistent: `IInvCorrect`, and from it
`TypeCorrect`, `WindowCorrect`, `NumberingCorrect`, `PendingCorrect`,
`OrderCorrect`, `OrdinalCorrect`.

None of the invariants is inductive alone. That the number of unacknowledged
frames is V(S) - N(R) survives a retransmission only if the first frame moved
carries N(R); that needs the numbers of `i_retrans_q`; sending a frame again
keeps them right only if the frames due again stand first in `i_trans_q` with
the numbers V(S) runs through; and that V(S) does not run into N(R) needs the
highest V(S) ever reached to stay within the window. `IInv` states all of it
(`PeerConsistent`) with the pending count and the ordinals. The argument:

1. arithmetic modulo `Mod` (`ModCases`, `ModUnique`, `DistAdd`, `SendArithmetic`,
   `AckArithmetic`);
2. each operator of `HdlcPeer` keeps `PeerConsistent` (`EnqueueConsistent`,
   `SendIFrameConsistent`, `ProcessNRConsistent`, `MoveBackConsistent`, ...);
3. one step per action (`NextIInv`), then temporal logic.

### The link: `HdlcLinkProofs`

`ImplementsStream`: two connected stations and a line that loses frames refine
`HdlcStream`, in NRM and ABM, half and full duplex, with and without REJ, for
every modulus, every window below it, and every number of frames, losses,
retries and early timers. `BothWindowsConsistent` and `NeverRejects` come out
of the same invariant. The assumptions are the ones on the constants of
`HdlcPeer` and `HdlcLink`; the one that matters is `Ks < Mod`, which
`ioHdlcPeerSetWindow` enforces.

`IInv` says, of each direction, where a station stands in the stream (the place
of a frame is its `data`) and what the numbers on the line can mean:

* the frames received are the first `Got` of the other's stream, V(R) is `Got`
  modulo `Mod`, and what the sender holds for acknowledged has been received
  (`ReceiveSide`);
* the receiver never got further than the highest frame sent (`SendSide`);
* every I-frame on the line is within a window of `Got` on either side, and no
  frame before it is a window ahead of it (`IFramesOK`): so an N(S) equal to
  V(R) belongs to the next frame and to no other (`NextPlace`);
* the N(R)s on the line do not decrease and acknowledge nothing that was not
  received (`AcksOK`): so each lies between N(R) and the highest V(S), and
  `isNRValid` accepts it (`NRValid`).

The line is a FIFO; the last two parts need that. They are preserved by sending
(`SentOK`), receiving (`ReceivedOK`), losing (`LostOK`), writing (`WrittenOK`) and
giving the link up (`AbortedOK`); one lemma for each action shows that it is one
of these and what the users see of it (`Becomes`); from there the invariant
(`BecomesOK`) and the step of `HdlcStream` (`BecomesStream`) follow.

`PollsAnswered`: as long as no station is busy (`[]NoBusy`), a TX thread that
goes to sleep leaves no poll unanswered. A busy NRM secondary does (row
`ioHdlc_core.c:1829` of section 3), so the hypothesis is not there for the proof.
`PollInv` names the reasons for which a thread with a poll is still awake
(`Attended`): its pending bit is set, flags are left over, it has sent nothing in
this round, the last frame of its NRM burst will carry F, or it owes a REJ, which
carries F. The last two hold only if nothing else cuts a burst short: nobody
sends RNR or raises URGENT, and REJ_ACTED comes with a REJ that is still owed.
An NRM primary is never polled. Each step keeps this because what notes a poll or
lets a poll be answered broadcasts an event (`PollCarried`).
`AmplePoolAnswers` replaces the hypothesis by one on the constants: with
`PoolLow` above everything the two stations write plus the frame being received,
no pool runs low and nobody gets busy (`Room`). Run `data` meets it
(`PoolLow = 99`).

`NeverSendTogether`: the stations of a half-duplex NRM link transmit in turn.
`Turn` says where the turn is: a P or F on the line is the last frame in its
direction, nothing is on the line in the other direction, and a station that may
send finds both empty. Two things pass the turn on besides P and F. A reply timer
gives it to the primary, and is right only if no answer is still to come:
`PatientLinks` (T1 longer than a round trip) is the condition the code leaves to
its configuration. And a secondary that goes to sleep with a poll unanswered
would send later, out of turn; the hypothesis `[](InTurns => PollAnswered)` is
what `PollsAnswered` proves, and `AmplePoolAlternates` puts the two together, with
conditions on the constants only. In half-duplex ABM both may start at once (row
`ioHdlc_core.c:450`), and there is nothing to prove.

`PrimaryKeepsTimer`: a primary that is up never waits without a timer. `Watch`
lists what it waits for: T1 or T3 runs, one has run out and its flag is on the
way to the TX thread, or the TX thread has the turn, owes a poll and is bound to
come to it (`Prompted`): it is in a round in which nothing keeps it from the
S-frame with P, or its pending bit, its flags or a writer on the way will start
one. The hypotheses are again what the code needs. A busy primary sets no P on
its I-frames (row `ioHdlc_core.c:1828`). In half duplex the secondary must not be
busy either: it would leave the poll unanswered. An ABM station may wait for ever
(`abm_poll_lost`). `OneWayKeepsTimer` has conditions on the constants only: data
from the primary alone, in full duplex, with any pool of the secondary; this is
the link of `nrm_flow`.

### Connections: `HdlcConnProofs`

`PeersAreCounted`: for every link, mode and set of secondaries, types are kept
and no peer is connected that `connected_count` does not count. The code does not
keep them equal (row `ioHdlc_core.c:345`): `resetPeerVars` clears `ss_state` and
leaves the counter. The direction that is proved is the one the code relies on:
the mode is left when the counter reaches zero, and then nobody is connected.

`OneConnectionKeepsMode` and `OneRequestIsServed`: an NRM link of which one
secondary is called, with any number of other secondaries, calls, losses,
retries, timeouts and resets. With two called, or in ABM, both properties are
false (rows `ioHdlc_core.c:273`, `:2071`, `:529`). Neither follows from anything
local: a handler of the primary leaves the mode when its command is given up, and
that this does not happen under a connection depends on which calls may still be
going on and on which answers may still be on the line. `OneLink` says, for the
peer that is called,

* who has the station: mode, receive handler, `connected_count` and `c_peer`
  follow the peer (`Owned`);
* where its call stands, what it was told, and which mode and command go with it
  (`Calling`);
* that a pending command has a timer, an expired one in the flags, or its
  LINK_REQ (`Pending`; in half duplex the LINK_REQ of a DISC may be dropped);
* that the command left by a call that timed out is a DISC which nothing sends,
  repeats or answers any more (`Abandoned`): its call ended with the line at
  rest, and no U-frame of it may come later, since the next call would take it
  for its own;
* that the secondary holds UM_RECVD for a command it has not answered, and is
  connected in NRM only (`Secondary`);
* that commands and responses are on the line in their directions only
  (`LineOK`).

Handlers change a context which is stored at the end of the critical section.
`...Sound` lemmas give its type, `...Does` lemmas list field by field what a
handler does, `...Kept` lemmas show `OneLink` for the stored context;
`OneLinkStep` has one case for each action.

`PatientCallersSeeNoGhost` and `TwoCallsLeaveNoGhost`: the primary of an NRM link
believes in no connection its secondary does not have (`NoGhost`), with any number
of secondaries called, losses and retries, in both duplex modes. No station is
reset (`MaxRestarts = 0`): a secondary that is reset forgets its connection, and
the primary learns of it from its polls only. The code does not give `NoGhost`
for nothing, since the answer to one command may be taken for the answer to the
next (row `ioHdlc_core.c:2046`). The first theorem names what the caller has to
respect, for any number of calls: when a link-up request is put into `um_cmd`, no
DISC for that secondary is under way or waits there for its answer, and if an
answer of it to an earlier command is still to come, it is connected
(`[]Unhurried`). The second has a condition on the constants only: with at most
two calls that is always so, whichever calls they are (`Few`: at the first two
calls nothing is being ended for which a link-up could come too early). Run `conn`
covers it in full duplex and goes one call further in half duplex, where
`NoGhost` needs five calls to fail.

`NoGhost` alone says nothing of the frames on the line. `Accord` says of each
peer (`Agreed`): if the primary takes it for connected, and has not sent it a
DISC, it is connected and no DISC is on its way to it or waits for its answer
(`Joined`); while a SNRM is pending, the peer is not leaving and any answer to
come finds it connected (`Settled`), so that a UA may be believed whichever SNRM
it answers. A response is accepted only while a command is outstanding, and then
either the command is a DISC or the peer is settled: this is the step where
`NoGhost` would break. A step of a secondary keeps it because a secondary leaves
only for a DISC (`Steady`).

### Read and write: `HdlcStreamIOProofs`

For every pool, pair of watermarks, window, limit and sizes (`PoolAssumption`,
`SizeAssumption`): `ReferencesBalance`, `CommittedOnce`, `ResetReported`,
`StreamsSeparate`, `NormalPoolHasFrames`, `TypeCorrect`.

References alone are not inductive: a release frees a frame, so every step has
to know who else may hold it. `IInv` counts for each frame the holders on the
stream side and in the driver separately and bounds both by one (`Balanced`),
says which threads can hold a frame at which point (`Roles`), ties a pending
reset to an admitted writer (`Admitted`), frames to their connection
(`OfSession`) and the watermark to the number of free frames (`WatermarkOK`).

### SPI: `HdlcSpiProofs`

For any frames, sends, faults and restarts (`LimitAssumption`,
`NoneAssumption`, `DmaAssumption`): `TransfersExclusive`,
`PipelineFollowsPort`, `FramesNotStranded`, `PortKeepsListening`. Their
hypotheses are the limits the code has (see the table of section 3), and the
instance of `spi` meets all of them:

* `Limit > 1`: with one tick the watchdog may abort a transfer whose completion
  is being served (`ioHdlcstream_spi.c:126`);
* `NoMasterRxErrors` for `FramesNotStranded`: a failed reception of the master
  tries no queued frame (`:388`);
* `NoTxErrors` for `PortKeepsListening`: a failed transmission drops the saved
  buffer (`:388`).

`IInv` describes a port at every point of a completion: the flags name the
transfer that runs (`Transfers`), how far the callback has got and what it left
(`Serving`), what a stopped side may hold (`Stopped`), the driver's frame in
flight (`Pipeline`), the buffer (`Listening`), the reason a queued frame waits
(`Waiting`), and that the master takes a packet of the slave for open only
while DATA_READY or its edge is still to come (`EpochSeen`).

### Link manager: `HdlcLinkManagerProofs`

`ManagerIInvCorrect`, `LinkKnownCorrect` and `LeavesNothingCorrect`. That a
sleeping manager knows its state is not inductive: an event may come at any step
between the last reading and the wait. `IInv` adds that the listeners are
registered exactly during the run (`Listening`) and that, at every step on the
way to the wait, a state not yet reported has its event still in the listener
(`Announced`). A step of the core keeps it because every change between
connected and not connected raises a wanted flag (`CoreKeepsIInv`); a step of
the thread, because only `Poll` and `Take` empty the listener and both lead to a
new reading unless it was empty (`StepKeepsIInv`).

### Receive parser: `HdlcParserProofs`

For every set of options, FCS backends and pool sizes the station accepts and
any octets from the line (`OptionsAssumption`, `BackendsAssumption` with FCS
sizes 0, 2 and 4, `PoolSizesAssumption`):
`TransfersInBounds`, `FramesAccounted`, `FcsAlwaysHandled`, `ReceiverTyped`.

`s_on_rx` never looks at how many octets the buffer holds: it computes the next
transfer, and the octet in which it looks for a flag, from `elen`. That is right
because the octets received and the octets awaited always add up to `elen + 1`
(`Tracked`), which each branch re-establishes in its own way: an FFF of one
octet adds the declared length, an FFF of two octets has its second octet in the
buffer already and awaits one less (`Type1SecondKeeps`; a length of 1 leaves
nothing to await, and this is the only empty transfer), the others step by one. The first
octets fit because `calculate_frame_size` yields three at least
(`FrameSizeRoom`). The theorems carry over to `HdlcDriver`, whose steps change
the receiver by steps of `HdlcParser`; that module itself is out of the prover's
reach, because `HdlcFraming` computes the CRC with bitwise operators.

### Only model-checked

* Liveness (`Delivery`, `WriteReturns`, `Released`, `Delivered`, `StopReturns`,
  `Reconnects`, `HalfOpenDetected`, `Concludes`): the prover does not handle
  fairness.
* `HalfDuplex` and `TimerWatches` outside the hypotheses above, where they are
  false (section 3).
* `Surveillance` of `HdlcConn`, which is about one secondary that is not asked to
  disconnect: the table of section 3 says what happens otherwise. Beyond its
  run TLC finds it true in both duplex modes with three calls, one loss and one
  reset. Likewise only checked: `NoGhost` with three calls in half duplex, on
  the link of `conn` with one loss.
* `HdlcConn` in ABM, except for types and counts; with two secondaries called,
  except for these and `NoGhost`.
* What the two ends of `HdlcDriver` compute (`Intact`, `PlanAgrees`): bitwise
  operators and folds over octets.

## 5. Not modelled

TEST, UI, SARM/ARM, the FRMR exchange after the condition is set; the timer
threads of the OSAL, start and stop of the runner; the layout of the frame
arena; chip select, cache maintenance and registers of the ports; the build of
the driver for the mock adapter; log, boards, tests. In `HdlcStreamIO` a read
consumes whole multiples of a fixed INFO length and a partial frame, and the
scatter/gather vector of a call is one length. In `HdlcDriver` the transmitting
station never restarts. In `HdlcConn`, a call that queued behind the retries of
another peer's command may in the code time out in the middle of its own; the
model lets a call time out only when nothing is being retried.

## 6. Plan

1. Theorems: `NoGhost` in half duplex with three calls; `ModeKept` in ABM
   for two calls.
2. Refinement: `HdlcStreamIO` and `HdlcSpi` to an abstract transmit pipeline
   that commits and releases a frame once.
3. TEST, UI and FRMR in `HdlcConn`; reconnection in `HdlcLink` (stale
   `rej_actioned`, late connections); multipoint data.
4. The OSAL timers and their threads; start and stop of the runner.

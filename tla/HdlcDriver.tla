------------------------------ MODULE HdlcDriver ------------------------------
(***************************************************************************)
(* The software driver over a UART port: one station sends, the other one  *)
(* receives (HdlcParser), octet by octet.  The line changes, loses or      *)
(* breaks octets, falls silent inside a frame, and the receiving station   *)
(* may be taken down and set up again at any time.                         *)
(***************************************************************************)
EXTENDS HdlcFraming, HdlcParser

CONSTANTS
    Addr,           \* address octet
    Infos,          \* INFO fields
    LineOctets,     \* the octets a disturbance may put on the line
    MaxSend, MaxFaults, MaxIdle     \* bounds

ASSUME OctetsAssumption == LineOctets \subseteq Octets

VARIABLES
    wire,   \* octets of the frame being sent that have not arrived
    tx,     \* transmit pipeline: frame in flight and raw_q
    sent,   \* history: the frames sent; ok: nothing is known to be against it
    got,    \* history: the payloads drv_recv_frame returned
    left    \* what remains of the bounds

vars == <<cfg, wire, tx, drv, sent, got, left>>

(***************************************************************************)
(* The transmit side.                                                      *)
(***************************************************************************)
\* The receiver is at rest between two frames.
Between(d) == d.up /\ d.elen = 0

\* Nothing stands against the frame of these octets: it can be told apart from
\* what surrounds it, it is long enough and not too long.
Regular(s) ==
    /\ cfg.tr \/ cfg.fff # 0 \/ FLAG \notin ToSet(Front(s))
    /\ Len(s) - 1 \in MinLen..(cfg.framesize - 1)

\* Frame i is handed to the UART.
Submit(snt, i, open) ==
    [snt EXCEPT ![i].ok = /\ Regular(snt[i].oct)
                          /\ Between(drv)
                          /\ open \/ (snt[i - 1].ok /\ ~drv.miss)]

Spoil(snt) == IF tx.infl = 0 THEN snt ELSE [snt EXCEPT ![tx.infl].ok = FALSE]

Init ==
    /\ RxInit
    /\ wire = <<>>
    /\ tx = [infl |-> 0, rawq |-> <<>>]
    /\ sent = <<>>
    /\ got = <<>>
    /\ left = [faults |-> MaxFaults, idle |-> MaxIdle]

\* drv_send_frame.  The control octet numbers the frames.
Send ==
    LET i == Len(sent) + 1
    IN  /\ i <= MaxSend
        /\ \E info \in Infos :
             LET p   == <<Addr, 16 + i>> \o info
                 snt == Append(sent, [pay |-> p, oct |-> Materialized(cfg, p), ok |-> FALSE])
             IN  /\ Len(info) <= cfg.mifl /\ ~TooLong(cfg, Len(p))
                 /\ IF tx.infl = 0
                      THEN /\ wire' = <<FLAG>> \o snt[i].oct
                           /\ tx' = [tx EXCEPT !.infl = i]
                           /\ sent' = Submit(snt, i, TRUE)
                      ELSE /\ tx' = [tx EXCEPT !.rawq = Append(@, i)]
                           /\ sent' = snt
                           /\ UNCHANGED wire
        /\ UNCHANGED <<cfg, drv, got, left>>

\* chb_txend_cb, s_on_tx_done: the next frame follows without opening flag.
TxEnd ==
    /\ tx.infl # 0 /\ wire = <<>>
    /\ IF tx.rawq = <<>>
         THEN /\ tx' = [tx EXCEPT !.infl = 0]
              /\ UNCHANGED <<wire, sent>>
         ELSE LET i == Head(tx.rawq)
              IN  /\ tx' = [infl |-> i, rawq |-> Tail(tx.rawq)]
                  /\ wire' = sent[i].oct
                  /\ sent' = Submit(sent, i, FALSE)
    /\ UNCHANGED <<cfg, drv, got, left>>

(***************************************************************************)
(* The line.                                                               *)
(***************************************************************************)
\* An octet arrives as it was sent.
Arrive ==
    /\ wire # <<>>
    /\ wire' = Tail(wire)
    /\ RxOctet(Head(wire))
    /\ sent' = IF drv'.miss /\ wire' # <<>> THEN Spoil(sent) ELSE sent
    /\ UNCHANGED <<tx, got, left>>

\* An octet is changed, lost, or arrives with an error.
Disturb ==
    /\ wire # <<>> /\ left.faults > 0
    /\ wire' = Tail(wire)
    /\ \/ \E o \in LineOctets \ {Head(wire)} : RxOctet(o)
       \/ UNCHANGED receiver
       \/ RxError
    /\ sent' = Spoil(sent)
    /\ left' = [left EXCEPT !.faults = @ - 1]
    /\ UNCHANGED <<tx, got>>

LineIdle ==
    /\ wire = <<>> /\ tx.infl = 0
    /\ left.idle > 0
    /\ RxIdle
    /\ left' = [left EXCEPT !.idle = @ - 1]
    /\ UNCHANGED <<wire, tx, sent, got>>

(***************************************************************************)
(* The RX thread takes a frame, which the core sees if it is valid.        *)
(***************************************************************************)
Recv ==
    /\ RxTake
    /\ got' = IF drv.q = <<>> THEN got
              ELSE LET t == Unframed(cfg, Head(drv.q))
                   IN  IF Valid(cfg, t) THEN Append(got, Payload(cfg, t)) ELSE got
    /\ UNCHANGED <<wire, tx, sent, left>>

Stop ==
    /\ left.faults > 0
    /\ RxStop
    /\ sent' = [i \in DOMAIN sent |-> [sent[i] EXCEPT !.ok = FALSE]]
    /\ left' = [left EXCEPT !.faults = @ - 1]
    /\ UNCHANGED <<wire, tx, got>>

Start ==
    /\ RxStart
    /\ UNCHANGED <<wire, tx, sent, got, left>>

Next ==
    Send \/ TxEnd \/ Arrive \/ Disturb \/ LineIdle \/ Recv \/ Stop \/ Start

Spec == Init /\ [][Next]_vars

\* The UART ends its transfers, the octets sent move on, the RX thread runs.
Fairness ==
    /\ WF_vars(TxEnd)
    /\ WF_wire(wire # <<>> /\ wire' = Tail(wire))
    /\ WF_drv(drv.up /\ drv.sem > 0 /\ drv' = TakeOne(drv))

FairSpec == Spec /\ Fairness

(***************************************************************************)
(* Properties.                                                             *)
(***************************************************************************)
\* With an FCS the core sees only frames that were sent, in their order and
\* none twice: neither noise nor a start inside a frame nor flags in the data
\* make up a frame or carry one over into another.
Intact ==
    cfg.fcs # 0 =>
       \A j \in DOMAIN got :
          /\ got[j] \in {sent[i].pay : i \in DOMAIN sent}
          /\ j > 1 => got[j - 1][2] < got[j][2]

\* The two ways to prepare a transmission put the same octets on the wire,
\* with the FCS computed by the driver or left to the port.
PlanAgrees ==
    sent = <<>> /\ ~cfg.tr =>
       \A info \in Infos, open \in BOOLEAN, defer \in {FALSE, cfg.fcs # 0} :
          LET p    == <<Addr, 17>> \o info
              plan == TxPlan(cfg, p, open, defer)
              w    == PortWire(cfg, plan, defer)
          IN  /\ w = (IF open THEN <<FLAG>> ELSE <<>>) \o Materialized(cfg, p)
              /\ Len(w) = plan.wire_len

\* The receiver finds its way back: a frame that is sent with its own flag while
\* the receiver stands between two frames, or right after such a frame, and that
\* nothing disturbs, is returned to the core, whatever went wrong before it.
Delivered ==
    \A i \in 1..MaxSend :
       (i \in DOMAIN sent /\ sent[i].ok)
          ~> (i \in DOMAIN sent /\ (~sent[i].ok \/ sent[i].pay \in ToSet(got)))

=============================================================================

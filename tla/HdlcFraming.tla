----------------------------- MODULE HdlcFraming -----------------------------
(***************************************************************************)
(* What a frame looks like on the wire: frame format field (FFF), FCS,     *)
(* octet transparency, and the two ways the driver prepares a              *)
(* transmission.  A frame is the sequence of its octets.                   *)
(***************************************************************************)
EXTENDS HdlcConfig, SequencesExt, FiniteSets, Bitwise

CTLESC == 125
TMASK == 32

(***************************************************************************)
(* FCS-16.                                                                 *)
(***************************************************************************)
\* The table as its generator computes it.
fcstab ==
    [b \in 0..255 |->
        FoldLeft(LAMBDA v, i : IF v % 2 = 1 THEN (v \div 2) ^^ 33800 ELSE v \div 2,
                 b, [i \in 1..8 |-> i])]

updateFCS(crc, s) ==
    LET step[v \in 0..65535, o \in 0..255] == (v \div 256) ^^ fcstab[(v % 256) ^^ o]
    IN  FoldLeft(LAMBDA v, o : step[v, o], crc, s)

\* s_fcs_compute_sw: the low octet comes first.
ComputeFCS(s) ==
    LET crc == 65535 ^^ updateFCS(65535, s) IN <<crc % 256, crc \div 256>>

\* s_fcs_check_sw
CheckFCS(s) == updateFCS(65535, s) = 61624

(***************************************************************************)
(* Transparency.                                                           *)
(***************************************************************************)
Escaped(o) == o \in {FLAG, CTLESC}

TransparentEncode(s) ==
    FoldLeft(LAMBDA d, o : IF Escaped(o) THEN d \o <<CTLESC, o ^^ TMASK>>
                                         ELSE Append(d, o),
             <<>>, s)

\* An escape that is the last octet takes the octet behind the frame, which is
\* the closing flag.
TransparentDecode(s) ==
    LET d == FoldLeft(LAMBDA a, o :
                         IF a.esc THEN [esc |-> FALSE, out |-> Append(a.out, o ^^ TMASK)]
                         ELSE IF o = CTLESC THEN [a EXCEPT !.esc = TRUE]
                         ELSE [a EXCEPT !.out = Append(@, o)],
                      [esc |-> FALSE, out |-> <<>>], s)
    IN  IF d.esc THEN Append(d.out, FLAG ^^ TMASK) ELSE d.out

(***************************************************************************)
(* Transmission.  A payload is address, control and INFO.                  *)
(***************************************************************************)
\* s_emit_fff refuses the frame with EMSGSIZE.
TooLong(c, len) ==
    LET total == len + c.fff + c.fcs
    IN  \/ c.fff = 1 /\ total >= 128
        \/ c.fff = 2 /\ total >= 4096

EmitFff(c, len) ==
    LET total == len + c.fff + c.fcs
    IN  CASE c.fff = 0 -> <<>>
          [] c.fff = 1 -> <<total>>
          [] c.fff = 2 -> <<128 + total \div 256, total % 256>>

Fcs(c, s) == IF c.fcs = 0 THEN <<>> ELSE ComputeFCS(s)

\* s_materialize_tx_frame and the transparent path of drv_send_frame: the
\* octets behind the opening flag.
Materialized(c, p) ==
    LET s == EmitFff(c, Len(p)) \o p
        t == s \o Fcs(c, s)
    IN  Append(IF c.tr THEN TransparentEncode(t) ELSE t, FLAG)

\* Mutant of TxPlan: the opening flag is covered by the FCS.
TxPlanFlagCovered(c, p, open, defer) ==
    LET prefix == (IF open THEN <<FLAG>> ELSE <<>>)
                  \o EmitFff(c, Len(p)) \o SubSeq(p, 1, 2)
        body   == SubSeq(p, 3, Len(p))
        suffix == Append(IF defer THEN <<>> ELSE Fcs(c, prefix \o body), FLAG)
    IN  [segv     |-> SelectSeq(<<prefix, body, suffix>>, LAMBDA s : s # <<>>),
         begin    |-> 0,
         end_seg  |-> IF body # <<>> THEN 2 ELSE 1,
         end      |-> IF body # <<>> THEN Len(body) ELSE Len(prefix),
         wire_len |-> Len(prefix \o body \o suffix) + (IF defer THEN c.fcs ELSE 0)]

\* s_build_tx_plan: segments for a port that gathers them.  The FCS covers the
\* octets from offset begin of the first segment to offset end of end_seg.
TxPlan(c, p, open, defer) ==
    LET prefix == (IF open THEN <<FLAG>> ELSE <<>>)
                  \o EmitFff(c, Len(p)) \o SubSeq(p, 1, 2)
        from   == IF open THEN 1 ELSE 0
        body   == SubSeq(p, 3, Len(p))
        cover  == SubSeq(prefix, from + 1, Len(prefix)) \o body
        suffix == Append(IF defer THEN <<>> ELSE Fcs(c, cover), FLAG)
    IN  [segv     |-> SelectSeq(<<prefix, body, suffix>>, LAMBDA s : s # <<>>),
         begin    |-> from,
         end_seg  |-> IF body # <<>> THEN 2 ELSE 1,
         end      |-> IF body # <<>> THEN Len(body) ELSE Len(prefix),
         wire_len |-> Len(prefix \o body \o suffix) + (IF defer THEN c.fcs ELSE 0)]

\* What the port makes of a plan: it sends the segments, and computes the FCS
\* when that is left to it.
PortWire(c, plan, defer) ==
    LET first == SubSeq(plan.segv[1], plan.begin + 1,
                        IF plan.end_seg = 1 THEN plan.end ELSE Len(plan.segv[1]))
        cover == first \o (IF plan.end_seg = 2 THEN SubSeq(plan.segv[2], 1, plan.end)
                                               ELSE <<>>)
        all   == FlattenSeq(plan.segv)
    IN  IF defer THEN Front(all) \o Fcs(c, cover) \o <<Last(all)>> ELSE all

(***************************************************************************)
(* Reception: drv_recv_frame on a frame the parser delivered.              *)
(***************************************************************************)
Unframed(c, s) == IF c.tr THEN TransparentDecode(s) ELSE s

DeclaredLen(t) == IF t[1] >= 128 THEN (t[1] % 16) * 256 + t[2] ELSE t[1]

\* Mutant of Valid: the FCS is not looked at.
ValidLengthOnly(c, t) == c.fff # 0 /\ t # <<>> => DeclaredLen(t) = Len(t)

Valid(c, t) ==
    /\ c.fcs = 0 \/ CheckFCS(t)
    /\ c.fff # 0 /\ t # <<>> => DeclaredLen(t) = Len(t)

\* The payload the core finds: behind the FFF, without the FCS.
Payload(c, t) == SubSeq(t, c.fff + 1, Len(t) - c.fcs)

=============================================================================

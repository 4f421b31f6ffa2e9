----------------------------- MODULE HdlcConfig -----------------------------
(***************************************************************************)
(* Configuration of a station and of its software driver.  A configuration *)
(* has the fields pool (frames of the pool), fcs (octets of FCS), tr       *)
(* (transparency), fff (octets of the frame format field), framesize       *)
(* (octets of a frame buffer) and mifl (longest INFO field of a peer).     *)
(***************************************************************************)
EXTENDS Naturals, Sequences

CONSTANTS
    Options,        \* the options a station may be given
    Backends,       \* the FCS backends it may be given
    PoolSizes       \* frames its pool may have

(***************************************************************************)
(* The options of a station: FFF, STB and INH, the FFF type and the        *)
(* longest INFO field asked for, 0 for the longest one.                    *)
(***************************************************************************)
Option == [fff : BOOLEAN, stb : BOOLEAN, inh : BOOLEAN, type : Nat, info : Nat]

\* The FCS sizes a hook handles, the preferred one, and which of the two
\* functions it has.
Backend == [sizes : SUBSET {0, 2, 4}, default : Nat, check : BOOLEAN, compute : BOOLEAN]

ASSUME OptionsAssumption == Options \subseteq Option
ASSUME BackendsAssumption == Backends \subseteq Backend
ASSUME PoolSizesAssumption == PoolSizes \subseteq Nat \ {0}

FLAG == 126
MinLen == 4     \* HDLC_BASIC_MIN_L

(***************************************************************************)
(* FCS backends, and what the driver makes of them.  offload: the FCS      *)
(* sizes the port computes; contig: the port needs a contiguous image.     *)
(***************************************************************************)
NoBackend == [sizes |-> {}, default |-> 2, check |-> FALSE, compute |-> FALSE]
BaseSizes == {0, 2}

\* Mutant of FcsCaps: a backend that can only check counts as well.
FcsCapsCheckOnly(b) == BaseSizes \cup (IF b.check THEN b.sizes ELSE {})

\* s_resolve_fcs_caps
FcsCaps(b) == BaseSizes \cup (IF b.check /\ b.compute THEN b.sizes ELSE {})

DefaultFcs(b) == IF b.default \in FcsCaps(b) THEN b.default ELSE 2

\* s_resolve_fcs_policy
FcsPolicy(b, port, c) ==
    IF c.fcs = 0
      THEN [check |-> "none", compute |-> "none", defer |-> FALSE]
      ELSE [check   |-> IF b.check /\ c.fcs \in b.sizes THEN "backend" ELSE "sw",
            compute |-> IF b.compute /\ c.fcs \in b.sizes THEN "backend" ELSE "sw",
            defer   |-> ~c.tr /\ ~port.contig /\ c.fcs \in port.offload]

\* drv_configure accepts the configuration.
Accepts(b, fcs, tr, fff) ==
    fcs \in FcsCaps(b) /\ fff \in 0..2 /\ ~(tr /\ fff # 0)

(***************************************************************************)
(* ioHdlcStationInit: from the options of a station to the configuration   *)
(* of its driver.  Control fields have one octet.                          *)
(***************************************************************************)
FffType(o) == IF o.type = 0 /\ o.fff THEN 1 ELSE o.type
Transparency(o) == o.stb /\ ~(o.fff /\ o.inh)

\* Conflicting options are refused, by the station or by the driver.
Refused(b, o) ==
    \/ o.fff /\ o.stb /\ ~o.inh
    \/ ~Accepts(b, DefaultFcs(b), Transparency(o), FffType(o))

\* max_info_len
MaxInfo(fff, fcs, info) ==
    CASE info # 0             -> info
      [] info = 0 /\ fff = 1  -> 127 - 3 - fcs
      [] info = 0 /\ fff = 2  -> 4095 - 4 - fcs
      [] OTHER                -> 122    \* IOHDLC_MAX_INFO_LEN_DEFAULT_NO_FFF

\* calculate_frame_size
CalculateFrameSize(fff, fcs, info, tr) ==
    LET asked == fff + 2 + info
        most  == (IF fff = 1 THEN 127 ELSE 4095) - fcs
        elen  == IF fff # 0 /\ asked > most THEN most ELSE asked
        size  == elen + fcs + 1
    IN  IF tr THEN 2 * size ELSE size

\* The configuration of a station whose pool has k frames.
Configured(b, o, k) ==
    LET fcs  == DefaultFcs(b)
        info == MaxInfo(FffType(o), fcs, o.info)
        size == CalculateFrameSize(FffType(o), fcs, info, Transparency(o))
    IN  [pool |-> k, fcs |-> fcs, tr |-> Transparency(o), fff |-> FffType(o),
         framesize |-> size, mifl |-> size - (FffType(o) + 2 + fcs + 1)]

\* The options a station is given, when they are accepted.
Configs ==
    {Configured(bo[1], bo[2], k) :
        k \in PoolSizes,
        bo \in {x \in Backends \X Options : ~Refused(x[1], x[2])}}
=============================================================================

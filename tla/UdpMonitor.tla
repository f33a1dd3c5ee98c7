----------------------------- MODULE UdpMonitor -----------------------------
(***************************************************************************)
(* Gnss_Synchro_Udp_Source: the monitoring client that receives the      *)
(* receiver's Gnss_Synchro and Monitor_Pvt datagrams over UDP and shows  *)
(* them in an ncurses table.                                              *)
(*                                                                         *)
(* The sender (gnss-sdr's monitor blocks, not in this directory) numbers *)
(* its datagrams 1, 2, ... here.  A Gnss_Synchro datagram holds one       *)
(* record per channel of Chans, [id, fs, seq], valid when fs # 0; a PVT  *)
(* datagram holds the NF fields of a Monitor_Pvt, each tagged with the    *)
(* datagram's number.  A datagram larger than the 1500-byte buff is cut: *)
(* ParseFromString then fails, or succeeds on the records before the cut  *)
(* when it falls between two; binary_iarchive reads the fields before     *)
(* the cut into monitor_pvt and throws.  The network may lose and         *)
(* duplicate datagrams, and reorder them unless InOrder.  The screen is   *)
(* what the table and the values column show; formatting is left out.    *)
(***************************************************************************)
EXTENDS Integers, Sequences, FiniteSets

CONSTANTS Chans, NF, MaxDg, InOrder

VARIABLES
    gnet, pnet,    \* datagrams in flight to the two ports
    gsent, psent,  \* datagrams sent of each kind
    channels,      \* std::map<int, GnssSynchro>: Chans -> record or NoRec
    heard,         \* <<seq, records parsed>> of every parsed Gnss_Synchro datagram
    monitorPvt,    \* the member monitor_pvt: field -> datagram number
    shown          \* the values column on the screen, or NoValues

udpVars == <<gnet, pnet, gsent, psent, channels, heard, monitorPvt, shown>>

NoRec == [id |-> -1, fs |-> 0, seq |-> 0]
NoValues == [f \in 1 .. NF |-> -1]

UdpInit ==
    /\ gnet = <<>> /\ pnet = <<>> /\ gsent = 0 /\ psent = 0
    /\ channels = [c \in Chans |-> NoRec] /\ heard = {}
    /\ monitorPvt = [f \in 1 .. NF |-> 0] /\ shown = NoValues

\* the sender: a Gnss_Synchro datagram with each channel valid or not, of
\* a size that fits the buffer or not
SendSynchro ==
    /\ gsent < MaxDg
    /\ \E valid \in SUBSET Chans, big \in BOOLEAN :
          gnet' = Append(gnet, [seq |-> gsent + 1, big |-> big,
                                obs |-> [c \in Chans |-> [id |-> c, fs |-> IF c \in valid THEN 1 ELSE 0,
                                                         seq |-> gsent + 1]]])
    /\ gsent' = gsent + 1
    /\ UNCHANGED <<pnet, psent, channels, heard, monitorPvt, shown>>

SendPvt ==
    /\ psent < MaxDg
    /\ \E big \in BOOLEAN : pnet' = Append(pnet, [seq |-> psent + 1, big |-> big])
    /\ psent' = psent + 1
    /\ UNCHANGED <<gnet, gsent, channels, heard, monitorPvt, shown>>

\* the position of the datagram socket.receive takes
Deliverable(q) == IF InOrder THEN {1} ELSE 1 .. Len(q)
Without(q, i) == SubSeq(q, 1, i - 1) \o SubSeq(q, i + 1, Len(q))

\* the network loses or duplicates a datagram in flight to a port
Faults(q) == {Without(q, i) : i \in 1 .. Len(q)}
             \cup {SubSeq(q, 1, i) \o SubSeq(q, i, Len(q)) : i \in {j \in 1 .. Len(q) : Len(q) < MaxDg}}
SynchroNetwork ==
    /\ gnet' \in Faults(gnet)
    /\ UNCHANGED <<pnet, gsent, psent, channels, heard, monitorPvt, shown>>
PvtNetwork ==
    /\ pnet' \in Faults(pnet)
    /\ UNCHANGED <<gnet, gsent, psent, channels, heard, monitorPvt, shown>>

(* read_gnss_synchro: the records ParseFromString yields from a datagram, *)
(* with ok FALSE when it fails.  A whole datagram parses; a cut one     *)
(* fails or yields the records before the cut, one at least.              *)
Parses(d) ==
    IF ~d.big THEN {[ok |-> TRUE, recs |-> d.obs]}
    ELSE {[ok |-> FALSE, recs |-> <<>>]}
         \cup {[ok |-> TRUE, recs |-> [c \in {x \in Chans : x < k} |-> d.obs[c]]] :
                k \in Chans \ {0}}

\* mutant: records stored whatever their fs
PopulateChannelsAll(stocks) ==
    [c \in Chans |-> IF c \in DOMAIN stocks THEN stocks[c] ELSE channels[c]]

(* populate_channels: every valid record replaces the channel's entry;    *)
(* an entry is never removed.                                             *)
PopulateChannels(stocks) ==
    [c \in Chans |-> IF c \in DOMAIN stocks /\ stocks[c].fs # 0 THEN stocks[c] ELSE channels[c]]

(* print_table: receive a datagram (blocking until one is there), parse  *)
(* it and, when that succeeds, populate the channels and redraw the table *)
(* from them; a failed parse returns false and leaves both.               *)
PrintTable ==
    /\ gnet # <<>>
    /\ \E i \in Deliverable(gnet) : \E stocks \in Parses(gnet[i]) :
         /\ gnet' = Without(gnet, i)
         /\ IF ~stocks.ok
            THEN UNCHANGED <<channels, heard>>
            ELSE /\ channels' = PopulateChannels(stocks.recs)
                 /\ heard' = heard \cup {<<gnet[i].seq, stocks.recs>>}
    /\ UNCHANGED <<pnet, gsent, psent, monitorPvt, shown>>

(* read_monitor_pvt: binary_iarchive reads the fields in order straight   *)
(* into monitor_pvt; a cut datagram throws after k of them, which are     *)
(* already overwritten, and the call returns false.                       *)
ReadMonitorPvt(d) ==
    IF ~d.big THEN {<<[f \in 1 .. NF |-> d.seq], TRUE>>}
    ELSE {<<[f \in 1 .. NF |-> IF f <= k THEN d.seq ELSE monitorPvt[f]], FALSE>> : k \in 0 .. NF - 1}

\* mutant: the values column printed whatever the read returned
PrintValuesAlways ==
    /\ pnet # <<>>
    /\ \E i \in Deliverable(pnet) : \E r \in ReadMonitorPvt(pnet[i]) :
         /\ pnet' = Without(pnet, i)
         /\ monitorPvt' = r[1]
         /\ shown' = r[1]
    /\ UNCHANGED <<gnet, gsent, psent, channels, heard>>

(* print_values_column: read a Monitor_Pvt and, when the read succeeded, *)
(* print every field of monitor_pvt into the values column.               *)
PrintValuesColumn ==
    /\ pnet # <<>>
    /\ \E i \in Deliverable(pnet) : \E r \in ReadMonitorPvt(pnet[i]) :
         /\ pnet' = Without(pnet, i)
         /\ monitorPvt' = r[1]
         /\ shown' = IF r[2] THEN r[1] ELSE shown
    /\ UNCHANGED <<gnet, gsent, psent, channels, heard>>

(* print_variable_names_column: clear() the screen and write the names;  *)
(* the values column is blank until the next print_values_column.         *)
PrintVariableNamesColumn ==
    /\ shown' = NoValues
    /\ UNCHANGED <<gnet, pnet, gsent, psent, channels, heard, monitorPvt>>

\* the table of the Gnss_Synchro port, and the values of the PVT port
TableNext == SendSynchro \/ SynchroNetwork \/ PrintTable
ValuesNext == SendPvt \/ PvtNetwork \/ PrintValuesColumn \/ PrintVariableNamesColumn
=============================================================================

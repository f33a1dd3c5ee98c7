------------------------------ MODULE MC_Link ------------------------------
(***************************************************************************)
(* The receiver's two network links: a tracking channel exchanging       *)
(* packets with its TCP loop-filter server (TcpComm), or the monitoring  *)
(* client reading the Gnss_Synchro datagrams of its table or the PVT     *)
(* datagrams of its values column (UdpMonitor).  A state holds one of    *)
(* them, tagged by kind; the variables of the others keep their initial  *)
(* values.                                                                *)
(***************************************************************************)
EXTENDS TcpComm, UdpMonitor

VARIABLE kind

linkVars == <<tcpVars, udpVars>>
vars == <<kind, linkVars>>

\* the TCP variables of a behaviour about the monitoring client
TcpIdle == TcpInit /\ signal = "gps"

LinkIdle == TcpIdle /\ UdpInit

Init ==
    \/ kind = "tcp" /\ TcpInit /\ UdpInit
    \/ kind \in {"table", "values"} /\ TcpIdle /\ UdpInit

\* a closed channel stays closed; a client that took every datagram sent
\* waits in socket.receive
TcpDone == tpc = "closed" /\ UNCHANGED linkVars
UdpDone ==
    /\ gnet = <<>> /\ pnet = <<>>
    /\ kind = "table" => gsent = MaxDg
    /\ kind = "values" => psent = MaxDg
    /\ UNCHANGED linkVars

LinkNext ==
    \/ kind = "tcp" /\ TcpNext /\ UNCHANGED udpVars
    \/ kind = "tcp" /\ TcpDone
    \/ kind = "table" /\ TableNext /\ UNCHANGED tcpVars
    \/ kind = "values" /\ ValuesNext /\ UNCHANGED tcpVars
    \/ kind \in {"table", "values"} /\ UdpDone

Next == LinkNext /\ UNCHANGED kind

LinkFairness == TcpFairness

Spec == Init /\ [][Next]_vars /\ LinkFairness

\* NUM_TX_VARIABLES_GALILEO_E1 and _GPS_L1_CA are set in the tracking
\* blocks' headers, outside this directory: two request sizes, so that a
\* cut can fall at any float of either
MCNTX == [gal |-> 5, gps |-> 4]
MCNTXShort == [gal |-> 3, gps |-> 3]

\* the three results of the server's n-th reply
Reply(n) == <<<<"rx", n, 1>>, <<"rx", n, 2>>, <<"rx", n, 3>>>>

LinkTypeOK ==
    /\ kind \in {"tcp", "table", "values", "pri", "sat", "sort", "smooth", "snr"}
    /\ tpc \in {"listen", "ready", "reading", "caught", "closed"}
    /\ sent \in 0 .. MaxExchanges /\ served \in 0 .. MaxExchanges
    /\ channels \in [Chans -> [id : Chans \cup {-1}, fs : {0, 1}, seq : 0 .. MaxDg]]
    /\ tcpData \in Seq({Zero} \cup {<<"rx", n, j>> : n \in 1 .. MaxExchanges, j \in 1 .. 3})
    /\ shown \in [1 .. NF -> -1 .. MaxDg] /\ monitorPvt \in [1 .. NF -> 0 .. MaxDg]

(* When send_receive_tcp_packet_* returned through its normal path,      *)
(* *tcp_data_ holds the three results of the server's answer to exactly *)
(* this call's request: not zeros of an unfilled readbuf, nor the reply  *)
(* to an earlier request left in the stream.                              *)
ResultFresh == tpc = "ready" /\ callOk => tcpData = Reply(sent)

\* the newest valid record of channel c among the parsed datagrams
LatestHeard(c) ==
    LET S == {h \in heard : c \in DOMAIN h[2] /\ h[2][c].fs # 0}
    IN  IF S = {} THEN NoRec
        ELSE (CHOOSE h \in S : \A g \in S : g[1] <= h[1])[2][c]

(* With datagrams delivered in order (some lost or duplicated, some cut   *)
(* at 1500 bytes), the table shows for every channel the record of the   *)
(* newest datagram that was parsed and carried the channel valid.         *)
ChannelShowsLatest == \A c \in Chans : channels[c] = LatestHeard(c)

(* The values column never shows a torn Monitor_Pvt: all its fields come *)
(* from one datagram, although a cut datagram overwrites part of         *)
(* monitor_pvt before binary_iarchive throws.                             *)
ValuesNeverTorn == \A f, g \in 1 .. NF : shown[f] = shown[g]
=============================================================================

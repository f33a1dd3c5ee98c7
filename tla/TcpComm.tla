------------------------------ MODULE TcpComm ------------------------------
(***************************************************************************)
(* Tcp_Communication: a tracking channel that hands its correlator       *)
(* outputs to an external loop-filter server over TCP and takes the       *)
(* filtered errors back, one exchange per call.                           *)
(*                                                                         *)
(* The TCP connection is two byte streams, abstracted to streams of the  *)
(* 4-byte floats of the packets (c2s: channel to server, s2c: back).  A  *)
(* float is <<"id", k>> for the control id k of a request, <<"tx">> for  *)
(* its other variables, <<"rx", n, j>> for variable j of the server's    *)
(* n-th reply, Zero for the zeros of an unfilled readbuf.  write_some and *)
(* read_some may move fewer floats than asked (ShortIO); without it a     *)
(* write moves the whole packet and a read the whole reply, as over a     *)
(* loopback socket.  The server is not in this repository: it reads one  *)
(* request of NTX floats and answers <<its first float, three results>>. *)
(***************************************************************************)
EXTENDS Integers, Sequences, FiniteSets

CONSTANTS
    NTX,         \* signal -> NUM_TX_VARIABLES_GALILEO_E1 / _GPS_L1_CA
    NRX,         \* NUM_RX_VARIABLES
    MaxExchanges, \* bound on the exchanges of a run
    ShortIO      \* whether write_some/read_some may move part of a buffer

VARIABLES
    signal,      \* the signal of the channel: "gal" or "gps"
    tpc,         \* "listen", "ready", "reading", "caught", "closed"
    connected,   \* tcp_socket_ holds an accepted connection
    sent,        \* control id of the last request, 0 before any
    tcpData,     \* <<code, carrier, doppler>> of *tcp_data_
    c2s, s2c,    \* the two streams
    served,      \* replies the server has sent
    callOk       \* the last call returned through its normal path

tcpVars == <<signal, tpc, connected, sent, tcpData, c2s, s2c, served, callOk>>

Zero == <<"zero">>
MinOf(a, b) == IF a < b THEN a ELSE b

\* the floats of one request with control id k
Request(k) == [i \in 1 .. NTX[signal] |-> IF i = 1 THEN <<"id", k>> ELSE <<"tx">>]

TcpInit ==
    /\ signal \in {"gal", "gps"}
    /\ tpc = "listen" /\ connected = FALSE /\ sent = 0
    /\ tcpData = <<Zero, Zero, Zero>> /\ c2s = <<>> /\ s2c = <<>> /\ served = 0
    /\ callOk = FALSE

(* listen_tcp_connection: bind, listen and accept; an exception (the      *)
(* port in use, say) is caught and printed.  Either way it returns false. *)
ListenTcpConnection ==
    /\ tpc = "listen"
    /\ \E accepted \in BOOLEAN : connected' = accepted
    /\ tpc' = "ready"
    /\ UNCHANGED <<signal, sent, tcpData, c2s, s2c, served, callOk>>

\* mutant: a buffer one variable short
WriteSomeShort(n) ==
    /\ tpc = "ready" /\ sent < MaxExchanges
    /\ sent' = sent + 1
    /\ IF ~connected
       THEN tpc' = "caught" /\ UNCHANGED c2s
       ELSE /\ \E w \in (IF ShortIO THEN 1 .. n - 1 ELSE {n - 1}) :
                   c2s' = c2s \o SubSeq(Request(sent + 1), 1, w)
            /\ tpc' = "reading"
    /\ callOk' = FALSE
    /\ UNCHANGED <<signal, connected, tcpData, s2c, served>>

(* The write half of send_receive_tcp_packet_*: write_some of the packet; *)
(* on a socket with no connection it throws, and the handler waits on    *)
(* std::cin (CinReturns).                                                 *)
WriteSome(n) ==
    /\ tpc = "ready" /\ sent < MaxExchanges
    /\ sent' = sent + 1
    /\ IF ~connected
       THEN tpc' = "caught" /\ UNCHANGED c2s
       ELSE /\ \E w \in (IF ShortIO THEN 1 .. n ELSE {n}) :
                   c2s' = c2s \o SubSeq(Request(sent + 1), 1, w)
            /\ tpc' = "reading"
    /\ callOk' = FALSE
    /\ UNCHANGED <<signal, connected, tcpData, s2c, served>>

SendGalileoE1 == signal = "gal" /\ WriteSome(NTX["gal"])
SendGpsL1Ca   == signal = "gps" /\ WriteSome(NTX["gps"])

\* mutant: the variables recovered from readbuf[0..2]
ReadSomeShifted ==
    /\ tpc = "reading" /\ s2c # <<>>
    /\ \E r \in (IF ShortIO THEN 1 .. MinOf(NRX, Len(s2c)) ELSE {MinOf(NRX, Len(s2c))}) :
         LET readbuf == SubSeq(s2c, 1, r) \o [i \in 1 .. NRX - r |-> Zero]
         IN  /\ s2c' = SubSeq(s2c, r + 1, Len(s2c))
             /\ IF readbuf[1] # <<"id", sent>>
                THEN tpc' = "caught" /\ UNCHANGED <<tcpData, callOk>>
                ELSE tpc' = "ready" /\ tcpData' = SubSeq(readbuf, 1, 3) /\ callOk' = TRUE
    /\ UNCHANGED <<signal, connected, sent, c2s, served>>

(* The read half: read_some blocks until some floats arrived and takes   *)
(* up to NRX of them into the zeroed readbuf; a first float other than   *)
(* the control id throws "Packet error!" and the handler waits on        *)
(* std::cin; otherwise readbuf[1..3] are stored in *tcp_data_.            *)
ReadSome ==
    /\ tpc = "reading" /\ s2c # <<>>
    /\ \E r \in (IF ShortIO THEN 1 .. MinOf(NRX, Len(s2c)) ELSE {MinOf(NRX, Len(s2c))}) :
         LET readbuf == SubSeq(s2c, 1, r) \o [i \in 1 .. NRX - r |-> Zero]
         IN  /\ s2c' = SubSeq(s2c, r + 1, Len(s2c))
             /\ IF readbuf[1] # <<"id", sent>>
                THEN tpc' = "caught" /\ UNCHANGED <<tcpData, callOk>>
                ELSE tpc' = "ready" /\ tcpData' = SubSeq(readbuf, 2, 4) /\ callOk' = TRUE
    /\ UNCHANGED <<signal, connected, sent, c2s, served>>

(* The catch block's std::cin >> controlc returns once the user types a *)
(* number, or at once when stdin is at its end (a receiver run as a     *)
(* service), and the call returns with *tcp_data_ as it was.            *)
CinReturns ==
    /\ tpc = "caught"
    /\ tpc' = "ready"
    /\ UNCHANGED <<signal, connected, sent, tcpData, c2s, s2c, served, callOk>>

ReceiveGalileoE1 == signal = "gal" /\ ReadSome
ReceiveGpsL1Ca   == signal = "gps" /\ ReadSome

(* close_tcp_connection, when the channel stops.                          *)
CloseTcpConnection ==
    /\ tpc = "ready"
    /\ tpc' = "closed"
    /\ UNCHANGED <<signal, connected, sent, tcpData, c2s, s2c, served, callOk>>

(* The server: one whole request in, one reply of NRX floats out.         *)
Serve ==
    /\ Len(c2s) >= NTX[signal]
    /\ s2c' = s2c \o [i \in 1 .. NRX |-> IF i = 1 THEN c2s[1] ELSE <<"rx", served + 1, i - 1>>]
    /\ c2s' = SubSeq(c2s, NTX[signal] + 1, Len(c2s))
    /\ served' = served + 1
    /\ UNCHANGED <<signal, tpc, connected, sent, tcpData, callOk>>

TcpNext ==
    \/ ListenTcpConnection
    \/ SendGalileoE1 \/ SendGpsL1Ca
    \/ Serve
    \/ ReceiveGalileoE1 \/ ReceiveGpsL1Ca
    \/ CinReturns
    \/ CloseTcpConnection

\* the channel and the server keep running: a read_some with data waiting
\* returns, and a server with a whole request answers it
TcpFairness == WF_tcpVars(ReadSome) /\ WF_tcpVars(Serve)
=============================================================================

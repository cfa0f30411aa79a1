------------------------------ MODULE MCHdlcTcp ------------------------------
(***************************************************************************)
(* Three clients, one of which sends, and either one failing system call   *)
(* and a descriptor more than there are slots, or none to spare; and, in   *)
(* other behaviours, the client program with every kind of command line.   *)
(* The two share nothing: one of them runs, and the other stays as it is.  *)
(***************************************************************************)
EXTENDS HdlcTcpServer

CONSTANT Config   \* of HdlcTcpClient
ASSUME ConfigAssumption ==
    Config \subseteq [auto_reconnect : BOOLEAN, max_reconnect : Int, send_data : BOOLEAN]

VARIABLES config, at, calledFrom, connected, should_reconnect, reconnect_count, sock, open,
          unread, expired, batch, serverUp, delivered, failures

TcpClient == INSTANCE HdlcTcpClient
programVars == <<config, at, calledFrom, connected, should_reconnect, reconnect_count, sock, open,
                 unread, expired, batch, serverUp, delivered, failures>>
tcpVars == <<serverVars, programVars>>

MCPackets == <<2, 0, 0>>
MCConfig == [auto_reconnect : BOOLEAN, max_reconnect : {-1, 0, 2}, send_data : BOOLEAN]

ServerRuns == at = "off"

Init ==
    /\ InitServer
    /\ \/ faults = 0 /\ TcpClient!InitClient
       \/ /\ config = CHOOSE c \in Config : TRUE
          /\ at = "off" /\ calledFrom = "run_client" /\ connected = FALSE /\ should_reconnect = FALSE
          /\ reconnect_count = 0 /\ sock = "none" /\ open = 0 /\ unread = FALSE /\ expired = FALSE
          /\ batch = <<>> /\ serverUp = TRUE /\ delivered = FALSE /\ failures = 0

Next ==
    \/ ServerRuns /\ NextServer /\ UNCHANGED programVars
    \/ ~ServerRuns /\ TcpClient!NextClient /\ UNCHANGED serverVars

\* The fairness of HdlcTcpServer and of HdlcTcpClient.
Fairness ==
    /\ WF_serverVars(ServerRuns /\ ServerStep)
    /\ WF_programVars(TcpClient!ClientStep) /\ WF_programVars(TcpClient!Tick)
    /\ SF_programVars(TcpClient!BeginConnect /\ sock' = "pending")
    /\ SF_programVars(TcpClient!Answered) /\ SF_programVars(TcpClient!ConnectSucceeds)
Spec == Init /\ [][Next]_tcpVars /\ Fairness

\* Every open descriptor of the server belongs to one slot, and the client program has one socket
\* open while it connects or is connected, and none else.
NoDescriptorLeaks == NothingLeaks /\ (~ServerRuns => TcpClient!OneSocket)

\* The client program reconnects as it was told: without a limit it is connected again and again
\* while the server is up, and with one it gives up after exactly max_reconnect repetitions.
ReconnectsAsTold ==
    /\ ServerRuns \/ TcpClient!Reconnects
    /\ [](~ServerRuns => TcpClient!GivesUpInTime)

\* "-s <data>     Send data to server" (src/tutorial_libezutil/hdlc_tcp_client.c:484): once the client
\* program is connected and waits for events, the data of the command line has been sent.
SendsWhatWasAsked == TcpClient!SendsWhatWasAsked
=============================================================================

---------------------------- MODULE HdlcTcpClient ----------------------------
(***************************************************************************)
(* The client of src/tutorial_libezutil/hdlc_tcp_client.c: one connection, *)
(* a timer that tries to reconnect, and one epoll that reports both, which *)
(* connect_to_server waits on as well while the main loop is inside        *)
(* handle_timer.  The server and the network come and go at any moment     *)
(* between two system calls.                                               *)
(*                                                                         *)
(* What is received is HdlcReceiver's matter.  Left out: that the new      *)
(* handler a disconnect asks for may be NULL, after which every piece is   *)
(* refused by hdlc_ondata.                                                 *)
(***************************************************************************)
EXTENDS Integers, Sequences, FiniteSets

CONSTANTS
    Config   \* the command lines: auto_reconnect, max_reconnect (below 0: no limit), send_data given

VARIABLES
    config,      \* the command line of this client
    at,          \* what the client is at
    calledFrom,  \* who called try_connect: run_client or handle_timer
    connected, should_reconnect, reconnect_count,   \* as in g_client
    sock,        \* the state of the newest socket, "none" when it is closed
    open,        \* how many sockets are open
    unread,      \* the socket has something to report: data, or its end
    expired,     \* the timer has expired
    batch,       \* the events of the last epoll_wait of run_client not handled yet
    serverUp,    \* the server accepts connections
    delivered,   \* the data of the command line was sent
    failures     \* attempts that have failed since the last connection

clientVars == <<config, at, calledFrom, connected, should_reconnect, reconnect_count, sock, open,
                unread, expired, batch, serverUp, delivered, failures>>
connection == <<connected, reconnect_count, sock, open, unread, failures>>

(***************************************************************************)
(* The server, the network and the timer.                                  *)
(***************************************************************************)
ServerChanges ==
    /\ serverUp' = ~serverUp
    /\ UNCHANGED <<config, at, calledFrom, connection, should_reconnect, expired, batch, delivered>>

\* A connect under way is answered.
Answered ==
    /\ sock = "pending"
    /\ sock' = IF serverUp THEN "established" ELSE "refused"
    /\ UNCHANGED <<config, at, calledFrom, connected, should_reconnect, reconnect_count, open, unread,
                   expired, batch, serverUp, delivered, failures>>

\* The server sends, or ends the connection.
ServerActs ==
    /\ sock = "established"
    /\ unread' = TRUE
    /\ sock' \in {"established", "ended"}
    /\ UNCHANGED <<config, at, calledFrom, connected, should_reconnect, reconnect_count, open,
                   expired, batch, serverUp, delivered, failures>>

Tick ==
    /\ config.auto_reconnect /\ at \notin {"exited", "off"} /\ ~expired
    /\ expired' = TRUE
    /\ UNCHANGED <<config, at, calledFrom, connection, should_reconnect, batch, serverUp, delivered>>

(***************************************************************************)
(* main: the data of the command line is sent if a connection exists, then *)
(* run_client makes the first attempt.                                     *)
(***************************************************************************)
SendInitial ==
    /\ at = "started"
    /\ delivered' = (config.send_data /\ connected)
    /\ at' = "trying" /\ calledFrom' = "run_client"
    /\ UNCHANGED <<config, connection, should_reconnect, expired, batch, serverUp>>

(***************************************************************************)
(* try_connect and connect_to_server.                                      *)
(***************************************************************************)
\* run_client leaves if the first attempt fails and there is none to come.
Back(should) == IF calledFrom = "handle_timer" THEN "handling"
                ELSE IF should THEN "polling" ELSE "exited"

GivesUp(n) == config.max_reconnect >= 0 /\ n > config.max_reconnect

\* Without a limit the number of attempts is only printed.
Failed ==
    LET n == IF config.max_reconnect >= 0 THEN reconnect_count + 1 ELSE 0
    IN  /\ reconnect_count' = n
        /\ should_reconnect' = (should_reconnect /\ ~GivesUp(n))
        /\ failures' = IF config.max_reconnect >= 0 THEN failures + 1 ELSE 0
        /\ at' = Back(should_reconnect')

BeginConnect ==
    /\ at = "trying"
    /\ \/ at' = "connecting" /\ sock' = "pending" /\ open' = open + 1
          /\ UNCHANGED <<reconnect_count, should_reconnect, failures>>
       \/ Failed /\ UNCHANGED <<sock, open>>             \* no socket, or epoll refuses it
    /\ unread' = FALSE
    /\ UNCHANGED <<config, calledFrom, connected, expired, batch, serverUp, delivered>>

\* The wait for the connect ends with another event or with none, or the connect was refused.
ForgetSocket == open
CloseSocket == open - 1

ConnectFails ==
    /\ at = "connecting"
    /\ Failed
    /\ sock' = "none" /\ open' = CloseSocket /\ unread' = FALSE
    /\ UNCHANGED <<config, calledFrom, connected, expired, batch, serverUp, delivered>>

\* Data that came before epoll watches for it is reported by EPOLL_CTL_MOD.
ConnectSucceeds ==
    /\ at = "connecting" /\ sock \in {"established", "ended"}
    /\ connected' = TRUE /\ reconnect_count' = 0 /\ failures' = 0
    /\ at' = IF calledFrom = "handle_timer" THEN "handling" ELSE "polling"
    /\ UNCHANGED <<config, calledFrom, should_reconnect, sock, open, unread, expired, batch, serverUp,
                   delivered>>

(***************************************************************************)
(* run_client: the main loop, handle_timer and handle_client_data.         *)
(***************************************************************************)
EpollWait ==
    /\ at = "polling"
    /\ expired \/ (connected /\ unread)
    /\ \E order \in {<<"timer", "socket">>, <<"socket", "timer">>} :
          batch' = SelectSeq(order, LAMBDA e : IF e = "timer" THEN expired ELSE connected /\ unread)
    /\ at' = "handling"
    /\ unread' = FALSE
    /\ UNCHANGED <<config, calledFrom, connected, should_reconnect, reconnect_count, sock, open, expired,
                   serverUp, delivered, failures>>

TriesAgain == ~connected /\ should_reconnect

HandleTimer ==
    /\ at = "handling" /\ batch # <<>> /\ Head(batch) = "timer"
    /\ expired' = FALSE
    /\ batch' = Tail(batch)
    /\ IF TriesAgain THEN at' = "trying" /\ calledFrom' = "handle_timer" ELSE UNCHANGED <<at, calledFrom>>
    /\ UNCHANGED <<config, connection, should_reconnect, serverUp, delivered>>

\* handle_disconnect.
StaysConnected == connected
ConnectedAfterDisconnect == FALSE

\* recv until it would block, or handle_disconnect at the end of the connection.
HandleSocket ==
    /\ at = "handling" /\ batch # <<>> /\ Head(batch) = "socket"
    /\ batch' = Tail(batch)
    /\ unread' = FALSE
    /\ IF connected /\ sock = "ended"
       THEN connected' = ConnectedAfterDisconnect /\ sock' = "none" /\ open' = CloseSocket
       ELSE UNCHANGED <<connected, sock, open>>
    /\ UNCHANGED <<config, at, calledFrom, should_reconnect, reconnect_count, expired, serverUp,
                   delivered, failures>>

EndOfBatch ==
    /\ at = "handling" /\ batch = <<>>
    /\ at' = "polling"
    /\ UNCHANGED <<config, calledFrom, connection, should_reconnect, expired, batch, serverUp, delivered>>

\* A signal ends the loop, and cleanup_client closes what is open.
Stop ==
    /\ at = "polling"
    /\ at' = "exited"
    /\ open' = IF connected THEN CloseSocket ELSE open
    /\ connected' = FALSE /\ sock' = "none" /\ unread' = FALSE /\ expired' = FALSE
    /\ UNCHANGED <<config, calledFrom, should_reconnect, reconnect_count, batch, serverUp, delivered, failures>>

InitClient ==
    /\ config \in Config
    /\ at = "started" /\ calledFrom = "run_client"
    /\ connected = FALSE /\ should_reconnect = config.auto_reconnect /\ reconnect_count = 0
    /\ sock = "none" /\ open = 0 /\ unread = FALSE /\ expired = FALSE /\ batch = <<>>
    /\ serverUp \in BOOLEAN /\ delivered = FALSE /\ failures = 0

ClientStep == \/ SendInitial \/ BeginConnect \/ ConnectFails \/ ConnectSucceeds
              \/ EpollWait \/ HandleTimer \/ HandleSocket \/ EndOfBatch
NextClient == ClientStep \/ ServerChanges \/ Answered \/ ServerActs \/ Tick \/ Stop

\* The client and its timer go on; and a server that can be reached answers, again and again,
\* before the wait for it is over.
Fairness ==
    /\ WF_clientVars(ClientStep) /\ WF_clientVars(Tick)
    /\ SF_clientVars(BeginConnect /\ sock' = "pending")
    /\ SF_clientVars(Answered) /\ SF_clientVars(ConnectSucceeds)

FairClient == InitClient /\ [][NextClient]_clientVars /\ Fairness
-----------------------------------------------------------------------------
\* However attempts fail and connections end, one socket is open while connecting or connected,
\* and none else.
OneSocket ==
    open = IF at = "connecting" \/ connected THEN 1 ELSE 0

\* The client gives up after exactly max_reconnect repetitions in a row have failed (-n), never
\* before and never without a limit; a connection in between starts the count anew.
GivesUpInTime ==
    LET max == config.max_reconnect
    IN  /\ max >= 0 => failures <= max + 1
        /\ config.auto_reconnect => (~should_reconnect <=> max >= 0 /\ failures > max)

\* With auto-reconnect and no limit, a client whose server stays up is connected again and again,
\* whatever has happened before.
Reconnects ==
    <>[]serverUp =>
        []<>(\/ connected /\ sock # "none"
             \/ at = "exited" \/ ~config.auto_reconnect \/ config.max_reconnect >= 0)

\* "-s <data>     Send data to server" (hdlc_tcp_client.c:484): once the client is connected and
\* waits for events, the data of the command line has been sent.
SendsWhatWasAsked ==
    config.send_data /\ connected /\ at = "polling" => delivered
=============================================================================

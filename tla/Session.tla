------------------------------- MODULE Session -------------------------------
(***************************************************************************)
(* A Sphynx client and server from the first hello to the last disconnect  *)
(* message (src/src/sphynx/Client.cpp, Server.cpp, Connexion.cpp, the       *)
(* disconnect of Transport.cpp).                                           *)
(*                                                                         *)
(* HELLO -> COOKIE -> CHALLENGE -> ANSWER.  The server keeps nothing for a  *)
(* client until its cookie comes back; then every challenge, also one sent  *)
(* or delivered twice, makes a new connexion with a key of its own.  The    *)
(* client is keyed by the first answer it takes.  Handshake packets may be  *)
(* lost, repeated and reordered: they stay in net.  Encrypted datagrams may *)
(* be lost and reordered, and are taken once (see ReplayWindow).  A key is  *)
(* a number: a datagram decrypts exactly where its key is.                  *)
(*                                                                         *)
(* Time is counted, coarsely, in ticks without a datagram (quiet) at both    *)
(* ends.                                                                   *)
(***************************************************************************)
EXTENDS Integers, FiniteSets

CONSTANTS MaxHello,       \* hellos until CONNECT_TIMEOUT
          MaxQuiet,       \* TIMEOUT_DISCONNECT in ticks
          ShutdownTicks,  \* SHUTDOWN_TICK_COUNT
          Slots,          \* ids of the connexion table
          MaxKeys         \* bound on the connexions made

ASSUME SessionAssumption ==
  /\ MaxHello \in Nat /\ MaxQuiet \in Nat \ {0} /\ ShutdownTicks \in Nat \ {0}
  /\ MaxKeys \in Nat /\ IsFiniteSet(Slots) /\ Slots # {}

VARIABLES client, conns, net, keys, serverUp
sessionVars == <<client, conns, net, keys, serverUp>>

NoKey == 0
Gone == [key |-> NoKey, disco |-> FALSE, countdown |-> 0, quiet |-> 0]

SessionInit ==
  /\ client = [worker |-> FALSE, connected |-> FALSE, key |-> NoKey,
               id |-> CHOOSE s \in Slots : TRUE, hellos |-> 0,
               disco |-> FALSE, countdown |-> ShutdownTicks, quiet |-> 0,
               destroyed |-> FALSE, freed |-> FALSE,
               connects |-> 0, reasons |-> 0, wrongOrder |-> FALSE]
  /\ conns = [s \in Slots |-> Gone]
  /\ net = {} /\ keys = 0 /\ serverUp = TRUE

-----------------------------------------------------------------------------
(* Messages *)

Hello == [type |-> "hello"]
CookieMsg == [type |-> "cookie"]
Challenge == [type |-> "challenge"]
Answer(k, s) == [type |-> "answer", key |-> k, id |-> s]
ErrorMsg == [type |-> "error"]
Up(k, s, op) == [type |-> "up", key |-> k, id |-> s, op |-> op]
Down(k, op) == [type |-> "down", key |-> k, op |-> op]

-----------------------------------------------------------------------------
(* Client *)

(* OnConnectFail() and Destroy(). *)
Failed(c) == [c EXCEPT !.destroyed = TRUE,
                       !.wrongOrder = @ \/ c.connects > 0]

(* Disconnect(): once; WriteDisconnect() and OnDisconnectReason().  (Nobody
   looks at the silence after it.) *)
Disconnected(c) == [c EXCEPT !.disco = TRUE, !.reasons = @ + 1, !.quiet = 0]
DiscoUp(c) == IF c.connected THEN {Up(c.key, c.id, "disco")} ELSE {}

(* FinalConnect(): the hello goes out before the worker is assigned. *)
ClientStart ==
  /\ client.hellos = 0 /\ ~client.destroyed
  /\ \/ net' = net \cup {Hello} /\ client' = [client EXCEPT !.hellos = 1]
     \/ net' = net /\ client' = Failed([client EXCEPT !.hellos = 1])
  /\ UNCHANGED <<conns, keys, serverUp>>

AssignWorker ==
  /\ client.hellos > 0 /\ ~client.worker /\ ~client.destroyed
  /\ client' \in {[client EXCEPT !.worker = TRUE], Failed(client)}
  /\ UNCHANGED <<conns, net, keys, serverUp>>

(* OnTick() before the connection: give up, or say hello again. *)
Ticks == client.worker /\ ~client.destroyed
TickHello ==
  /\ Ticks /\ ~client.connected /\ client.hellos < MaxHello
  /\ client' = [client EXCEPT !.hellos = @ + 1]
  /\ net' = net \cup {Hello}
  /\ UNCHANGED <<conns, keys, serverUp>>

\* Mutant: after Disconnect() the connect timeout is not looked at.
TickConnectFailsUnlessDisco ==
  /\ Ticks /\ ~client.connected /\ ~client.disco
  /\ client' = Failed(client)
  /\ UNCHANGED <<conns, net, keys, serverUp>>

(* CONNECT_TIMEOUT, or WriteHello() failed. *)
TickConnectFails ==
  /\ Ticks /\ ~client.connected
  /\ client' = Failed(client)
  /\ UNCHANGED <<conns, net, keys, serverUp>>

(* OnTick() of a connected client: a time ping or other data goes out, and
   the client gives up after a long silence. *)
TickConnected ==
  /\ Ticks /\ client.connected /\ ~client.disco
  /\ IF client.quiet + 1 >= MaxQuiet
       THEN /\ client' = Disconnected(client)
            /\ net' = net \cup DiscoUp(client)
       ELSE /\ client' = [client EXCEPT !.quiet = @ + 1]
            /\ net' = net \cup {Up(client.key, client.id, "data")}
  /\ UNCHANGED <<conns, keys, serverUp>>

\* Mutant: the end of the countdown is not acted on.
TickDiscoForever ==
  /\ Ticks /\ client.connected /\ client.disco
  /\ client' = [client EXCEPT !.countdown = @ - 1]
  /\ net' = net \cup DiscoUp(client)
  /\ UNCHANGED <<conns, keys, serverUp>>

(* TickTransport() after Disconnect(). *)
TickDisco ==
  /\ Ticks /\ client.connected /\ client.disco
  /\ client' = [client EXCEPT !.countdown = @ - 1,
                              !.destroyed = client.countdown = 1]
  /\ net' = IF client.countdown = 1 THEN net ELSE net \cup DiscoUp(client)
  /\ UNCHANGED <<conns, keys, serverUp>>

(* The application calls Disconnect(), perhaps before OnConnect(): then the
   handshake goes on, and a client that gets connected starts to disconnect. *)
UserDisconnect ==
  /\ ~client.destroyed /\ ~client.disco
  /\ client' = Disconnected(client)
  /\ net' = net \cup DiscoUp(client)
  /\ UNCHANGED <<conns, keys, serverUp>>

(* OnRecv() runs for datagrams that were routed to the worker, also after
   Destroy() until the object is freed. *)
Receives == client.worker /\ ~client.freed

OnCookie(m) ==
  /\ Receives /\ ~client.connected /\ m.type = "cookie"
  /\ \/ net' = net \cup {Challenge} /\ UNCHANGED client
     \/ client' = Failed(client) /\ UNCHANGED net      \* no buffer, or Write() failed
  /\ UNCHANGED <<conns, keys, serverUp>>

\* Mutant: a client that is connected takes another answer.
OnAnswerAgain(m) ==
  /\ Receives /\ m.type = "answer"
  /\ client' = [client EXCEPT !.connected = TRUE, !.key = m.key, !.id = m.id,
                              !.connects = @ + 1, !.quiet = 0]
  /\ net' = net \cup {Up(m.key, m.id, "data")}
  /\ UNCHANGED <<conns, keys, serverUp>>

OnAnswer(m) ==
  /\ Receives /\ ~client.connected /\ m.type = "answer"
  /\ client' = [client EXCEPT !.connected = TRUE, !.key = m.key, !.id = m.id,
                              !.connects = @ + 1, !.quiet = 0]
  /\ net' = net \cup {Up(m.key, m.id, "data")}
  /\ UNCHANGED <<conns, keys, serverUp>>

OnError(m) ==
  /\ Receives /\ ~client.connected /\ m.type = "error"
  /\ client' = Failed(client)
  /\ UNCHANGED <<conns, net, keys, serverUp>>

(* The empty datagram that stands for a closed socket. *)
OnClosed ==
  /\ Receives
  /\ IF client.connected
       THEN /\ ~client.disco
            /\ client' = Disconnected(client) /\ net' = net \cup DiscoUp(client)
       ELSE client' = Failed(client) /\ UNCHANGED net
  /\ UNCHANGED <<conns, keys, serverUp>>

OnDatagram(m) ==
  /\ Receives /\ client.connected /\ m.type = "down"
  /\ IF m.key = client.key /\ ~client.disco /\ m.op = "disco"
       THEN /\ client' = Disconnected(client)
            /\ net' = (net \ {m}) \cup DiscoUp(client)
       ELSE /\ client' = [client EXCEPT !.quiet = IF m.key = client.key THEN 0 ELSE @]
            /\ net' = net \ {m}
  /\ UNCHANGED <<conns, keys, serverUp>>

ClientFreed ==
  /\ client.destroyed /\ ~client.freed
  /\ client' = [client EXCEPT !.freed = TRUE]
  /\ UNCHANGED <<conns, net, keys, serverUp>>

-----------------------------------------------------------------------------
(* Server *)

OnHello(m) ==
  /\ m.type = "hello" /\ serverUp
  /\ net' = net \cup {CookieMsg}
  /\ UNCHANGED <<client, conns, keys, serverUp>>

(* A challenge whose cookie has not expired (see CookieJar; it may expire at
   any time, and is then ignored): an error, or a new connexion in a free slot
   and its answer. *)
OnChallenge(m) ==
  /\ m.type = "challenge" /\ serverUp
  /\ \/ /\ net' = net \cup {ErrorMsg}
        /\ UNCHANGED <<conns, keys>>
     \/ \E s \in Slots :
          /\ conns[s] = Gone /\ keys < MaxKeys
          /\ keys' = keys + 1
          /\ conns' = [conns EXCEPT ![s] =
                         [key |-> keys + 1, disco |-> FALSE,
                          countdown |-> ShutdownTicks, quiet |-> 0]]
          /\ net' = net \cup {Answer(keys + 1, s)}
  /\ UNCHANGED <<client, serverUp>>

(* Connexion::OnRecv of a datagram routed by its id. *)
ConnDatagram(m) ==
  /\ m.type = "up" /\ conns[m.id] # Gone
  /\ LET x == conns[m.id] IN
     IF m.key # x.key \/ x.disco
       THEN net' = net \ {m} /\ UNCHANGED conns
       ELSE /\ conns' = [conns EXCEPT ![m.id].quiet = 0,
                                      ![m.id].disco = m.op = "disco"]
            /\ net' = (net \ {m}) \cup {Down(x.key, m.op)}
  /\ UNCHANGED <<client, keys, serverUp>>

\* Mutant: disconnect messages go out and are not counted.
ConnTickUncounted(s) ==
  /\ conns[s] # Gone
  /\ IF conns[s].disco
       THEN /\ UNCHANGED conns
            /\ net' = net \cup {Down(conns[s].key, "disco")}
       ELSE /\ conns' = [conns EXCEPT ![s].disco = TRUE, ![s].quiet = 0]
            /\ net' = net \cup {Down(conns[s].key, "disco")}
  /\ UNCHANGED <<client, keys, serverUp>>

\* Mutant: a connexion does not mind the client's silence.
ConnTickPatient(s) ==
  /\ conns[s] # Gone
  /\ LET x == conns[s] IN
     \/ /\ x.disco /\ x.countdown = 1
        /\ conns' = [conns EXCEPT ![s] = Gone] /\ UNCHANGED net
     \/ /\ x.disco /\ x.countdown > 1
        /\ conns' = [conns EXCEPT ![s].countdown = @ - 1]
        /\ net' = net \cup {Down(x.key, "disco")}
     \/ /\ ~x.disco
        /\ UNCHANGED <<conns, net>>
  /\ UNCHANGED <<client, keys, serverUp>>

(* Connexion::OnTick. *)
ConnTick(s) ==
  /\ conns[s] # Gone
  /\ LET x == conns[s] IN
     \/ /\ x.disco /\ x.countdown = 1
        /\ conns' = [conns EXCEPT ![s] = Gone] /\ UNCHANGED net
     \/ /\ x.disco /\ x.countdown > 1
        /\ conns' = [conns EXCEPT ![s].countdown = @ - 1]
        /\ net' = net \cup {Down(x.key, "disco")}
     \/ /\ ~x.disco /\ x.quiet + 1 < MaxQuiet
        /\ conns' = [conns EXCEPT ![s].quiet = @ + 1] /\ UNCHANGED net
     \/ /\ ~x.disco /\ x.quiet + 1 >= MaxQuiet
        /\ conns' = [conns EXCEPT ![s].disco = TRUE, ![s].quiet = 0]
        /\ net' = net \cup {Down(x.key, "disco")}
  /\ UNCHANGED <<client, keys, serverUp>>

(* The server application disconnects a client. *)
ConnDisconnect(s) ==
  /\ conns[s] # Gone /\ ~conns[s].disco
  /\ conns' = [conns EXCEPT ![s].disco = TRUE, ![s].quiet = 0]
  /\ net' = net \cup {Down(conns[s].key, "disco")}
  /\ UNCHANGED <<client, keys, serverUp>>

(* The server is destroyed: every connexion with it, and nothing is sent. *)
ServerShutdown ==
  /\ serverUp
  /\ serverUp' = FALSE /\ conns' = [s \in Slots |-> Gone]
  /\ UNCHANGED <<client, net, keys>>

(* The network loses an encrypted datagram. *)
Lose(m) == /\ m.type \in {"up", "down"}
           /\ net' = net \ {m}
           /\ UNCHANGED <<client, conns, keys, serverUp>>

-----------------------------------------------------------------------------
ClientTick == ClientStart \/ AssignWorker \/ TickHello \/ TickConnectFails
                \/ TickConnected \/ TickDisco

SessionNext ==
  \/ ClientTick \/ UserDisconnect \/ OnClosed \/ ClientFreed
  \/ \E m \in net : \/ OnCookie(m) \/ OnAnswer(m) \/ OnError(m) \/ OnDatagram(m)
                    \/ OnHello(m) \/ OnChallenge(m) \/ ConnDatagram(m) \/ Lose(m)
  \/ \E s \in Slots : ConnTick(s) \/ ConnDisconnect(s)
  \/ ServerShutdown

(* The worker threads tick; the network owes nothing. *)
SessionFairness == /\ WF_sessionVars(ClientTick)
                   /\ \A s \in Slots : WF_sessionVars(ConnTick(s))
SessionSpec == SessionInit /\ [][SessionNext]_sessionVars /\ SessionFairness

-----------------------------------------------------------------------------
SessionTypeOK ==
  /\ client.hellos \in 0 .. MaxHello + 1 /\ client.quiet \in 0 .. MaxQuiet
  /\ client.countdown \in 0 .. ShutdownTicks /\ client.id \in Slots
  /\ \A s \in {u \in Slots : conns[u] # Gone} :
       /\ conns[s].key \in 1 .. keys /\ conns[s].countdown \in 1 .. ShutdownTicks
       /\ conns[s].quiet \in 0 .. MaxQuiet
  /\ keys \in 0 .. MaxKeys

(* The client application hears OnConnect() at most once, never OnConnectFail()
   after it, and OnDisconnectReason() at most once, whatever answers, errors,
   timeouts and disconnects from both ends cross. *)
ClientCallbacks ==
  /\ client.connects <= 1 /\ ~client.wrongOrder /\ client.reasons <= 1

(* An attempt to connect ends: the client is connected or is told it failed. *)
ConnectEnds == client.hellos > 0 ~> (client.connected \/ client.destroyed)

(* A disconnect ends: every end that is told to, or decides to, goes away. *)
DisconnectEnds ==
  /\ (client.connected /\ client.disco) ~> client.destroyed
  /\ \A s \in Slots : conns[s].disco ~> ~conns[s].disco

(* Half-open sessions close by themselves: a client whose connexion is gone
   disconnects, and a connexion the client does not use (the answer was lost,
   or was one of several) leaves the table. *)
HalfOpenCloses ==
  /\ (client.connected /\ \A s \in Slots : conns[s].key # client.key) ~> client.destroyed
  /\ \A s \in Slots : (conns[s] # Gone /\ client.destroyed) ~> conns[s] = Gone

(* The client's callbacks, with the types of what they depend on. *)
CallbacksRight == SessionTypeOK /\ ClientCallbacks

(* Attempts to connect, disconnects and half-open sessions come to an end. *)
SessionsEnd == ConnectEnds /\ DisconnectEnds /\ HalfOpenCloses
=============================================================================

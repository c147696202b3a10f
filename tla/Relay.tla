------------------------------- MODULE Relay -------------------------------
(***************************************************************************)
(* The WebSocket relay of the Go server: Router.HandleWS, readLoop,        *)
(* writeLoop and forwardTo (server/router.go), the client registry         *)
(* (server/clients.go) and the connection table of the hub                 *)
(* (server/internal/ws/hub.go).                                            *)
(*                                                                         *)
(* A member of Conn is one accepted connection; a client that reconnects   *)
(* does so as another member, under the same id.  Two goroutines serve a   *)
(* connection: the reader (the HTTP handler, whose control point is pc)    *)
(* and the writer.  Each critical section of a mutex and each channel      *)
(* operation is a step of its own, so that everything the goroutines of    *)
(* different connections may do in between is explored.                    *)
(***************************************************************************)
EXTENDS Naturals, Sequences

CONSTANTS Conn,       \* connections, each used once
          ClientId,   \* ids a client registers under (client_id or user_id)
          User,       \* users a token may authenticate
          NoConn,     \* no entry in the client registry
          NoUser,     \* a connection opened without a valid token
          SendCap,    \* capacity of Client.Send, 256 in the code
          MaxFrames   \* bound: frames read from one connection

ASSUME RelayAssumption ==
  /\ NoConn \notin Conn
  /\ NoUser \notin User
  /\ SendCap \in Nat \ {0}
  /\ MaxFrames \in Nat

VARIABLES
  pc,       \* control point of the reader goroutine
  writer,   \* the writer goroutine: not started, running, returned
  idOf,     \* Client.ID
  userOf,   \* authenticatedUserID
  clients,  \* ClientRegistry.clients
  hub,      \* Hub.connections
  queue,    \* Client.Send: the buffered frames
  closed,   \* Client.Send: closed or not
  socket,   \* the TCP connection: up, broken by the peer, closed by us
  hold,     \* the target forwardTo obtained from Get and still has to use
  sent,     \* how many frames each connection's peer has sent so far
  last,     \* last[c][s]: number of the last frame of s that reached c's peer
  got       \* how many frames reached c's peer

vars == <<pc, writer, idOf, userOf, clients, hub, queue, closed, socket,
          hold, sent, last, got>>

\* What forwardTo keeps between Get and the send
Nothing == [to |-> NoConn]
Frame == [src : Conn, dst : ClientId, n : 1 .. MaxFrames]

\* Where the reader of an accepted connection stands before its teardown
Serving == {"hub", "read", "forward", "remove"}
Tearing == {"closeConn", "closeSend", "unregister", "done"}

Init ==
  /\ pc = [c \in Conn |-> "idle"]
  /\ writer = [c \in Conn |-> "off"]
  /\ idOf \in [Conn -> ClientId]        \* the query of each future request
  /\ userOf \in [Conn -> User \cup {NoUser}]
  /\ clients = [i \in ClientId |-> NoConn]
  /\ hub = [u \in User |-> {}]
  /\ queue = [c \in Conn |-> <<>>]
  /\ closed = [c \in Conn |-> FALSE]
  /\ socket = [c \in Conn |-> "up"]
  /\ hold = [c \in Conn |-> Nothing]
  /\ sent = [c \in Conn |-> 0]
  /\ last = [c \in Conn |-> [s \in Conn |-> 0]]
  /\ got = [c \in Conn |-> 0]

-----------------------------------------------------------------------------
(* HandleWS: the id is taken from the query or the token, the request is   *)
(* upgraded and the client added; an older entry of the id is overwritten. *)

(* Operators marked "fault" are slips the code could have made.  They are   *)
(* used by no action: each shows that a property fails once its definition *)
(* is replaced by the slip.                                                *)

\* ClientRegistry.Add
AddClient(c) == clients' = [clients EXCEPT ![idOf[c]] = c]

\* fault: the deferred Remove is forgotten
RemoveForgotten(c) == UNCHANGED clients

\* ClientRegistry.Remove: by id, whichever connection holds the entry
RemoveClient(c) == clients' = [clients EXCEPT ![idOf[c]] = NoConn]

\* fault: an unknown id falls back to some connection
GetAny(i) ==
  LET known == {clients[j] : j \in ClientId} \ {NoConn}
  IN  IF clients[i] = NoConn /\ known # {} THEN CHOOSE c \in known : TRUE ELSE clients[i]

\* ClientRegistry.Get
Get(i) == clients[i]

Connect(c) ==
  /\ pc[c] = "idle"
  /\ AddClient(c)
  /\ IF userOf[c] = NoUser
       THEN /\ pc' = [pc EXCEPT ![c] = "read"]
            /\ writer' = [writer EXCEPT ![c] = "run"]
       ELSE /\ pc' = [pc EXCEPT ![c] = "hub"]
            /\ UNCHANGED writer
  /\ UNCHANGED <<idOf, userOf, hub, queue, closed, socket, hold, sent, last, got>>

\* Hub.Register, then both loops start
HubRegister(c) ==
  /\ pc[c] = "hub"
  /\ hub' = [hub EXCEPT ![userOf[c]] = @ \cup {c}]
  /\ pc' = [pc EXCEPT ![c] = "read"]
  /\ writer' = [writer EXCEPT ![c] = "run"]
  /\ UNCHANGED <<idOf, userOf, clients, queue, closed, socket, hold, sent, last, got>>

-----------------------------------------------------------------------------
(* readLoop                                                                *)

\* A text or video frame for dst is read; forwardTo looks dst up and keeps
\* the *Client it finds.  A frame for an unknown id is dropped here.
ReadFrame(c, dst) ==
  /\ pc[c] = "read"
  /\ socket[c] # "closed"
  /\ sent[c] < MaxFrames
  /\ sent' = [sent EXCEPT ![c] = @ + 1]
  /\ IF Get(dst) = NoConn
       THEN UNCHANGED <<pc, hold>>
       ELSE /\ pc' = [pc EXCEPT ![c] = "forward"]
            /\ hold' = [hold EXCEPT ![c] = [to |-> Get(dst), dst |-> dst]]
  /\ UNCHANGED <<writer, idOf, userOf, clients, hub, queue, closed, socket, last, got>>

\* fault: numbered as the next frame, not as the one read
HeldNext(c) == [src |-> c, dst |-> hold[c].dst, n |-> sent[c] + 1]

\* The frame c is forwarding
Held(c) == [src |-> c, dst |-> hold[c].dst, n |-> sent[c]]

\* Whether a send on the channel of c can proceed at all
SendOpen(c) == ~closed[c]

\* Whether the channel of c can buffer another frame
Room(c) == Len(queue[c]) < SendCap

\* fault: last in, first out
Pushed(q, f) == <<f>> \o q

\* A channel is first in, first out
Buffered(q, f) == Append(q, f)

\* The select of forwardTo: the send succeeds ...
Enqueue(c) ==
  /\ pc[c] = "forward"
  /\ SendOpen(hold[c].to)
  /\ Room(hold[c].to)
  /\ queue' = [queue EXCEPT ![hold[c].to] = Buffered(@, Held(c))]
  /\ pc' = [pc EXCEPT ![c] = "read"]
  /\ hold' = [hold EXCEPT ![c] = Nothing]
  /\ UNCHANGED <<writer, idOf, userOf, clients, hub, closed, socket, sent, last, got>>

\* ... or the buffer is full and the frame is dropped ...
DropFull(c) ==
  /\ pc[c] = "forward"
  /\ SendOpen(hold[c].to)
  /\ ~Room(hold[c].to)
  /\ pc' = [pc EXCEPT ![c] = "read"]
  /\ hold' = [hold EXCEPT ![c] = Nothing]
  /\ UNCHANGED <<writer, idOf, userOf, clients, hub, queue, closed, socket, sent, last, got>>

\* ... or Send was closed since Get: the send panics and the panic unwinds
\* the sender's own readLoop, whose deferred teardown runs.
SendOnClosed(c) ==
  /\ pc[c] = "forward"
  /\ ~SendOpen(hold[c].to)
  /\ pc' = [pc EXCEPT ![c] = "remove"]
  /\ hold' = [hold EXCEPT ![c] = Nothing]
  /\ UNCHANGED <<writer, idOf, userOf, clients, hub, queue, closed, socket, sent, last, got>>

\* ReadMessage fails: the peer left or the network broke
ReadError(c) ==
  /\ pc[c] = "read"
  /\ socket[c] = "broken"
  /\ pc' = [pc EXCEPT ![c] = "remove"]
  /\ UNCHANGED <<writer, idOf, userOf, clients, hub, queue, closed, socket, hold, sent,
                 last, got>>

-----------------------------------------------------------------------------
(* The deferred teardown of readLoop, in its order                         *)

Remove(c) ==
  /\ pc[c] = "remove"
  /\ RemoveClient(c)
  /\ pc' = [pc EXCEPT ![c] = "closeConn"]
  /\ UNCHANGED <<writer, idOf, userOf, hub, queue, closed, socket, hold, sent, last, got>>

CloseConn(c) ==
  /\ pc[c] = "closeConn"
  /\ socket' = [socket EXCEPT ![c] = "closed"]
  /\ pc' = [pc EXCEPT ![c] = "closeSend"]
  /\ UNCHANGED <<writer, idOf, userOf, clients, hub, queue, closed, hold, sent, last, got>>

\* fault: the channel is left open for late senders
KeepOpen(c) == UNCHANGED closed

\* close(c.Send)
CloseChannel(c) == closed' = [closed EXCEPT ![c] = TRUE]

CloseSend(c) ==
  /\ pc[c] = "closeSend"
  /\ CloseChannel(c)
  /\ pc' = [pc EXCEPT ![c] = IF userOf[c] = NoUser THEN "done" ELSE "unregister"]
  /\ UNCHANGED <<writer, idOf, userOf, clients, hub, queue, socket, hold, sent, last, got>>

\* fault: the deferred Unregister is forgotten
UnregisterForgotten(c) == UNCHANGED hub

\* Hub.Unregister
Unregister(c) == hub' = [hub EXCEPT ![userOf[c]] = @ \ {c}]

HubUnregister(c) ==
  /\ pc[c] = "unregister"
  /\ Unregister(c)
  /\ pc' = [pc EXCEPT ![c] = "done"]
  /\ UNCHANGED <<writer, idOf, userOf, clients, queue, closed, socket, hold, sent, last, got>>

-----------------------------------------------------------------------------
(* writeLoop                                                               *)

\* fault: a frame is retried although it was written
Unconsumed(q) == q

\* Receiving from the channel consumes the frame
Consumed(q) == Tail(q)

\* A frame is written to a socket that is up, and reaches the peer
Write(c) ==
  /\ writer[c] = "run"
  /\ queue[c] # <<>>
  /\ socket[c] = "up"
  /\ last' = [last EXCEPT ![c][Head(queue[c]).src] = Head(queue[c]).n]
  /\ got' = [got EXCEPT ![c] = @ + 1]
  /\ queue' = [queue EXCEPT ![c] = Consumed(@)]
  /\ UNCHANGED <<pc, writer, idOf, userOf, clients, hub, closed, socket, hold, sent>>

\* The socket broke: the write may still be buffered by the kernel, and is
\* then lost, or it fails and the writer returns with frames left in Send.
\* On a socket this side closed it always fails.
WriteFails(c) ==
  /\ writer[c] = "run"
  /\ queue[c] # <<>>
  /\ socket[c] # "up"
  /\ queue' = [queue EXCEPT ![c] = Consumed(@)]
  /\ writer' \in {writer, [writer EXCEPT ![c] = "exit"]}
  /\ socket[c] = "closed" => writer'[c] = "exit"
  /\ UNCHANGED <<pc, idOf, userOf, clients, hub, closed, socket, hold, sent, last, got>>

\* range over a closed and drained channel ends
WriterStop(c) ==
  /\ writer[c] = "run"
  /\ queue[c] = <<>>
  /\ closed[c]
  /\ writer' = [writer EXCEPT ![c] = "exit"]
  /\ UNCHANGED <<pc, idOf, userOf, clients, hub, queue, closed, socket, hold, sent, last, got>>

-----------------------------------------------------------------------------
\* The environment: the peer leaves, or the network fails
Break(c) ==
  /\ pc[c] \in Serving
  /\ socket[c] = "up"
  /\ socket' = [socket EXCEPT ![c] = "broken"]
  /\ UNCHANGED <<pc, writer, idOf, userOf, clients, hub, queue, closed, hold, sent, last, got>>

Reader(c) ==
  \/ HubRegister(c) \/ Enqueue(c) \/ DropFull(c) \/ SendOnClosed(c)
  \/ ReadError(c) \/ Remove(c) \/ CloseConn(c) \/ CloseSend(c)
  \/ HubUnregister(c)

Writer(c) == Write(c) \/ WriteFails(c) \/ WriterStop(c)

\* Every connection ended, both goroutines returned: the relay is at rest
Finished(c) == pc[c] = "done" /\ writer[c] = "exit"

Next ==
  \E c \in Conn :
    \/ Connect(c) \/ Reader(c) \/ Writer(c) \/ Break(c)
    \/ \E dst \in ClientId : ReadFrame(c, dst)

\* The Go scheduler runs every goroutine that can proceed.  Nothing forces a
\* client to connect or to send, or a connection to break.
Fairness == \A c \in Conn : WF_vars(Reader(c)) /\ WF_vars(Writer(c))

Spec == Init /\ [][Next]_vars /\ Fairness

-----------------------------------------------------------------------------
(* Properties                                                              *)

\* Types of the relay's state.
TypeOK ==
  /\ pc \in [Conn -> {"idle"} \cup Serving \cup Tearing]
  /\ writer \in [Conn -> {"off", "run", "exit"}]
  /\ idOf \in [Conn -> ClientId]
  /\ userOf \in [Conn -> User \cup {NoUser}]
  /\ clients \in [ClientId -> Conn \cup {NoConn}]
  /\ hub \in [User -> SUBSET Conn]
  /\ queue \in [Conn -> Seq(Frame)]
  /\ closed \in [Conn -> BOOLEAN]
  /\ socket \in [Conn -> {"up", "broken", "closed"}]
  /\ hold \in [Conn -> {Nothing} \cup [to : Conn, dst : ClientId]]
  /\ sent \in [Conn -> 0 .. MaxFrames]
  /\ last \in [Conn -> [Conn -> 0 .. MaxFrames]]
  /\ got \in [Conn -> Nat]

\* An entry of the client registry is a connection still served, filed under
\* its own id, whose Send channel is open: a teardown leaves the registry
\* before it closes the channel (router.go:85-87).
RegistrySound ==
  \A i \in ClientId : clients[i] # NoConn =>
    /\ idOf[clients[i]] = i
    /\ pc[clients[i]] \in Serving
    /\ ~closed[clients[i]]

\* A frame waits only in the queue of a connection of the id it names, even
\* when the id changed hands between the lookup and the send.
NoMisdelivery ==
  \A c \in Conn : \A i \in 1 .. Len(queue[c]) : queue[c][i].dst = idOf[c]

\* Every frame that waits for a peer is newer than all the peer has got from
\* that sender, and the frames of one sender wait in the order it sent them:
\* the relay may lose frames but never repeats or reorders them.
InOrder ==
  \A c \in Conn : \A i \in 1 .. Len(queue[c]) :
    /\ last[c][queue[c][i].src] < queue[c][i].n
    /\ \A j \in 1 .. i - 1 :
         queue[c][j].src = queue[c][i].src => queue[c][j].n < queue[c][i].n

\* A connection whose teardown ended is in no table: nothing can be routed or
\* published to it, and its user does not look connected because of it.
NoTrace ==
  \A c \in Conn : pc[c] = "done" =>
    /\ \A i \in ClientId : clients[i] # c
    /\ \A u \in User : c \notin hub[u]

\* When the network or the peer breaks a connection, or its reader panicked,
\* both goroutines end and every table forgets it.
TeardownEnds ==
  \A c \in Conn :
    (socket[c] = "broken" \/ pc[c] = "remove")
      ~> (pc[c] = "done" /\ writer[c] = "exit")

\* The registry names the active connection of each id (RAPPORT_PFE.md:595):
\* an id with a connection being read is registered.  A reconnect overwrites
\* the entry, and the teardown of the older connection then removes it.
ActiveIsRegistered ==
  \A c \in Conn : pc[c] = "read" => clients[idOf[c]] # NoConn

\* What the relay promises its clients: a lossy, ordered, at-most-once link.
Link == INSTANCE LossyFifo WITH
          Node <- Conn, Limit <- MaxFrames,
          gone <- {c \in Conn : socket[c] = "closed"}
ImplementsLink == Link!Spec
=============================================================================

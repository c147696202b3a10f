---------------------------- MODULE RelayProofs ----------------------------
(***************************************************************************)
(* Proofs about the relay, for every set of connections, ids and users,    *)
(* every capacity of Send and every number of frames.                      *)
(***************************************************************************)
EXTENDS Relay, TLAPS

\* While it forwards, the reader holds a looked-up target and a frame it read.
HoldTyped ==
  \A c \in Conn : pc[c] = "forward" =>
    hold[c] \in [to : Conn, dst : ClientId] /\ sent[c] > 0

\* That target is a connection of the id the frame names.
HoldSound == \A c \in Conn : pc[c] = "forward" => idOf[hold[c].to] = hold[c].dst

\* A closed channel, and a socket this side closed, belong to a connection
\* past the registry.
ClosedIsTearing ==
  \A c \in Conn :
    /\ closed[c] => pc[c] \in Tearing
    /\ socket[c] = "closed" => pc[c] \in Tearing \ {"closeConn"}

\* Frames waiting or delivered were sent, and the one being forwarded is newer
\* than all of them.
SentBefore ==
  \A c, s \in Conn :
    /\ last[c][s] <= sent[s]
    /\ pc[s] = "forward" => last[c][s] < sent[s]
    /\ \A i \in 1 .. Len(queue[c]) : queue[c][i].src = s =>
         /\ queue[c][i].n <= sent[s]
         /\ pc[s] = "forward" => queue[c][i].n < sent[s]

TypeInv == TypeOK /\ HoldTyped
RegistryInv == RegistrySound /\ HoldSound /\ ClosedIsTearing
OrderInv == NoMisdelivery /\ InOrder /\ SentBefore

-----------------------------------------------------------------------------
\* What the actions do to the queues: a frame enters at the end, the head leaves.
LEMMA HeldIsFrame ==
  ASSUME TypeInv, NEW c \in Conn, pc[c] = "forward"
  PROVE  Held(c) \in Frame /\ hold[c].to \in Conn
BY RelayAssumption DEF TypeInv, TypeOK, HoldTyped, Held, Frame

LEMMA HeadTail ==
  ASSUME TypeOK, NEW c \in Conn, queue[c] # <<>>
  PROVE  /\ Head(queue[c]) \in Frame
         /\ Tail(queue[c]) \in Seq(Frame)
         /\ Head(queue[c]) = queue[c][1]
         /\ Len(queue[c]) \in Nat \ {0}
         /\ Len(Tail(queue[c])) = Len(queue[c]) - 1
         /\ \A i \in 1 .. Len(Tail(queue[c])) : Tail(queue[c])[i] = queue[c][i + 1]
BY DEF TypeOK

LEMMA ElementIsFrame ==
  ASSUME TypeOK, NEW c \in Conn, NEW i \in 1 .. Len(queue[c])
  PROVE  queue[c][i] \in Frame /\ queue[c][i].src \in Conn /\ queue[c][i].n \in Nat
<1>1. queue[c][i] \in Frame
  BY DEF TypeOK
<1> QED BY ONLY <1>1, RelayAssumption DEF Frame

\* Types, with what a held target is: every step keeps them.
LEMMA TypeStep == TypeInv /\ [Next]_vars => TypeInv'
<1> SUFFICES ASSUME TypeInv, [Next]_vars PROVE TypeInv'
  OBVIOUS
<1> USE RelayAssumption DEF TypeInv, TypeOK, HoldTyped, Serving, Tearing
<1>1. ASSUME NEW c \in Conn, Connect(c) PROVE TypeInv'
  <2>1. /\ pc' \in [Conn -> {"idle"} \cup Serving \cup Tearing]
        /\ writer' \in [Conn -> {"off", "run", "exit"}]
        /\ clients' \in [ClientId -> Conn \cup {NoConn}]
    BY <1>1 DEF Connect, AddClient
  <2>2. \A d \in Conn : pc'[d] = "forward" => pc[d] = "forward"
    BY <1>1 DEF Connect
  <2> QED BY <1>1, <2>1, <2>2 DEF Connect
<1>2. ASSUME NEW c \in Conn, HubRegister(c) PROVE TypeInv'
  BY <1>2 DEF HubRegister
<1>3. ASSUME NEW c \in Conn, Enqueue(c) PROVE TypeInv'
  <2>1. Held(c) \in Frame /\ hold[c].to \in Conn
    BY ONLY <1>3, TypeInv, HeldIsFrame DEF Enqueue
  <2>2. Append(queue[hold[c].to], Held(c)) \in Seq(Frame)
    BY <2>1
  <2>3. queue' \in [Conn -> Seq(Frame)]
    BY <1>3, <2>1, <2>2 DEF Enqueue, Buffered
  <2> QED BY <1>3, <2>3 DEF Enqueue
<1>4. ASSUME NEW c \in Conn, DropFull(c) PROVE TypeInv'
  BY <1>4 DEF DropFull
<1>5. ASSUME NEW c \in Conn, SendOnClosed(c) PROVE TypeInv'
  BY <1>5 DEF SendOnClosed
<1>6. ASSUME NEW c \in Conn, ReadError(c) PROVE TypeInv'
  BY <1>6 DEF ReadError
<1>7. ASSUME NEW c \in Conn, Remove(c) PROVE TypeInv'
  BY <1>7 DEF Remove, RemoveClient
<1>8. ASSUME NEW c \in Conn, CloseConn(c) PROVE TypeInv'
  BY <1>8 DEF CloseConn
<1>9. ASSUME NEW c \in Conn, CloseSend(c) PROVE TypeInv'
  BY <1>9 DEF CloseSend, CloseChannel
<1>10. ASSUME NEW c \in Conn, HubUnregister(c) PROVE TypeInv'
  BY <1>10 DEF HubUnregister, Unregister
<1>11. ASSUME NEW c \in Conn, Write(c) PROVE TypeInv'
  <2>0. Head(queue[c]) \in Frame
    BY ONLY <1>11, TypeInv, HeadTail DEF TypeInv, Write
  <2>1. Head(queue[c]).src \in Conn /\ Head(queue[c]).n \in 0 .. MaxFrames
    BY ONLY <2>0, RelayAssumption DEF Frame
  <2>2. last' \in [Conn -> [Conn -> 0 .. MaxFrames]]
    BY <1>11, <2>1 DEF Write
  <2>3. queue' \in [Conn -> Seq(Frame)]
    BY <1>11, HeadTail DEF Write, Consumed
  <2>4. got' \in [Conn -> Nat]
    BY <1>11 DEF Write
  <2> QED BY <1>11, <2>2, <2>3, <2>4 DEF Write
<1>12. ASSUME NEW c \in Conn, WriteFails(c) PROVE TypeInv'
  <2>1. queue' \in [Conn -> Seq(Frame)]
    BY <1>12, HeadTail DEF WriteFails, Consumed
  <2>2. writer' \in [Conn -> {"off", "run", "exit"}]
    <3>1. CASE writer' = writer
      BY <3>1
    <3>2. CASE writer' = [writer EXCEPT ![c] = "exit"]
      BY <3>2
    <3> QED BY <1>12, <3>1, <3>2 DEF WriteFails
  <2> QED BY <1>12, <2>1, <2>2 DEF WriteFails
<1>13. ASSUME NEW c \in Conn, WriterStop(c) PROVE TypeInv'
  BY <1>13 DEF WriterStop
<1>14. ASSUME NEW c \in Conn, Break(c) PROVE TypeInv'
  BY <1>14 DEF Break
<1>15. ASSUME NEW c \in Conn, NEW dst \in ClientId, ReadFrame(c, dst) PROVE TypeInv'
  <2>1. sent' \in [Conn -> 0 .. MaxFrames] /\ sent'[c] > 0
        /\ \A d \in Conn \ {c} : sent'[d] = sent[d]
    BY <1>15 DEF ReadFrame, Get
  <2>2. CASE clients[dst] = NoConn
    BY <1>15, <2>1, <2>2 DEF ReadFrame, Get
  <2>3. CASE clients[dst] # NoConn
    <3> DEFINE target == [to |-> clients[dst], dst |-> dst]
    <3>1. target \in [to : Conn, dst : ClientId]
      BY <2>3
    <3> HIDE DEF target
    <3>2. /\ hold' = [hold EXCEPT ![c] = target]
          /\ pc' = [pc EXCEPT ![c] = "forward"]
      BY <1>15, <2>3 DEF ReadFrame, Get, target
    <3>3. hold' \in [Conn -> {Nothing} \cup [to : Conn, dst : ClientId]]
      BY <3>1, <3>2
    <3>4. HoldTyped'
      BY <2>1, <3>1, <3>2
    <3> QED BY <1>15, <2>1, <3>2, <3>3, <3>4 DEF ReadFrame, Get
  <2> QED BY <2>2, <2>3
<1>16. CASE UNCHANGED vars
  BY <1>16 DEF vars
<1> QED
  BY <1>1, <1>2, <1>3, <1>4, <1>5, <1>6, <1>7, <1>8, <1>9, <1>10, <1>11,
     <1>12, <1>13, <1>14, <1>15, <1>16 DEF Next, Reader, Writer

\* The registry only holds connections still served, and what forwardTo holds
\* was filed under the id it looked up.
LEMMA RegistryStep == TypeInv /\ RegistryInv /\ [Next]_vars => RegistryInv'
<1> SUFFICES ASSUME TypeInv, RegistryInv, [Next]_vars PROVE RegistryInv'
  OBVIOUS
<1> USE RelayAssumption DEF TypeInv, TypeOK, HoldTyped, RegistryInv,
        RegistrySound, HoldSound, ClosedIsTearing, Serving, Tearing
<1>0. ASSUME UNCHANGED <<clients, idOf, closed>>,
             \A c \in Conn :
               /\ pc'[c] = "forward" => pc[c] = "forward" /\ hold'[c] = hold[c]
               /\ pc[c] \in Serving => pc'[c] \in Serving
               /\ pc[c] \in Tearing => pc'[c] = pc[c]
               /\ socket'[c] = "closed" => socket[c] = "closed"
      PROVE  RegistryInv'
  <2>1. RegistrySound'
    BY ONLY <1>0, TypeOK, RegistrySound DEF TypeOK, RegistrySound
  <2>2. HoldSound'
    BY ONLY <1>0, HoldSound DEF HoldSound
  <2>3. ClosedIsTearing'
    BY ONLY <1>0, ClosedIsTearing DEF ClosedIsTearing
  <2> QED BY ONLY <2>1, <2>2, <2>3 DEF RegistryInv
<1>1. ASSUME NEW c \in Conn, Connect(c) PROVE RegistryInv'
  <2>1. /\ pc'[c] \in {"read", "hub"}
        /\ \A d \in Conn \ {c} : pc'[d] = pc[d]
        /\ clients'[idOf[c]] = c
        /\ \A i \in ClientId \ {idOf[c]} : clients'[i] = clients[i]
        /\ pc[c] = "idle"
    BY <1>1 DEF Connect, AddClient
  <2>2. UNCHANGED <<idOf, hold, closed, socket>>
    BY <1>1 DEF Connect
  <2>3. RegistrySound'
    <3>1. SUFFICES ASSUME NEW i \in ClientId, clients'[i] # NoConn
                   PROVE  /\ idOf[clients'[i]] = i
                          /\ pc'[clients'[i]] \in Serving
                          /\ ~closed[clients'[i]]
      BY <2>2
    <3>2. CASE i = idOf[c]
      <4>1. ~closed[c]
        BY ONLY <2>1, ClosedIsTearing DEF ClosedIsTearing, Tearing
      <4> QED BY ONLY <2>1, <3>2, <4>1 DEF Serving
    <3>3. CASE i # idOf[c]
      <4>1. clients'[i] = clients[i] /\ clients[i] # NoConn
        BY ONLY <2>1, <3>1, <3>3
      <4>2. /\ clients[i] \in Conn /\ idOf[clients[i]] = i
            /\ pc[clients[i]] \in Serving /\ ~closed[clients[i]]
        BY ONLY <4>1, TypeOK, RegistrySound DEF TypeOK, RegistrySound
      <4>3. clients[i] # c
        BY ONLY <2>1, <4>2 DEF Serving
      <4> QED BY ONLY <2>1, <4>1, <4>2, <4>3
    <3> QED BY ONLY <3>2, <3>3
  <2>4. HoldSound'
    BY ONLY <2>1, <2>2, HoldSound DEF HoldSound
  <2>5. ClosedIsTearing'
    BY ONLY <2>1, <2>2, ClosedIsTearing DEF ClosedIsTearing, Tearing
  <2> QED BY <2>3, <2>4, <2>5
<1>2. ASSUME NEW c \in Conn, HubRegister(c) PROVE RegistryInv'
  BY <1>2 DEF HubRegister
<1>3. ASSUME NEW c \in Conn, Enqueue(c) PROVE RegistryInv'
  BY ONLY <1>0, <1>3, TypeOK DEF Enqueue, TypeOK, Serving, Tearing
<1>4. ASSUME NEW c \in Conn, DropFull(c) PROVE RegistryInv'
  BY ONLY <1>0, <1>4, TypeOK DEF DropFull, TypeOK, Serving, Tearing
<1>5. ASSUME NEW c \in Conn, SendOnClosed(c) PROVE RegistryInv'
  BY ONLY <1>0, <1>5, TypeOK DEF SendOnClosed, TypeOK, Serving, Tearing
<1>6. ASSUME NEW c \in Conn, ReadError(c) PROVE RegistryInv'
  BY ONLY <1>0, <1>6, TypeOK DEF ReadError, TypeOK, Serving, Tearing
<1>7. ASSUME NEW c \in Conn, Remove(c) PROVE RegistryInv'
  BY <1>7 DEF Remove, RemoveClient
<1>8. ASSUME NEW c \in Conn, CloseConn(c) PROVE RegistryInv'
  BY <1>8 DEF CloseConn
<1>9. ASSUME NEW c \in Conn, CloseSend(c) PROVE RegistryInv'
  BY <1>9 DEF CloseSend, CloseChannel
<1>10. ASSUME NEW c \in Conn, HubUnregister(c) PROVE RegistryInv'
  BY <1>10 DEF HubUnregister, Unregister
<1>11. ASSUME NEW c \in Conn, Write(c) \/ WriteFails(c) \/ WriterStop(c) PROVE RegistryInv'
  BY ONLY <1>0, <1>11, TypeOK DEF Write, WriteFails, WriterStop, TypeOK
<1>12. ASSUME NEW c \in Conn, Break(c) PROVE RegistryInv'
  BY ONLY <1>0, <1>12, TypeOK DEF Break, TypeOK, Serving, Tearing
<1>13. ASSUME NEW c \in Conn, NEW dst \in ClientId, ReadFrame(c, dst) PROVE RegistryInv'
  <2>1. CASE clients[dst] = NoConn
    BY <1>13, <2>1 DEF ReadFrame, Get
  <2>2. CASE clients[dst] # NoConn
    <3>1. /\ hold'[c].to = clients[dst] /\ hold'[c].dst = dst
          /\ pc'[c] = "forward" /\ pc[c] = "read"
          /\ \A d \in Conn \ {c} : hold'[d] = hold[d] /\ pc'[d] = pc[d]
          /\ UNCHANGED <<idOf, clients, closed, socket>>
      BY <1>13, <2>2 DEF ReadFrame, Get
    <3>2. HoldSound'
      <4>1. idOf[clients[dst]] = dst
        BY <2>2
      <4>2. ASSUME NEW d \in Conn, pc'[d] = "forward"
            PROVE  idOf'[hold'[d].to] = hold'[d].dst
        <5>1. CASE d = c
          BY ONLY <3>1, <4>1, <5>1
        <5>2. CASE d # c
          BY ONLY <3>1, <4>2, <5>2, HoldSound DEF HoldSound
        <5> QED BY <5>1, <5>2
      <4> QED BY ONLY <4>2 DEF HoldSound
    <3>3. RegistrySound'
      <4>1. \A d \in Conn : pc[d] \in Serving <=> pc'[d] \in Serving
        BY ONLY <3>1 DEF Serving
      <4> QED BY ONLY <3>1, <4>1, TypeOK, RegistrySound DEF TypeOK, RegistrySound
    <3>4. ClosedIsTearing'
      BY <3>1
    <3> QED BY <3>2, <3>3, <3>4
  <2> QED BY <2>1, <2>2
<1>14. CASE UNCHANGED vars
  BY <1>14 DEF vars
<1> QED
  BY <1>1, <1>2, <1>3, <1>4, <1>5, <1>6, <1>7, <1>8, <1>9, <1>10, <1>11,
     <1>12, <1>13, <1>14 DEF Next, Reader, Writer
-----------------------------------------------------------------------------
\* Frames are neither misdelivered nor reordered: every step keeps the order
\* of the queues and of what was delivered.
LEMMA OrderStep ==
  TypeInv /\ RegistryInv /\ OrderInv /\ [Next]_vars => OrderInv'
<1> SUFFICES ASSUME TypeInv, RegistryInv, OrderInv, [Next]_vars PROVE OrderInv'
  OBVIOUS
<1> USE DEF OrderInv, NoMisdelivery, InOrder, SentBefore
<1>1. ASSUME UNCHANGED <<queue, last, sent, idOf>>,
             \A s \in Conn : pc'[s] = "forward" => pc[s] = "forward"
      PROVE  OrderInv'
  BY ONLY <1>1, OrderInv DEF OrderInv, NoMisdelivery, InOrder, SentBefore
<1>2. ASSUME NEW c \in Conn, NEW dst \in ClientId, ReadFrame(c, dst) PROVE OrderInv'
  <2>1. /\ sent[c] \in Nat /\ sent'[c] = sent[c] + 1
        /\ \A s \in Conn \ {c} : sent'[s] = sent[s] /\ pc'[s] = pc[s]
        /\ UNCHANGED <<queue, last, idOf>>
    BY ONLY <1>2, TypeInv DEF ReadFrame, Get, TypeInv, TypeOK
  <2>2. \A d, s \in Conn : last[d][s] \in Nat
    BY ONLY TypeInv DEF TypeInv, TypeOK
  <2>3. \A d \in Conn : \A i \in 1 .. Len(queue[d]) : queue[d][i].n \in Nat
    BY ONLY TypeInv, ElementIsFrame DEF TypeInv
  <2>4. SentBefore'
    <3>1. SUFFICES ASSUME NEW d \in Conn, NEW s \in Conn
          PROVE /\ last[d][s] <= sent'[s]
                /\ pc'[s] = "forward" => last[d][s] < sent'[s]
                /\ \A i \in 1 .. Len(queue[d]) : queue[d][i].src = s =>
                     /\ queue[d][i].n <= sent'[s]
                     /\ pc'[s] = "forward" => queue[d][i].n < sent'[s]
      BY <2>1
    <3>2. CASE s = c
      BY <2>1, <2>2, <2>3, <3>2
    <3>3. CASE s # c
      BY <2>1, <3>3
    <3> QED BY <3>2, <3>3
  <2>5. NoMisdelivery' /\ InOrder'
    BY <2>1
  <2> QED BY <2>4, <2>5
<1>3. ASSUME NEW c \in Conn, Enqueue(c) PROVE OrderInv'
  <2> DEFINE t == hold[c].to
             f == Held(c)
  <2>1. t \in Conn /\ f \in Frame /\ f.src = c /\ f.n = sent[c]
        /\ f.dst = idOf[t] /\ pc[c] = "forward" /\ pc'[c] = "read"
        /\ \A s \in Conn \ {c} : pc'[s] = pc[s]
    <3>1. t \in Conn /\ f \in Frame
      BY ONLY <1>3, TypeInv, HeldIsFrame DEF Enqueue
    <3>2. f.src = c /\ f.n = sent[c] /\ f.dst = hold[c].dst
      BY DEF Held
    <3>3. hold[c].dst = idOf[t]
      BY ONLY <1>3, RegistryInv DEF Enqueue, RegistryInv, HoldSound
    <3>4. pc[c] = "forward" /\ pc'[c] = "read"
          /\ \A s \in Conn \ {c} : pc'[s] = pc[s]
      BY ONLY <1>3, TypeInv DEF Enqueue, TypeInv, TypeOK
    <3> QED BY <3>1, <3>2, <3>3, <3>4
  <2>2. queue[t] \in Seq(Frame) /\ queue' = [queue EXCEPT ![t] = Append(@, f)]
        /\ UNCHANGED <<last, sent, idOf>>
    BY ONLY <1>3, <2>1, TypeInv DEF Enqueue, Buffered, TypeInv, TypeOK
  <2> HIDE DEF t, f
  <2>3. /\ Len(queue[t]) \in Nat /\ Len(queue'[t]) = Len(queue[t]) + 1
        /\ \A i \in 1 .. Len(queue[t]) : queue'[t][i] = queue[t][i]
        /\ queue'[t][Len(queue[t]) + 1] = f
        /\ \A d \in Conn \ {t} : queue'[d] = queue[d]
    <3>1. queue'[t] = Append(queue[t], f) /\ \A d \in Conn \ {t} : queue'[d] = queue[d]
      BY ONLY <2>1, <2>2, TypeInv DEF TypeInv, TypeOK
    <3> QED BY ONLY <3>1, <2>1, <2>2
  <2>4. \A d \in Conn : \A i \in 1 .. Len(queue'[d]) :
          \/ i \in 1 .. Len(queue[d]) /\ queue'[d][i] = queue[d][i]
          \/ d = t /\ i = Len(queue[t]) + 1 /\ queue'[d][i] = f
    BY ONLY <2>3
  <2>5. NoMisdelivery'
    BY ONLY <2>1, <2>2, <2>4, OrderInv DEF OrderInv, NoMisdelivery
  <2>6. SentBefore'
    <3>1. \A d, s \in Conn : last'[d][s] <= sent'[s]
                             /\ (pc'[s] = "forward" => last'[d][s] < sent'[s])
      BY ONLY <2>1, <2>2, OrderInv DEF OrderInv, SentBefore
    <3>2. ASSUME NEW d \in Conn, NEW s \in Conn, NEW i \in 1 .. Len(queue'[d]),
                 queue'[d][i].src = s
          PROVE  /\ queue'[d][i].n <= sent'[s]
                 /\ pc'[s] = "forward" => queue'[d][i].n < sent'[s]
      <4>1. CASE i \in 1 .. Len(queue[d]) /\ queue'[d][i] = queue[d][i]
        BY ONLY <4>1, <3>2, <2>1, <2>2, OrderInv DEF OrderInv, SentBefore
      <4>2. CASE queue'[d][i] = f
        <5>1. s = c /\ queue'[d][i].n = sent[c] /\ sent'[c] = sent[c] /\ pc'[s] # "forward"
          BY ONLY <4>2, <3>2, <2>1, <2>2
        <5>2. sent[c] \in Nat
          BY ONLY TypeInv DEF TypeInv, TypeOK
        <5> QED BY ONLY <5>1, <5>2
      <4> QED BY ONLY <4>1, <4>2, <2>4
    <3> QED BY ONLY <3>1, <3>2 DEF SentBefore
  <2>7. InOrder'
    <3>1. ASSUME NEW d \in Conn, NEW i \in 1 .. Len(queue'[d])
          PROVE  /\ last'[d][queue'[d][i].src] < queue'[d][i].n
                 /\ \A j \in 1 .. i - 1 :
                      queue'[d][j].src = queue'[d][i].src
                        => queue'[d][j].n < queue'[d][i].n
      <4>1. CASE i \in 1 .. Len(queue[d]) /\ queue'[d][i] = queue[d][i]
        <5>1. \A j \in 1 .. i - 1 : j \in 1 .. Len(queue[d]) /\ queue'[d][j] = queue[d][j]
          <6>1. TAKE j \in 1 .. i - 1
          <6>2. j \in 1 .. Len(queue[d])
            BY ONLY <4>1
          <6> QED BY ONLY <6>2, <2>3
        <5> QED BY ONLY <4>1, <5>1, <2>2, OrderInv DEF OrderInv, InOrder
      <4>2. CASE d = t /\ i = Len(queue[t]) + 1 /\ queue'[d][i] = f
        <5>1. last[t][c] < sent[c]
          BY ONLY <2>1, OrderInv DEF OrderInv, SentBefore
        <5>2. \A j \in 1 .. i - 1 :
                queue'[d][j] = queue[d][j] /\ j \in 1 .. Len(queue[d])
          BY ONLY <4>2, <2>3
        <5>3. \A j \in 1 .. i - 1 : queue[t][j].src = c => queue[t][j].n < sent[c]
          BY ONLY <4>2, <5>2, <2>1, OrderInv DEF OrderInv, SentBefore
        <5> QED BY ONLY <4>2, <5>1, <5>2, <5>3, <2>1, <2>2
      <4> QED BY ONLY <4>1, <4>2, <2>4
    <3> QED BY ONLY <3>1 DEF InOrder
  <2> QED BY ONLY <2>5, <2>6, <2>7 DEF OrderInv
<1>4. ASSUME NEW c \in Conn, queue[c] # <<>>,
             queue' = [queue EXCEPT ![c] = Tail(@)],
             UNCHANGED <<pc, idOf, sent>>,
             \/ UNCHANGED last
             \/ last' = [last EXCEPT ![c][Head(queue[c]).src] = Head(queue[c]).n]
      PROVE  OrderInv'
  <2> DEFINE h == queue[c][1]
  <2>1. /\ h \in Frame /\ h = Head(queue[c]) /\ 1 \in 1 .. Len(queue[c])
        /\ queue'[c] = Tail(queue[c]) /\ \A d \in Conn \ {c} : queue'[d] = queue[d]
    <3>1. /\ Head(queue[c]) \in Frame /\ Head(queue[c]) = queue[c][1]
          /\ Len(queue[c]) \in Nat \ {0}
      BY ONLY <1>4, HeadTail, TypeInv DEF TypeInv
    <3>2. queue'[c] = Tail(queue[c]) /\ \A d \in Conn \ {c} : queue'[d] = queue[d]
      BY ONLY <1>4, TypeInv DEF TypeInv, TypeOK
    <3> QED BY ONLY <3>1, <3>2
  <2>2. \A d \in Conn : \A i \in 1 .. Len(queue'[d]) :
          \/ d # c /\ i \in 1 .. Len(queue[d]) /\ queue'[d][i] = queue[d][i]
          \/ d = c /\ i + 1 \in 1 .. Len(queue[d]) /\ queue'[d][i] = queue[d][i + 1]
    <3>1. TAKE d \in Conn
    <3>2. CASE d = c
      BY ONLY <3>2, <2>1, <1>4, HeadTail, TypeInv DEF TypeInv
    <3> QED BY ONLY <3>2, <2>1
  <2> HIDE DEF h
  <2>3. h.src \in Conn /\ h.n \in Nat
    BY ONLY <2>1, RelayAssumption DEF Frame
  <2>4. \A d, s \in Conn : \/ last'[d][s] = last[d][s]
                           \/ d = c /\ s = h.src /\ last'[d][s] = h.n
    <3>1. last \in [Conn -> [Conn -> 0 .. MaxFrames]]
      BY ONLY TypeInv DEF TypeInv, TypeOK
    <3>2. CASE UNCHANGED last
      BY ONLY <3>2
    <3>3. CASE last' = [last EXCEPT ![c][h.src] = h.n]
      BY ONLY <3>1, <3>3, <2>3
    <3> QED BY ONLY <3>2, <3>3, <1>4, <2>1
  <2>5. NoMisdelivery'
    <3>1. idOf' = idOf
      BY ONLY <1>4
    <3>2. ASSUME NEW d \in Conn, NEW i \in 1 .. Len(queue'[d])
          PROVE  queue'[d][i].dst = idOf[d]
      <4>1. PICK j \in 1 .. Len(queue[d]) : queue'[d][i] = queue[d][j]
        BY ONLY <2>2, <3>2
      <4> QED BY ONLY <4>1, OrderInv DEF OrderInv, NoMisdelivery
    <3> QED BY ONLY <3>1, <3>2 DEF NoMisdelivery
  <2>6. SentBefore'
    <3>1. h.n <= sent[h.src] /\ (pc[h.src] = "forward" => h.n < sent[h.src])
      BY ONLY <2>1, <2>3, <1>4, OrderInv DEF OrderInv, SentBefore, h
    <3>2. sent' = sent /\ pc' = pc
      BY <1>4
    <3>3. \A d, s \in Conn : last'[d][s] <= sent'[s]
                             /\ (pc'[s] = "forward" => last'[d][s] < sent'[s])
      BY ONLY <2>4, <3>1, <3>2, OrderInv DEF OrderInv, SentBefore
    <3>4. \A d, s \in Conn : \A i \in 1 .. Len(queue'[d]) : queue'[d][i].src = s =>
             /\ queue'[d][i].n <= sent'[s]
             /\ pc'[s] = "forward" => queue'[d][i].n < sent'[s]
      <4>1. SUFFICES ASSUME NEW d \in Conn, NEW s \in Conn,
                            NEW i \in 1 .. Len(queue'[d]), queue'[d][i].src = s
                     PROVE  /\ queue'[d][i].n <= sent'[s]
                            /\ pc'[s] = "forward" => queue'[d][i].n < sent'[s]
        OBVIOUS
      <4>2. PICK j \in 1 .. Len(queue[d]) : queue'[d][i] = queue[d][j]
        BY ONLY <2>2, <4>1
      <4> QED BY ONLY <3>2, <4>1, <4>2, OrderInv DEF OrderInv, SentBefore
    <3> QED BY ONLY <3>3, <3>4 DEF SentBefore
  <2>7. InOrder'
    <3>1. ASSUME NEW d \in Conn, NEW i \in 1 .. Len(queue'[d])
          PROVE  /\ last'[d][queue'[d][i].src] < queue'[d][i].n
                 /\ \A j \in 1 .. i - 1 :
                      queue'[d][j].src = queue'[d][i].src
                        => queue'[d][j].n < queue'[d][i].n
      <4>1. CASE d # c
        <5>1. /\ \A j \in 1 .. i : j \in 1 .. Len(queue[d]) /\ queue'[d][j] = queue[d][j]
          BY ONLY <4>1, <2>1, <3>1
        <5>2. \A s \in Conn : last'[d][s] = last[d][s]
          BY ONLY <4>1, <2>4
        <5>3. queue[d][i].src \in Conn /\ i \in 1 .. i
          BY ONLY <5>1, <3>1, ElementIsFrame, TypeInv DEF TypeInv
        <5>4. /\ last[d][queue[d][i].src] < queue[d][i].n
              /\ \A j \in 1 .. i - 1 : queue[d][j].src = queue[d][i].src
                                          => queue[d][j].n < queue[d][i].n
          BY ONLY <5>1, <5>3, OrderInv DEF OrderInv, InOrder
        <5>5. \A j \in 1 .. i - 1 : j \in 1 .. i
          BY ONLY <3>1
        <5> QED BY ONLY <5>1, <5>2, <5>3, <5>4, <5>5
      <4>2. CASE d = c
        <5>1. \A j \in 1 .. i : j + 1 \in 1 .. Len(queue[c]) /\ queue'[c][j] = queue[c][j + 1]
          <6>1. TAKE j \in 1 .. i
          <6>2. Len(queue'[c]) \in Nat /\ j \in 1 .. Len(queue'[c])
            BY ONLY <4>2, <3>1, <2>1, <1>4, HeadTail, TypeInv DEF TypeInv
          <6> QED BY ONLY <6>2, <2>2
        <5>2. /\ i \in 1 .. i /\ i \in Nat /\ i + 1 \in 1 .. Len(queue[c])
              /\ queue[c][i + 1].src \in Conn
          <6>1. i \in 1 .. i /\ i \in Nat /\ i + 1 \in 1 .. Len(queue[c])
            BY ONLY <5>1, <3>1
          <6> QED BY ONLY <6>1, ElementIsFrame, TypeInv DEF TypeInv
        <5>3. /\ last[c][queue[c][i + 1].src] < queue[c][i + 1].n
              /\ \A j \in 1 .. i : queue[c][j].src = queue[c][i + 1].src
                                     => queue[c][j].n < queue[c][i + 1].n
          BY ONLY <5>2, OrderInv DEF OrderInv, InOrder
        <5>4. queue[c][1].src = queue[c][i + 1].src => h.n < queue[c][i + 1].n
          BY ONLY <5>2, <5>3, <3>1 DEF h
        <5>5. last'[c][queue[c][i + 1].src] < queue[c][i + 1].n
          BY ONLY <2>4, <5>2, <5>3, <5>4 DEF h
        <5>6. \A j \in 1 .. i - 1 : queue[c][j + 1].src = queue[c][i + 1].src
                                     => queue[c][j + 1].n < queue[c][i + 1].n
          BY ONLY <5>2, <5>3
        <5>7. \A j \in 1 .. i - 1 : j \in 1 .. i
          BY ONLY <3>1
        <5>8. \A j \in 1 .. i - 1 : queue'[c][j].src = queue'[c][i].src
                                     => queue'[c][j].n < queue'[c][i].n
          BY ONLY <5>1, <5>2, <5>6, <5>7
        <5> QED BY ONLY <4>2, <5>1, <5>2, <5>5, <5>8
      <4> QED BY ONLY <4>1, <4>2
    <3> QED BY ONLY <3>1 DEF InOrder
  <2> QED BY ONLY <2>5, <2>6, <2>7 DEF OrderInv
<1>5. ASSUME NEW c \in Conn, Write(c) \/ WriteFails(c) PROVE OrderInv'
  <2>1. CASE Write(c)
    BY ONLY <1>4, <2>1 DEF Write, Consumed
  <2>2. CASE WriteFails(c)
    BY ONLY <1>4, <2>2 DEF WriteFails, Consumed
  <2> QED BY <1>5, <2>1, <2>2
<1>6. ASSUME NEW c \in Conn,
             \/ Connect(c) \/ HubRegister(c) \/ DropFull(c) \/ SendOnClosed(c)
             \/ ReadError(c) \/ Remove(c) \/ CloseConn(c) \/ CloseSend(c)
             \/ HubUnregister(c) \/ WriterStop(c) \/ Break(c)
      PROVE OrderInv'
  <2>1. UNCHANGED <<queue, last, sent, idOf>>
    BY ONLY <1>6 DEF Connect, HubRegister, DropFull, SendOnClosed, ReadError,
       Remove, CloseConn, CloseSend, HubUnregister, WriterStop, Break
  <2>2. \/ pc' = pc
        \/ \E p \in {"read", "hub", "remove", "closeConn", "closeSend", "unregister", "done"} :
             pc' = [pc EXCEPT ![c] = p]
    BY ONLY <1>6 DEF Connect, HubRegister, DropFull, SendOnClosed, ReadError,
       Remove, CloseConn, CloseSend, HubUnregister, WriterStop, Break
  <2>3. \A s \in Conn : pc'[s] = "forward" => pc[s] = "forward"
    BY ONLY <2>2, TypeInv DEF TypeInv, TypeOK
  <2> QED BY ONLY <1>1, <2>1, <2>3
<1>7. CASE UNCHANGED vars
  BY ONLY <1>1, <1>7 DEF vars
<1> QED
  BY ONLY <1>2, <1>3, <1>5, <1>6, <1>7, [Next]_vars DEF Next, Reader, Writer
-----------------------------------------------------------------------------
IInv == TypeInv /\ RegistryInv /\ OrderInv

LEMMA InitIInv == Init => IInv
<1> SUFFICES ASSUME Init PROVE IInv
  OBVIOUS
<1>1. TypeInv
  <2>1. <<>> \in Seq(Frame)
    OBVIOUS
  <2> QED BY <2>1, RelayAssumption DEF Init, TypeInv, TypeOK, HoldTyped
<1>2. RegistryInv
  BY DEF Init, RegistryInv, RegistrySound, HoldSound, ClosedIsTearing
<1>3. OrderInv
  BY DEF Init, OrderInv, NoMisdelivery, InOrder, SentBefore
<1> QED BY <1>1, <1>2, <1>3 DEF IInv

LEMMA IInvStep == IInv /\ [Next]_vars => IInv'
BY TypeStep, RegistryStep, OrderStep DEF IInv

LEMMA Invariance == Spec => []IInv
BY InitIInv, IInvStep, PTL DEF Spec

\* The relay's state keeps its types.
THEOREM TypeCorrect == Spec => []TypeOK
<1>1. IInv => TypeOK
  BY DEF IInv, TypeInv
<1> QED BY <1>1, Invariance, PTL

\* No teardown, reconnect or late forward leaves a dead connection in the
\* registry, or a connection under another's id.
THEOREM RegistryStaysSound == Spec => []RegistrySound
<1>1. IInv => RegistrySound
  BY DEF IInv, RegistryInv
<1> QED BY <1>1, Invariance, PTL

\* A frame only ever waits in the queue of a connection of its addressee.
THEOREM NeverMisdelivered == Spec => []NoMisdelivery
<1>1. IInv => NoMisdelivery
  BY DEF IInv, OrderInv
<1> QED BY <1>1, Invariance, PTL

\* What waits for a peer is in its senders' order and newer than what it got.
THEOREM NeverReordered == Spec => []InOrder
<1>1. IInv => InOrder
  BY DEF IInv, OrderInv
<1> QED BY <1>1, Invariance, PTL

\* The hub knows a connection under its own user, and not after its teardown.
HubSound ==
  \A c \in Conn, u \in User : c \in hub[u] => u = userOf[c] /\ pc[c] # "done"

\* Only the teardown of c itself ends with c done, after it left the hub.
LEMMA HubStep == IInv /\ HubSound /\ [Next]_vars => HubSound'
<1> SUFFICES ASSUME IInv, HubSound, [Next]_vars PROVE HubSound'
  OBVIOUS
<1> USE DEF HubSound, IInv, TypeInv, TypeOK
<1>1. CASE UNCHANGED vars
  BY <1>1 DEF vars
<1>2. ASSUME NEW c \in Conn, HubUnregister(c) PROVE HubSound'
  BY <1>2 DEF HubUnregister, Unregister
<1>3. ASSUME NEW c \in Conn, HubRegister(c) PROVE HubSound'
  BY <1>3 DEF HubRegister
<1>4. ASSUME NEW c \in Conn, CloseSend(c) PROVE HubSound'
  <2>1. /\ pc' = [pc EXCEPT ![c] = IF userOf[c] = NoUser THEN "done" ELSE "unregister"]
        /\ UNCHANGED <<hub, userOf>>
    BY <1>4 DEF CloseSend
  <2> QED BY <2>1, RelayAssumption
<1>5. ASSUME NEW c \in Conn,
             \/ Connect(c) \/ Enqueue(c) \/ DropFull(c) \/ SendOnClosed(c) \/ ReadError(c)
             \/ Remove(c) \/ CloseConn(c) \/ Writer(c) \/ Break(c)
             \/ \E dst \in ClientId : ReadFrame(c, dst)
      PROVE  HubSound'
  <2>1. /\ UNCHANGED <<hub, userOf>>
        /\ pc' = pc \/ \E p \in (Serving \cup Tearing) \ {"done"} : pc' = [pc EXCEPT ![c] = p]
    BY <1>5 DEF Connect, Enqueue, DropFull, SendOnClosed, ReadError, Remove, CloseConn,
                Writer, Write, WriteFails, WriterStop, Break, ReadFrame, Serving, Tearing
  <2> QED BY <2>1
<1> QED BY <1>1, <1>2, <1>3, <1>4, <1>5 DEF Next, Reader

\* A connection whose teardown ended is in no table.
THEOREM NoTraceLeft == Spec => []NoTrace
<1>1. Init => HubSound
  BY DEF Init, HubSound
<1>2. IInv /\ HubSound => NoTrace
  <2> SUFFICES ASSUME IInv, HubSound, NEW c \in Conn, pc[c] = "done"
               PROVE  /\ \A i \in ClientId : clients[i] # c
                      /\ \A u \in User : c \notin hub[u]
    BY DEF NoTrace
  <2>1. pc[c] \notin Serving /\ c # NoConn
    BY RelayAssumption DEF Serving
  <2>2. \A i \in ClientId : clients[i] # c
    BY <2>1 DEF IInv, RegistryInv, RegistrySound
  <2> QED BY <2>2 DEF HubSound
<1> QED BY <1>1, <1>2, HubStep, Invariance, PTL DEF Spec

\* Each step of the relay is a step of the lossy link or leaves it unchanged.
LEMMA LinkStep == IInv /\ [Next]_vars => [Link!Next]_(Link!vars)
<1> SUFFICES ASSUME IInv, [Next]_vars PROVE [Link!Next]_(Link!vars)
  OBVIOUS
<1>1. ASSUME UNCHANGED <<sent, last, got, socket>> PROVE [Link!Next]_(Link!vars)
  BY <1>1 DEF Link!vars
<1>2. ASSUME NEW c \in Conn, NEW dst \in ClientId, ReadFrame(c, dst) PROVE Link!Next
  <2>1. Link!Send(c)
    BY <1>2 DEF ReadFrame, Link!Send
  <2> QED BY <2>1 DEF Link!Next
<1>3. ASSUME NEW c \in Conn, Write(c) PROVE Link!Next
  <2> DEFINE h == queue[c][1]
  <2>1. h = Head(queue[c]) /\ 1 \in 1 .. Len(queue[c])
    BY ONLY <1>3, HeadTail, IInv DEF Write, IInv, TypeInv
  <2>2. h.src \in Conn /\ h.n \in Nat
    BY ONLY <2>1, ElementIsFrame, IInv DEF IInv, TypeInv
  <2>3. last[c][h.src] < h.n /\ h.n <= sent[h.src]
    BY ONLY <2>1, <2>2, IInv DEF IInv, OrderInv, InOrder, SentBefore
  <2>4. last[c][h.src] \in Nat /\ sent[h.src] \in Nat
    BY ONLY <2>2, IInv DEF IInv, TypeInv, TypeOK
  <2>5. h.n \in last[c][h.src] + 1 .. sent[h.src]
    BY ONLY <2>2, <2>3, <2>4
  <2>6. /\ last' = [last EXCEPT ![c][h.src] = h.n] /\ got' = [got EXCEPT ![c] = @ + 1]
        /\ UNCHANGED <<sent, socket>>
    BY ONLY <1>3, <2>1 DEF Write
  <2>7. c \notin {d \in Conn : socket[d] = "closed"}
    BY ONLY <1>3 DEF Write
  <2>8. Link!Deliver(c, h.src)
    BY ONLY <2>5, <2>6, <2>7 DEF Link!Deliver
  <2> QED BY ONLY <2>2, <2>8 DEF Link!Next
<1>4. ASSUME NEW c \in Conn, CloseConn(c) PROVE Link!Next
  <2>1. socket[c] # "closed" /\ socket \in [Conn -> {"up", "broken", "closed"}]
    BY <1>4 DEF CloseConn, IInv, RegistryInv, ClosedIsTearing, TypeInv, TypeOK
  <2>2. {d \in Conn : socket[d] = "closed"}' = {d \in Conn : socket[d] = "closed"} \cup {c}
    BY <1>4, <2>1 DEF CloseConn
  <2>3. Link!Leave(c)
    BY <1>4, <2>1, <2>2 DEF CloseConn, Link!Leave
  <2> QED BY <2>3 DEF Link!Next
<1>5. ASSUME NEW c \in Conn, Break(c) PROVE UNCHANGED Link!vars
  BY <1>5 DEF Break, Link!vars, IInv, TypeInv, TypeOK
<1>6. ASSUME NEW c \in Conn,
             \/ Connect(c) \/ HubRegister(c) \/ Enqueue(c) \/ DropFull(c)
             \/ SendOnClosed(c) \/ ReadError(c) \/ Remove(c) \/ CloseSend(c)
             \/ HubUnregister(c) \/ WriteFails(c) \/ WriterStop(c)
      PROVE [Link!Next]_(Link!vars)
  <2>1. UNCHANGED <<sent, last, got, socket>>
    BY ONLY <1>6 DEF Connect, HubRegister, Enqueue, DropFull, SendOnClosed,
       ReadError, Remove, CloseSend, HubUnregister, WriteFails, WriterStop
  <2> QED BY ONLY <1>1, <2>1
<1>7. CASE UNCHANGED vars
  BY <1>1, <1>7 DEF vars
<1> QED
  BY ONLY <1>2, <1>3, <1>4, <1>5, <1>6, <1>7, [Next]_vars DEF Next, Reader, Writer

\* With all its goroutines, registries and buffers, the relay is a lossy link
\* that never repeats, reorders or invents a frame.
THEOREM RelayImplementsLink == Spec => ImplementsLink
<1>1. Init => Link!Init
  BY DEF Init, Link!Init
<1> QED BY <1>1, Invariance, LinkStep, PTL DEF Spec, ImplementsLink, Link!Spec
=============================================================================

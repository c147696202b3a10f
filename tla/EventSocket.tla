---------------------------- MODULE EventSocket ----------------------------
(***************************************************************************)
(* The client's connection to the server's event hub:                      *)
(* client/lib/services/ws_client.dart, with the callers of connect and     *)
(* disconnect in auth_service.dart and app/state/data_providers.dart.      *)
(*                                                                         *)
(* WebSocketChannel.connect returns before the connection exists: that it  *)
(* cannot be made is told later, to the listener of the channel.  It       *)
(* cannot be made without the network, nor with a token that has expired:  *)
(* the server knows the client by its token alone and answers 400          *)
(* (server/router.go:46-61).  A reconnection uses the token of the last    *)
(* call of connect.                                                        *)
(***************************************************************************)
EXTENDS Naturals

CONSTANTS MaxSockets,   \* bound: channels created
          MaxDrops,     \* bound: times the network goes away
          MaxClosing,   \* bound: disconnects under way at once
          MaxAttempts   \* _maxReconnectAttempts

ASSUME EventSocketAssumption ==
  /\ {MaxSockets, MaxDrops, MaxClosing, MaxAttempts} \subseteq Nat

VARIABLES
  channel,   \* _channel, 0 when null
  sub,       \* the channel _subscription listens to, 0 when null
  heard,     \* channels with a listener that was not cancelled
  dead,      \* channels whose connection was lost or never made
  created,   \* channels created
  timer,     \* _reconnectTimer is running
  attempts,  \* _reconnectAttempts
  wanted,    \* _shouldReconnect, once connect was called
  closing,   \* disconnects that await the end of the channel
  overlap,   \* history: connect was called with the timer running (wsProvider was
             \* rebuilt) or a disconnect under way
  valid,     \* _token has not expired
  malformed, \* the address is no URL: connecting throws
  reachable, drops

socketVars == <<channel, sub, heard, dead, created, timer, attempts, wanted, closing, overlap,
                valid, malformed, reachable, drops>>

SocketInit ==
  /\ channel = 0 /\ sub = 0 /\ heard = {} /\ dead = {} /\ created = 0
  /\ timer = FALSE /\ attempts = 0
  /\ wanted = FALSE /\ closing = 0 /\ overlap = FALSE
  /\ valid = FALSE /\ malformed \in BOOLEAN
  /\ reachable \in BOOLEAN /\ drops = 0

\* fault: a connection takes back one attempt
OneLess == attempts - 1

\* fault: the attempts are never reset
Kept == attempts

Reset == 0

\* _onError and _onDone: another timer is set, until the attempts run out
Retry(tried, due) ==
  IF wanted' /\ tried < MaxAttempts
  THEN attempts' = tried + 1 /\ timer' = TRUE
  ELSE attempts' = tried /\ timer' = due

\* _performConnect: the attempts are reset although nothing is connected yet.
\* What it throws goes to _onError.
PerformConnect(tried, due) ==
  /\ IF malformed
     THEN /\ channel' = 0 /\ sub' = 0 /\ heard' = heard \ {sub}
          /\ Retry(tried, due) /\ UNCHANGED <<dead, created>>
     ELSE /\ created < MaxSockets
          /\ created' = created + 1
          /\ channel' = created' /\ sub' = created' /\ heard' = heard \cup {created'}
          /\ dead' = IF reachable /\ valid' THEN dead ELSE dead \cup {created'}
          /\ attempts' = Reset /\ timer' = due
  /\ UNCHANGED <<closing, malformed, reachable, drops>>

\* Callers pass the access token they have, which may have expired.
Connect ==
  /\ channel = 0
  /\ wanted' = TRUE /\ valid' \in BOOLEAN /\ overlap' = (overlap \/ timer \/ closing > 0)
  /\ PerformConnect(0, timer)

TimerFires ==
  /\ timer
  /\ UNCHANGED <<wanted, overlap, valid>>
  /\ PerformConnect(attempts, FALSE)

\* _onError and _onDone, whichever the listener gets first
Lost(s) ==
  /\ s \in dead \cap heard
  /\ channel' = 0 /\ sub' = 0
  /\ heard' = heard \ {s, sub}
  /\ UNCHANGED <<dead, created, wanted, closing, overlap, valid, malformed, reachable, drops>>
  /\ Retry(attempts, timer)

\* fault: the subscription is left to end with the channel
Uncancelled == UNCHANGED heard

CancelSub == heard' = heard \ {sub}

\* disconnect, up to the await: of the channel's end, or of nothing
Disconnect ==
  /\ closing < MaxClosing
  /\ wanted' = FALSE /\ timer' = FALSE
  /\ CancelSub
  /\ closing' = closing + 1
  /\ UNCHANGED <<channel, sub, dead, created, attempts, overlap, valid, malformed, reachable,
                 drops>>

\* After the await, whatever channel there is by then
Disconnected ==
  /\ closing > 0 /\ closing' = closing - 1
  /\ channel' = 0
  /\ UNCHANGED <<sub, heard, dead, created, timer, attempts, wanted, overlap, valid, malformed,
                 reachable, drops>>

TokenExpires ==
  /\ valid /\ valid' = FALSE
  /\ UNCHANGED <<channel, sub, heard, dead, created, timer, attempts, wanted, closing, overlap,
                 malformed, reachable, drops>>

\* The network, or the server, goes away and comes back
Drop ==
  /\ reachable /\ drops < MaxDrops
  /\ reachable' = FALSE /\ drops' = drops + 1
  /\ dead' = 1 .. created
  /\ UNCHANGED <<channel, sub, heard, created, timer, attempts, wanted, closing, overlap, valid,
                 malformed>>

Return ==
  /\ ~reachable /\ reachable' = TRUE
  /\ UNCHANGED <<channel, sub, heard, dead, created, timer, attempts, wanted, closing, overlap,
                 valid, malformed, drops>>

Listening == \E s \in 1 .. created : Lost(s)

SocketNext ==
  \/ Connect \/ TimerFires \/ Listening \/ Disconnect \/ Disconnected
  \/ TokenExpires \/ Drop \/ Return

SocketSpec == SocketInit /\ [][SocketNext]_socketVars

\* Timers fire and a listener is told of the end of its channel
SocketFairSpec ==
  /\ SocketSpec
  /\ WF_socketVars(TimerFires) /\ WF_socketVars(Listening) /\ WF_socketVars(Disconnected)

---------------------------------------------------------------------------
(* Properties *)

\* Every variable holds a value of its kind.
SocketTypeOK ==
  /\ channel \in 0 .. created /\ sub \in 0 .. created /\ created \in 0 .. MaxSockets
  /\ heard \subseteq 1 .. created /\ dead \subseteq 1 .. created
  /\ timer \in BOOLEAN /\ wanted \in BOOLEAN /\ closing \in 0 .. MaxClosing
  /\ {overlap, valid, malformed, reachable} \subseteq BOOLEAN
  /\ attempts \in 0 .. MaxAttempts

\* ARCHITECTURE.md:1535, "WebSocket: un seul singleton, toutes les features
\* partagent la connexion": events come from one channel, the current one,
\* unless connect was once called while a reconnection was due or a disconnect
\* had not returned.
OneSocket == overlap \/ heard \subseteq {channel}

\* After disconnect nothing of the connection is left: no event is delivered and
\* nothing connects again until connect is called, whatever was under way.
StaysClosed == ~wanted /\ ~overlap => ~timer /\ heard = {}

\* A connection that is wanted is there again some time after the network has
\* come back for good, however often it was lost: the attempts never run out.
\* The token of the last connect must last until then: a reconnection asks for
\* no newer one.
Reconnects ==
  <>[](reachable /\ wanted /\ valid /\ ~malformed /\ ~overlap)
    => <>[](channel \in heard \ dead \/ created = MaxSockets)
=============================================================================

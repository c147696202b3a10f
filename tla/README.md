# Verification of BIMStreaming

This directory holds TLA+ models of BIMStreaming, the TLC configurations that
check them on small instances and the TLAPS proofs about them. BIMStreaming is
a remote-assistance system: a Go server (`server/`) with a REST API, a
PostgreSQL store and a WebSocket relay, and a Flutter client (`client/lib/`)
that captures a screen, injects remote input, transfers files and talks to the
server. Two clients never talk to each other directly: everything, video
frames included, passes through the relay.

To check: `tlc -config MCRelay.cfg MCRelay.tla` and so on (one line per run in
the table below); to prove: `tlapm RelayProofs.tla` and likewise for each of the
eight `...Proofs` modules.

## 1. Inventory

| Component | State it keeps | Operations | Interacts with | What is hard |
|---|---|---|---|---|
| WebSocket relay (`server/router.go`, `clients.go`) | client registry, a bounded queue and two goroutines per connection | connect, read, forward, write, teardown | hub, presence, both clients | registry, queue and socket are torn down in five separate steps while other readers forward |
| Hub and presence (`internal/ws/hub.go`, `router.go:128`) | connections per user, `users.is_online` | register, unregister, publish, presence goroutines | relay, store, friends | unordered goroutines, writes outside the lock |
| Signalling sessions (`server/sessions.go`) | session id to its two parties | register, connection_request | relay | read, copy, write back without a lock across |
| Remote invites and sessions (`remote_handler.go`, `remote_sessions_handler.go`) | `remote_session_invites`, `remote_sessions` | invite, resolve, create, end, report, clean up | hub, store, plans, worker | handlers of several statements without a transaction; restarts in between; expiry |
| Accounts (`auth_handler.go`, `repository/auth.go`, `security.go`) | the user's row with password, failure count, lock and ban; refresh tokens; mailed codes | register, verify, login, refresh, reset, logout, revoke, ban, unban | store, mail, presence, the client's second attempts | handlers of several statements; a count, a code or a password is read in one and acted on in a later one |
| Friendships (`friends_handler.go`, `repository/friends.go`) | one row per pair | request, resolve, remove, block, unblock | hub, store | two users, or two devices of one, act at once on one row, statement by statement |
| Communities (`communities_handler.go`, `repository/communities.go`, `plan.go`) | communities, members with roles, bans, join requests | create, delete, join, review, add, ban, promote, remove | hub, store, plans | roles change between check and write; a creation cut off half-way; a plan counted before the insertion |
| Rate limiter, audit, migrations, push | windows, rows, applied files, bounded queue | allow, record, apply, enqueue | – | a full queue, a stop between a migration and its record |
| File transfer (`file_transfer_service.dart`) | outgoing and incoming transfers, queue shown | push, pull, acknowledge, complete, cancel, error | relay | handlers are not awaited: every `await` lets other messages in |
| Remote keyboard and mouse (`remote_support_page.dart`, `keyboard_host_injection_engine.dart`) | keys held, repeat timers, keys down on the host | key, button, repeat, sync, pause, policy, end | relay | timers, early returns and losses break the pairing of down and up |
| Client session tokens (`api_client.dart`, `auth_service.dart`, `auth_controller.dart`) | tokens in memory and in two stores, the refresh in flight | sign in, restore, call, refresh, sign out | server, platform storage | calls share one refresh, whose answer arrives after other changes |
| Event socket (`ws_client.dart`) | channel, listener, timer, attempts | connect, reconnect, disconnect | hub | a channel object exists before its connection |
| Signalling client (`signaling_client_service.dart`) | channel, connected flag | connect, send, reconnect loop of the page | relay | the end of an old channel is told after the new one is up |
| Client state and screens, capture, codecs, audio, storage, mail | – | presentation, native calls, input and output | – | not state machines of interest here |

What makes each component correct, in a sentence: the relay delivers what it
delivers to the right client, in order, once, and forgets a connection that
ended; presence says who is connected; what the two ends of an invite are told
to join is a session of that invite, which once ended stays so; a pair is
friends only when both have acted; a file is reported complete only when it is
there; key downs and ups stay paired; no call waits for a refresh that is over,
and what a client holds is what it stored; the client listens to one channel and
comes back to it; a reset password ends the sessions of the old one, a code
works once, failures are all counted and nothing else is; who created a
community stays its owner, and plans are exceeded by overlap only. Where the
code keeps less than this, the property names the exception and sections 5 and 6
say what happens.

## 2. Modules

| Module | Models | Runs |
|---|---|---|
| `LossyFifo` | abstract: a lossy, ordered, at-most-once link | refined by `Relay` |
| `Relay`, `MCRelay`, `RelayProofs` | the relay: registry, queues, both goroutines, teardown | `relay`, `relay_reconnect` |
| `Presence`, `MCPresence`, `PresenceProofs` | presence goroutines, hub, concurrent writers | `presence`, `presence_overlap` |
| `RemoteAccess`, `MCRemoteAccess`, `RemoteControlProofs` | invites, sessions, plan, cleanup worker, restarts | `remote_access` |
| `Friendship`, `MCSocial`, `FriendshipProofs` | the row of one pair, statement by statement | `social` |
| `Communities`, `MCSocial`, `CommunitiesProofs` | members, roles, bans, requests, plan limit | `social` |
| `Handover` | abstract: arrive, then be reported, never taken back | refined by `FileTransfer` |
| `FileTransfer`, `MCLinks`, `FileTransferProofs` | both ends of push and pull | `client_links`, `file_transfer_pull` |
| `EventSocket`, `MCLinks`, `ClientProofs` | the client's socket to the event hub | `client_links` |
| `RemoteInput`, `RemoteControlProofs` | controller page, link, host page | `remote_input` |
| `ClientSession`, `MCClientSession`, `ClientProofs` | tokens, shared refresh, stores, sign-in and sign-out | `client_session` |
| `Accounts`, `MCAccounts`, `AccountsProofs` | one account under concurrent calls | `accounts`, `accounts_reset` |

The protocols above the relay (`FileTransfer`, `RemoteInput`) do not contain
`Relay`: they use an ordered link that may lose messages, which is what
`ImplementsLink` shows, and `RelayImplementsLink` proves, the relay to be.

Four modules extend two models that share no variable: `RemoteControlProofs`
(what the server keeps of a remote session, and what its two ends do with keys
and buttons), `ClientProofs` (the client's tokens and its socket), `MCLinks` (the
client's socket and its file transfers) and `MCSocial` (friendships and
communities). The two MC modules add a variable `subject`, fixed at the start: a
behaviour is about one of the two, so their states add up and do not multiply.
The definitions of `RemoteInput`, `EventSocket` and `Friendship` that another
model has too are named after the component (`InputSpec`, `SocketSpec`,
`FriendsSpec`).

### How state and actions correspond to the code

* **Relay.** A member of `Conn` is one accepted WebSocket; a client that
  reconnects is another member with the same `idOf`. `pc` is the control point
  of `readLoop` and of its deferred function, `writer` that of `writeLoop`;
  `clients` is `ClientRegistry`, `hub` the hub's table, `queue`/`closed` the
  channel `Send`. Every critical section of a mutex and every channel operation
  is a step. `forwardTo` is two steps (`ReadFrame` looks the target up,
  `Enqueue`/`DropFull`/`SendOnClosed` uses it), so the target may be torn down
  in between; a send on a closed channel panics and starts the sender's own
  teardown, as the deferred function does. `last`, `sent`, `got` are history
  for the properties and the refinement.
* **Presence.** `Job` is one goroutine of `setPresenceAndBroadcast`: `Store`,
  `List`, then for each user of the audience `Copy` (under the hub's lock) and
  `Write`, connection by connection (outside it). `GiveUp` is the early return
  when `SetOnlineStatus` or `ListAcceptedFriendIDs` fails: nothing is stored, or
  what was stored is told to nobody. A user's connections open and close in any
  order, their goroutines run in any order. `Panic` is a stop of the server: two
  writers on one connection, or any other. `SignIn` stores a user as online
  without a connection. Four histories name the cases in which what is stored or
  heard may be wrong: `overlap` (a connection opened beside another, or beside
  one's unfinished goroutine), `hasty` (lost before its first goroutine had
  ended), `failed` (a goroutine gave up), `claimed` (stored by a sign-in, or left
  over by a stop).
* **RemoteAccess.** A request slot holds what its handler read; each SQL
  statement is an action. `Restart` empties the slots and leaves the tables.
  `lost` is history: tokens whose INSERT failed, which the handler announces
  all the same.
* **Friendship.** A member of `Client` makes one call at a time for its `Owner`;
  a user has any number of them (two devices, a button pressed twice). `pc[c]`
  names the next statement of a client's call: the insert (`Upsert`), then
  `loadFriendshipPair` and what `resolveFriendRequestPair` decides. `CancelCall`
  is a request context that ends between two statements. `acted` and `crossed`
  are history: who has acted since the last removal, and who revived the removed
  row while another call of the same user had yet to act on what it had read.
* **Accounts.** A member of `Call` is one HTTP call, made once; `pc` names its
  next statement, `kind` what it turned out to be when it read the row, `typed`
  the code it came with. `Cancel` is a statement that fails, or a request context
  that ends before it; `MarkFails` is the one failure a handler ignores:
  `ResetPassword` goes on when its code could not be marked. `LoginAgain` is the
  second attempt of `ApiClient` after a 401. Locks and codes expire at any step.
  `under`, `excused` and `past` are history: the password at the time a token was
  stored, the failures before an unban, those before a login that succeeded.
* **Communities.** A slot of `req` holds what its call has read: the actor's
  role, then nothing but the write it will do. `Then` and `Done` move it on.
  Roles and their ranks are those of `roleRank`; a community is public or not as
  each join decides. Two histories name the communities whose creator was
  reached: `forfeit` in a way the handlers do not guard, `overtaken` by a call
  that had read the roles before the owner was inserted.
* **FileTransfer.** `stask`/`rtask` is the handler suspended at an `await`;
  `sq`/`rq` the status shown; `outgoing`/`incoming` the keys of the two maps.
  Contents are reduced to whether a chunk is what was hashed (`spoiled`).
  `trouble` is what a run may meet: messages lost by the relay (`loss`), deletions
  refused while a handle is closing (`locks`), any other operation on a file that
  throws (`disk`: `SenderThrows`, `ReceiverThrows`). Such an exception leaves the
  handler where it is: nothing is answered and nothing is told to the user.
* **RemoteInput.** One action per listener, timer and message. `held`, `mouse`
  are the user's hands; `pressed`, `repeating` the page; `hostDown`,
  `hostButtons` the host's operating system. Names of keys are kept because the
  code's tables of names (with and without a side) decide what is released.
  `slot` is the one button the safety timer remembers. `allowed` is the set of
  devices the host permits; each is looked at when a message arrives.
* **ClientSession.** What runs between two awaits is a step. `refresh` is the
  body of `_refreshAccessToken`, `writes` the storage operations issued to each of
  the two stores and not yet performed: a store performs its own in order, the two
  do not wait for each other, and an operation of either may fail (`failed`, until
  its caller has seen it; `missed`, the history of keys left wrong by it). `given`
  is what the pending `setTokens` of a sign-in was called with. Tokens are numbers
  in the order of their issue.
* **EventSocket.** `Lost(s)` is `_onError`/`_onDone` called for channel `s`:
  the code does not look which channel ended. A channel created without the
  network, or with a token that has expired (the server answers 400), is `dead`
  from the start; the listener learns it later. `malformed` is an address at which
  connecting throws. `Disconnect` with no channel awaits nothing, and clears by
  `Disconnected` whatever channel there is by then.

Operators marked "fault" are used by no action. Each is a slip the code could
have contained; replacing the definition after it by the fault makes the
property it is meant for fail, which shows that the property depends on the
code.

## 3. Runs

| Run | What it asks | Bounds and why they are enough |
|---|---|---|
| `relay` | `TypeOK`, `RegistrySound`, `NoMisdelivery`, `NoTrace`, `InOrder`, `ImplementsLink`, `TeardownEnds` | Three connections, two of one application under one id, queues of two. Two frames, three until `c2` connects: enough for a full queue, a dropped frame and an order to break; `c1`, the client's event socket, sends nothing `readLoop` forwards. 202 thousand states. |
| `relay_reconnect` | `ActiveIsRegistered`, violated | two connections of one id |
| `presence` | `OnlineIsConnected`, `HeardIsTrue` | Two friends, one with two connections that may overlap, one incident (a sign-in, a statement that fails, or a stop). Two connections give every order of four goroutines of one user beside those of a friend. |
| `presence_overlap` | `ConnectedIsOnline`, violated | the same, without incidents |
| `remote_access` | `TypeOK`, `AnnouncedIsSession`, `EndedForGood`, `InvitesSettle` | Two users, one invite, two tokens, two concurrent requests, a clock of two (past the invite's expiry), restarts. |
| `social` | `Mutual`, `CrossedRequests`; `OwnerKept`, `PlanBound` | A pair with three clients, two of them one user's, three calls each, one cancelled: calls of two users and of one overlap at every statement. Two users, three communities, two calls at a time, four in all, three roles to grant; one user's plan allows one community, the other's none. 845 thousand states. |
| `client_links` | `SocketTypeOK`, `OneSocket`, `StaysClosed`, `Reconnects`; `TypeOK`, `ChunksInSequence`, `StopAndWait`, `CompletedIsThere`, `ImplementsHandover`, `PushEnds` | Five channels, more than the attempts allowed (three here, ten in the code: what matters is that they could run out); two losses of the network, two disconnects at once. One push and one pull of two chunks, without any trouble and with all three kinds. 126 thousand states. |
| `file_transfer_pull` | `PullStarts`, violated | one pull that the other end accepts, without any trouble |
| `remote_input` | `InputTypeOK`, `InStep`, `RepeatsAreHeld`, `ButtonWatched` | A modifier, an arrow key and Caps Lock (one repeats, two do not), two mouse buttons, four gestures or interruptions, one loss, two messages in flight. Three kinds of session: one with pauses, one with both buttons, one with one button and everything else. 4.2 million states. |
| `client_session` | `TypeOK`, `NobodyForgotten`, `Recoverable`, `LeftForGood` | Two screens and the user, two sign-ins, three access tokens, one restart, one failed operation of either store, on platforms with and without a readable secure storage; tokens expire in the order of their issue. 4.6 million states. |
| `accounts` | `FailuresBan`, `BanEarned`, `ResetEndsSessions`, `CodeSpent` | Four calls of any kind, a reset code that overlapping calls share and a verification code, a lock at two failures and a ban at three (the code's 5 and 10 are constants: what matters is that a lock comes before a ban and that overlapping failures reach both). 811 thousand states. |
| `accounts_reset` | `CountStartsAgain`, violated | the same |

Some properties except cases in which the code does something else; each
exception is a variable or a condition in the property, and sections 5 and 6 say
what the code does there.

* `OnlineIsConnected` and `HeardIsTrue` name the four histories of `Presence`:
  with overlapping connections the first still holds of users without a
  connection.
* `AnnouncedIsSession` says that a token told to a requester is that of a session
  of the requester's invite. It does not say that there is one such session, and it
  excepts tokens whose INSERT failed.
* `Mutual` excepts a row whose requester is in `crossed`. `OwnerKept` excepts
  `forfeit` and `overtaken`.
* `PushEnds` speaks of runs without trouble.
* `RepeatsAreHeld` excepts sessions that are paused; `InStep` speaks of sessions
  that are at most paused, `ButtonWatched` of two buttons only where nothing is
  lost or interrupted.
* `Recoverable` speaks of a client that writes to the store the next start reads,
  and excepts the keys whose last operation there failed; `LeftForGood` speaks of
  the stored token under the first of these conditions.
* `OneSocket`, `StaysClosed` and `Reconnects` except a client that called
  `connect` while a reconnection was due or a disconnect had not returned;
  `Reconnects` also needs a token that lasts and an address that is one.
* `FailuresBan` counts failures since the last login that succeeded and the last
  unban, `ResetEndsSessions` excepts tokens stored after the new password and
  resets that are unfinished, `CodeSpent` calls that overlap and calls of which a
  statement failed.

Deadlock is not checked anywhere: with every call, frame and connection used
up, each of these systems may stop.

### Fairness

* `Relay`: weak fairness of each reader and writer – the Go scheduler runs
  goroutines that can proceed. No client is made to connect or send and no
  connection to break. The bound on frames, in `MCRelay`'s next-state
  relation, disables only `ReadFrame` and `c2`'s `Connect`, which no fairness
  requires.
* `RemoteAccess`: the clock ticks and the daily cleanup runs
  (`worker/cleanup.go`). Requests may never be sent, or be lost in a restart.
* `FileTransfer`: messages are handled, suspended handlers resume, and the user
  answers the dialog. No fairness of the user's own steps.
* `EventSocket`: timers fire, a listener is told of the end of its channel, an
  awaited close returns. Nobody is made to connect, the network need not come
  back and a token need not last (`Reconnects` assumes both).
* `MCLinks` states the same fairness for the subject of the behaviour.

## 4. Proofs

All theorems hold for every value of the constants that satisfies the named
assumptions of the module, which TLC evaluates in the runs. Every invariant and
every action property that a passing run checks is a theorem, and so are the two
refinements.

**`RelayProofs`** (any connections, ids, users, capacity and number of frames).
`TypeInv`, `RegistryInv` and `OrderInv` are inductive together in that order:

* `HoldTyped`, `HoldSound`: between lookup and send the reader holds a
  connection of the id the frame names. Ids never change, so this survives
  whatever happens to the registry in between, and `NoMisdelivery` follows.
* `ClosedIsTearing`: the channel is closed only past the removal from the
  registry, which is what `RegistrySound` needs at `CloseSend`. The one delicate
  step is the teardown of an older connection of an id: it removes the newer
  one's entry, which keeps the registry sound (and empty, hence the violated
  `ActiveIsRegistered`).
* `SentBefore`: what waits or was delivered was sent, and a frame being
  forwarded is newer than all of it; with it a frame appended to a queue keeps
  `InOrder`.
* `HubSound`: the hub knows a connection under its own user and not after its
  `Unregister`; with the registry's soundness that is `NoTrace`.

Theorems: `TypeCorrect`, `RegistryStaysSound`, `NeverMisdelivered`,
`NeverReordered`, `NoTraceLeft`, and `RelayImplementsLink`, the refinement of
`LossyFifo`: each write is a delivery of the abstract link, each frame read a send,
the close of a socket a departure, everything else a stutter.

**`FriendshipProofs`** (any number of clients of each user, of calls and of
cancellations). `Mutual` is not inductive: `AcceptPair` and `ResolveWrite` make two
users friends on the strength of a row read earlier. The invariant `IInv` adds that
a call that has read the row and has yet to write it (`Between`) belongs to the
addressee of the row, unless its user is in `crossed` – the one step that can make
a requester of such a user is the revival of a removed row by another call – and
that the requester of a live row has acted. `CrossingInv` is about a pair that did
nothing but ask once each (`Asking`): no row is removed or blocked, and whoever's
call ended before the two were friends is the requester of the pending row, so that
the other call finds it and accepts; both calls cannot end that way, because the
two are different users (`PairAssumption`). Theorems: `FriendshipIsMutual`,
`CrossedRequestsMeet`.

**`AccountsProofs`** (any calls and codes, any `LockAt < BanAt`). Two
invariants. `CodeInv` adds to `ResetEndsSessions` that a cut call has stopped –
except a reset whose code could not be marked, which goes on –, that only a reset
past its update stored a password, and that a code is spent once a call of which
nothing failed is past `MarkUsed` (`Calls`, `Spent`); `ResetsEnd` and `CodesSpent`
follow. `FailInv` counts: the count in the row is at most the failed logins, and
at least those that neither an unban nor a success has set aside, since nothing
ever lowers it; second attempts are no more than the refusals they answer; and
while the account is not banned fewer than `BanAt` such failures have run to their
end – the call that counted the last still has its ban to do. `FailuresAlwaysBan`
and `BansAreEarned` follow by arithmetic on cardinalities.

**`CommunitiesProofs`** (any users, communities, slots and plans). `OwnerInv`, for
communities that are not `Excepted`: until its owner is inserted a community has no
row of its creator (`NotJoined`); a call about to change or remove the creator
therefore passed its check between the two INSERTs (`NoneOvertakes`), and the second
of them puts the community into `overtaken`. Nobody ranks above `owner`, so later
checks fail. `PlanInv` counts creations past the check together with communities
owned: the sum exceeds the plan by less than the number of slots.

**`RemoteControlProofs`, the server** (any users, invites, tokens and requests).
`SessionInv`: a drawn token is held by one acceptance until it is announced and
nobody can name it before (`Tokens`), so what the acceptance inserted is what it
announces (`Announceable`). `EndedStays` needs only `TypeInv` and the lemma on
`Coalesced`.

**`RemoteControlProofs`, the two ends** (any keys, buttons, gestures and losses; no
name without a side is a key of the host's table, as in `_specialKeyVkMap`).

* `KeyInv`: while the page cannot take key events, no key repeats, and what repeats
  is held. Theorem: `HeldRepeats`.
* `Typed` joins what the page holds, what the host holds and what travels.
  Theorem: `InputTypes`.
* `Calm`: what a session may not do has not happened. In a session that is at most
  paused every key event is therefore taken, and `InStep` is inductive with it: a
  message appended to the link decides what its key will be (`WordSent`), and a
  delivery leaves the last word on every key what it was (`WordDelivered`,
  `KeyDelivered`). Theorem: `KeysInStep`.
* A session with one button needs only that every message about buttons is about
  that one (`LeftOnly`). With two, `TwoButtons` says that the messages under way can
  be replayed: there is a `Trace` of buttons down, from what the host holds to what
  the page holds, in which a press starts from no button and a release ends the one
  that is down. A message sent extends the trace, a delivery cuts its first step
  (`TraceSent`, `TraceDelivered`). Theorem: `ButtonsAreWatched`.

**`FileTransferProofs`** (any transfers, any number of chunks, any losses, refused
deletions and exceptions). Neither `ChunksInSequence` nor `StopAndWait` is
inductive. `TransferInv` says that each transfer has one token: one message of the
hand-shake, on one link, or one suspended handler, at one end, and that its holder
knows how far both ends have come (`OneToken`). Cancels and errors are not tokens:
they may leave a token behind, never make a second. An exception ends a token. For
the refinement, `SettledInv` adds that the last word on a transfer is `CompleteAck`:
no error and no cancel is behind it. Theorems: `TypeCorrect`,
`ChunksArriveInSequence`, `OneChunkAtATime`, `CompletedArrived`,
`TransferImplementsHandover`.

**`PresenceProofs`** (any users, friendships, connections and goroutines, any
overlap, database failure and restart; no further hypothesis). `PresenceInv`
consists of the types and

* `Control`: the goroutines of a connection follow its state (`Orderly`), a
  connection not lost hastily has told of itself before it is lost (`Told`), and
  only of users in `overlap` are two connections open or unfinished (`Single`).
  One lemma for each kind of step says how these move (`Opened`, `Ended`,
  `Stopped`);
* `Stored`: a connected user who never overlapped is stored as online or about to
  be; a user stored as online is connected, or the end of a connection is still to
  be stored, or a sign-in or stop stored it last. The second half does not need
  `overlap`: however connections overlap, the last to end stores it;
* `Audiences`, `Heard`: what an open connection last heard of a user in neither
  `overlap`, `hasty` nor `failed` is true, or a goroutine of that user has still to
  tell it. The step that matters is a goroutine's write: it runs alone for its user,
  so what it says is still true (`RunsTrue`).

Theorems: `PresenceTypes`, `OnlineMeansConnected`, `HeardMeansTrue`. A connection
that opens after an event was sent hears nothing of it; `HeardIsTrue` speaks of what
was heard.

**`ClientProofs`, the session** (any calls, sign-ins, tokens, restarts, expiries and
faults of either store). `SessionInv` is inductive; its parts:

* `Counters` types what is under way. Theorem, with `TypeOK`: `SessionTypes`.
* `NobodyForgotten` itself, with one lemma for the two ways a refresh ends
  (`WaitingNext`). Theorem: `NobodyWaitsForNothing`.
* `Steady`: where secure storage cannot be read it is not written to either; where
  it can, one failed write turns the client to the other store, and `Usual` says
  that this has not happened since the last start.
* `Catching`, while `Usual`: of the operations under way on a key of the store the
  next start reads, the last brings what memory holds; without any, the store holds
  it or the last one failed (`missed`). Saving and clearing append (`Newest`,
  `StoresCatch`), performing or failing removes the first (`PerformCatches`); what
  travels to the other store does not disturb it (`PutAside`). It implies
  `Recoverable`. Theorem: `WhatIsHeldIsStored`.
* `Gone`: from the wipe of a sign-out to the next sign-in memory has no refresh
  token, and either the store and every operation under way are without one
  (`Zeroed`), or the user's own removal is still under way and nothing behind it
  writes a token, or it has failed and the sign-out will say so (`Removed`). A
  refresh that was answered during the sign-out writes an access token only, which
  is why it does not disturb this; that it writes one at all is in section 6.
  Theorem: `NothingIsLeft`.

**`ClientProofs`, the socket** (any bounds). `SocketInv`: the types (`SocketFlags`,
`SocketCounts`), and without an overlap of connects and disconnects there is one
channel to listen to, none while a reconnection is due and nothing at all during
and after a disconnect (`OneChannel`). `Connecting` covers the two callers of
`PerformConnect`. Theorems: `SocketTypes`, `OneAtATime`, `ClosedStays`.

**Only model-checked**: liveness (`TeardownEnds`, `InvitesSettle`, `PushEnds`,
`Reconnects`), out of the prover's reach because it involves fairness and ENABLED.

## 5. Disagreements shown by a run

* `relay_reconnect`: `readLoop`'s deferred `clients.Remove(c.ID)` removes by id
  (`router.go:85`). A client that reconnects before its old connection is torn
  down stays connected and is unregistered: frames for it are dropped.
* `file_transfer_pull`: `requestReceiveFromRemote` registers the transfer
  nowhere, so the acceptance is ignored at `file_transfer_service.dart:603` and
  no requested file is ever received. In the trace the other end accepts, its
  acceptance arrives, and the pull stays pending.
* `presence_overlap`: a user with two connections who loses one is stored as
  offline while connected (`router.go:90`; `TESTS_EVALUATION.md:32`). The client
  opens two connections, and reconnects without a delay.
* `accounts_reset`: nothing resets the count of failed logins.
  `ResetFailedLoginCount` (`security.go:19`) has no caller, against
  `ARCHITECTURE.md:1065`: failures add up, over any time, to the ban.

## 6. Other disagreements seen while modelling

The models contain these behaviours; no run states them, and the properties
above are worded around them.

* A goroutine of presence that cannot read the friends tells nobody what it has
  stored (`router.go:141`), a stop of the server leaves `is_online` as it was, and a
  connection lost before its first goroutine ended may be stored as online.
* The hub writes to a connection from the publisher's goroutine (`hub.go:66`)
  while `writeLoop` does the same; `ARCHITECTURE.md:1389` describes a send on
  the channel.
* A send to a channel closed since the lookup panics and costs the *sender* its
  connection (`router.go:267`; `ARCHITECTURE.md:399`).
* One message dropped by the relay leaves a transfer active for ever;
  `TESTS_EVALUATION.md:53` assumes a data channel that retransmits. So does an
  operation on a file that throws, at either end: nobody catches it, and nothing is
  answered (`file_transfer_service.dart:278`, `557`, `757`).
* Two accepts of one invite at once both update it, each with a token of its own:
  two sessions are opened and announced (`remote_handler.go:157`).
* `POST /remote/sessions` does not read the invite it names
  (`remote_sessions_handler.go:54`; `ARCHITECTURE.md:1186`), and accepting an invite
  opens a session outside the plan's limit (`remote_handler.go:162`;
  `RAPPORT_PFE.md:584`).
* Of two calls of one user, one may read the other user's request, and the second
  find the row removed and revive it: the first then accepts what has become its
  user's own request (`friends_handler.go:97`, `friends.go:63`).
* A request by the first requester, or a second revival of a removed row, resets the
  pair's row to pending, friends or not (`friends.go:118`; `friends_handler.go:59`),
  and blocking the friend who had asked first fails (`friends_handler.go:157`;
  `APP_LOGIC.md:189`).
* A key held when the session ends stays down on the host: the reset names modifiers
  without a side, which the engine does not know (`remote_support_page.dart:2913`;
  the comment at 2651 promises the opposite).
* A failure of `SharedPreferences` during a refresh is swallowed
  (`api_client.dart:293,303`): the refresh succeeds with a token that is held and
  not stored. One failed write to secure storage puts the tokens where the next
  start does not look (`api_client.dart:117`; `ARCHITECTURE.md:1111`); a refresh
  answered after a sign-out leaves an access token (`api_client.dart:273`;
  `RUNBOOK.md:147`); a refused refresh clears the tokens and leaves the signed-in
  screens (`api_client.dart:318`; `RUNBOOK.md:121`).
* The event socket resets its attempts before anything is connected, so its
  delay is always zero (`ws_client.dart:116,144`); `ARCHITECTURE.md:1523` speaks
  of an exponential backoff. It reconnects with the token of the last call of
  `connect` (`ws_client.dart:76,94`): once that has expired the server refuses every
  attempt, and nothing asks for a newer one, against `RUNBOOK.md:126`.
* The payload of a key event has no lock states, which reads as "off": the host
  switches Caps Lock off before every event, against
  `keyboard_host_injection_engine.dart:97`. `InStep` leaves Caps Lock aside.
* The safety timer of the mouse remembers one button
  (`remote_support_page.dart:2501`): with two, after a release that was lost or
  never sent, the first stays down on the host.
* A key that repeats when the session is paused, and is released during the pause,
  goes on repeating: its timer does not look at the pause, the listener of the
  release does (`remote_support_page.dart:2156,4050`).
* `AdminUnbanUser` leaves the count of failed logins, so that the next failure bans
  again.
* A login that compared the earlier password may store its token after the reset
  revoked the others; the session lives on (`auth_handler.go:704`;
  `PASSWORD_RESET_CODE_FLOW.md:149`). Two calls that overlap may use one code, and
  so may two that do not when it could not be marked (`auth_handler.go:709`).
* The handlers of two-factor codes and of the change of password are mounted
  without `RequireAuth` (`app.go:41`): they find no user and answer 401.
* A sign-in stores `is_online` before there is a connection (`auth_handler.go:729`),
  and nobody stores the opposite if none follows.
* Bans of a community do not keep anybody out: joining, adding and reviewing do
  not read them, nor does anything read `expires_at`; banning a banned user who
  joined again fails on the unique row and does not remove the user
  (`communities_handler.go:536`).
* Banning and adding members do not read the role of their target, the owner's
  included; a creator who joins the own community by code becomes `user`. A
  creation cut between its statements leaves a community whose creator is no
  member (`communities.go:24`). Who joins between the two INSERTs may remove the
  creator: the removal reads an empty role, which the second INSERT makes `owner`
  (`communities.go:21-27`).
* Overlapping creations pass one check of the plan (`plan.go:36`).
* The client calls `/communities/{id}/leave` (`data_providers.dart:791`), which
  no route serves.
* Lists are ordered by `created_at` and continued from an `id`
  (`communities.go:263`, `auth.go:238,306`; `ARCHITECTURE.md:1529`), and the
  first page of direct messages is ordered by a random id (`messages.go:41`):
  rows are skipped or repeated between pages.

## 7. Not modelled

* Screens and presentation; capture, codecs, audio and the native overlay
  (opaque data, operating system calls); mail, geolocation and file storage
  (input and output); the keyboard transport library (the page hands it no key).
* Administration, profiles and personal data, direct messages, notifications:
  reads and writes of one statement each; what they publish is written by the
  hub, which `Presence` models. Audit and logging: nothing reads them back.
* The signalling sessions: `handleRegister` reads the table to complete its own
  entry, and nothing else depends on it.
* The rate limiter: one critical section per request, sequential code. The push
  dispatcher: a bounded queue with one consumer and a non-blocking send, whose
  outcome nothing reads; `Relay` models the same structure with a teardown.
* The migrations: a sequential runner; what a stop between a migration and its
  record does depends on the SQL of each file.
* The signalling client and the invite popup: one slot each on the client, which
  late events overwrite; section 1 and the list of hazards name them. The
  server's side of both is in `Relay` and `RemoteAccess`.

Left out inside the modelled components: cursor positions, wheel and layouts; file
names and the browsing of folders, and so two transfers of one name; two-factor
codes; quality and statistics of sessions, unattended access; custom presence
statuses; announcements, messages and departments of communities. The toolchains and
libraries vendored in the repository (`.tools`) are not part of the program.

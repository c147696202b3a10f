---------------------------- MODULE RemoteInput ----------------------------
(***************************************************************************)
(* Keyboard and mouse of a remote session: the listeners of the            *)
(* controller's session page (client/lib/screens/remote_support_page.dart),*)
(* the relayed input_event messages and the host page that injects them    *)
(* with keyboard_host_injection_engine.dart and mouse_event.               *)
(*                                                                         *)
(* A callback of either page runs to its end in one step.  Key repeats,    *)
(* the 1.5 s modifier synchronisation and the 1.5 s mouse safety are       *)
(* timers, steps that may happen whenever their timer is armed.  Cursor    *)
(* positions, layouts and characters are left out.                         *)
(***************************************************************************)
EXTENDS Naturals, Sequences

CONSTANTS
  Key,          \* key names the controller sends
  Special,      \* _specialKeyVkMap: names injected as a key going down or up
  Managed,      \* keys the page repeats itself
  Modifier,     \* keys _isModifierLogical knows
  Generic,      \* the side-less names that synchronisation and reset use
  CapsLock,     \* the name of the Caps Lock key
  Button, Left, \* mouse buttons, and the one every session uses
  None,         \* no button
  Sessions,     \* kinds of session, each by what may interrupt it: a subset of
                \* "focus", "pause", "reboot", "policy", "end", "loss", and "right"
                \* when the user also has a use for the other button
  MaxGestures,  \* bound: presses and interruptions
  MaxLosses,    \* bound: messages the relay drops
  LinkCap       \* bound: messages in flight when a timer may add one

ASSUME RemoteInputAssumption ==
  /\ Managed \subseteq Special
  /\ Generic \cap Special = {}     \* _specialKeyVkMap names modifiers with a side
  /\ None \notin Button /\ Left \in Button
  /\ {MaxGestures, MaxLosses, LinkCap} \subseteq Nat

VARIABLES
  held, mouse,                   \* the controller's keyboard and mouse
  focus, paused, connected, open,\* the page: focus, _isSessionPaused,
                                 \* _isConnected, not yet closed
  pressed, repeating, button,    \* _pressedLogicalKeys, repeat timers, the
                                 \* button of _mouseButtonDown
  link,                          \* messages between the two pages
  hosting, allowed,              \* host page open, the devices it permits
  hostDown, hostCaps,            \* keys down and Caps Lock on the host
  hostButtons, slot,             \* buttons down, _hostMouseButtonDownType
  gestures, losses,
  may                            \* what may interrupt this session

page == <<focus, paused, connected, open>>
host == <<hosting, allowed, hostDown, hostCaps, hostButtons, slot>>
inputVars == <<held, mouse, page, pressed, repeating, button, link, host,
          gestures, losses, may>>

Device == {"keyboard", "mouse"}

\* What one input_event says
Message(a, x) == [act |-> a, of |-> x]

InputInit ==
  /\ held = {} /\ mouse = None
  /\ focus = TRUE /\ paused = FALSE /\ connected = TRUE /\ open = TRUE
  /\ pressed = {} /\ repeating = {} /\ button = None
  /\ link = <<>>
  /\ hosting = TRUE /\ allowed = Device
  /\ hostDown = {} /\ hostCaps \in BOOLEAN /\ hostButtons = {} /\ slot = None
  /\ gestures = 0 /\ losses = 0
  /\ may \in Sessions

CanSend == connected /\ open
Listening == CanSend /\ ~paused                \* pointer events get through
Typing == Listening /\ focus                   \* key events get through

Send(m) == link' = IF CanSend THEN Append(link, m) ELSE link

Gesture == gestures < MaxGestures /\ gestures' = gestures + 1

---------------------------------------------------------------------------
(* The controller's page *)

\* fault: the repeat timers start for every key
KeyDownRepeatingAll(k) ==
  /\ k \notin held /\ open /\ Gesture
  /\ held' = held \cup {k}
  /\ IF Typing /\ ~(k \in Managed \cup Modifier /\ k \in pressed)
     THEN /\ pressed' = pressed \cup {k}
          /\ Send(Message("keydown", k))
          /\ repeating' = repeating \cup {k}
     ELSE UNCHANGED <<pressed, link, repeating>>
  /\ UNCHANGED <<mouse, page, button, host, losses>>

KeyDown(k) ==
  /\ k \notin held /\ open /\ Gesture
  /\ held' = held \cup {k}
  /\ IF Typing /\ ~(k \in Managed \cup Modifier /\ k \in pressed)
     THEN /\ pressed' = pressed \cup {k}
          /\ Send(Message("keydown", k))
          /\ repeating' = repeating \cup ({k} \cap Managed)
     ELSE UNCHANGED <<pressed, link, repeating>>
  /\ UNCHANGED <<mouse, page, button, host, losses>>

\* fault: a key up is booked before the early return for a paused session
KeyUpBookedFirst(k) ==
  /\ k \in held
  /\ held' = held \ {k}
  /\ pressed' = pressed \ {k}
  /\ repeating' = repeating \ {k}
  /\ IF Typing THEN Send(Message("keyup", k)) ELSE link' = link
  /\ UNCHANGED <<mouse, page, button, host, gestures, losses>>

KeyUp(k) ==
  /\ k \in held
  /\ held' = held \ {k}
  /\ IF Typing
     THEN /\ pressed' = pressed \ {k}
          /\ repeating' = repeating \ {k}
          /\ Send(Message("keyup", k))
     ELSE UNCHANGED <<pressed, link, repeating>>
  /\ UNCHANGED <<mouse, page, button, host, gestures, losses>>

\* Both repeat timers: a tick sends another press or finds that it must stop
RepeatTick(k) ==
  /\ k \in repeating
  /\ IF k \in pressed /\ CanSend
     THEN Len(link) < LinkCap /\ Send(Message("keydown", k)) /\ UNCHANGED repeating
     ELSE repeating' = repeating \ {k} /\ link' = link
  /\ UNCHANGED <<held, mouse, page, pressed, button, host, gestures, losses>>

\* fault: the repeat timers are left running
DropPressed == pressed' = {} /\ UNCHANGED repeating

\* What losing the focus and closing the page have in common
DropKeys == pressed' = {} /\ repeating' = {}

LoseFocus ==
  /\ "focus" \in may /\ focus /\ open /\ Gesture
  /\ focus' = FALSE
  /\ DropKeys
  /\ Send(Message("reset", {}))
  /\ UNCHANGED <<held, mouse, paused, connected, open, button, host, losses>>

RegainFocus ==      \* a dialog closes and gives the focus back
  /\ ~focus /\ open
  /\ focus' = TRUE
  /\ UNCHANGED <<held, mouse, paused, connected, open, pressed, repeating,
                 button, link, host, gestures, losses>>

\* The local button, or session_pause from the host
TogglePause ==
  /\ "pause" \in may /\ open /\ Gesture
  /\ paused' = ~paused
  /\ UNCHANGED <<held, mouse, focus, connected, open, pressed, repeating,
                 button, link, host, losses>>

\* _rebootDevice, confirmed in a dialog that holds the focus
Reboot ==
  /\ "reboot" \in may /\ CanSend /\ ~focus /\ Gesture
  /\ connected' = FALSE
  /\ UNCHANGED <<held, mouse, focus, paused, open, pressed, repeating,
                 button, link, host, losses>>

Reconnect ==        \* the reconnect loop, or a frame of the host
  /\ ~connected /\ open
  /\ connected' = TRUE
  /\ UNCHANGED <<held, mouse, focus, paused, open, pressed, repeating,
                 button, link, host, gestures, losses>>

SyncModifiers ==    \* every 1.5 s
  /\ CanSend /\ Len(link) < LinkCap
  /\ \A i \in 1 .. Len(link) : link[i].act # "sync"
  /\ Send(Message("sync", IF held \cap (Modifier \ {CapsLock}) = {} THEN {} ELSE Generic))
  /\ UNCHANGED <<held, mouse, page, pressed, repeating, button, host,
                 gestures, losses>>

PointerDown(b) ==
  /\ mouse = None /\ open /\ Gesture
  /\ b = Left \/ "right" \in may
  /\ mouse' = b
  /\ IF Listening
     THEN button' = b /\ focus' = TRUE /\ Send(Message("press", b))
     ELSE UNCHANGED <<button, focus, link>>
  /\ UNCHANGED <<held, paused, connected, open, pressed, repeating, host, losses>>

PointerUp ==
  /\ mouse # None
  /\ mouse' = None
  /\ IF Listening /\ button # None
     THEN button' = None /\ Send(Message("release", button))
     ELSE UNCHANGED <<button, link>>
  /\ UNCHANGED <<held, page, pressed, repeating, host, gestures, losses>>

\* _closeSession: reset_all_keys, then session_end
Close ==
  /\ "end" \in may /\ open /\ Gesture
  /\ open' = FALSE
  /\ DropKeys
  /\ link' = link \o (IF CanSend THEN <<Message("reset", {})>> ELSE <<>>)
                  \o <<Message("end", {})>>
  /\ UNCHANGED <<held, mouse, focus, paused, connected, button, host, losses>>

---------------------------------------------------------------------------
(* The host's page *)

\* injectKeyboardEvent reads the payload with KeyboardKeyEvent.fromJson.  The
\* payload has no field isModifier, so a name that is not special is injected
\* as a tap, or not at all.
Injected(down, k, phase) ==
  IF k \notin Special THEN down
  ELSE IF phase = "keydown" THEN down \cup {k} ELSE down \ {k}

\* _syncLockKeys comes first.  The payload has no lock state, which reads as
\* off: when Caps Lock is on it is clicked, and Windows toggles it unless the
\* key was down already.
Clicked == IF hostCaps THEN hostDown \ {CapsLock} ELSE hostDown
StillOn == hostCaps /\ CapsLock \in hostDown

\* _applyRemoteKeyStateSync and _resetRemoteInjectedKeys name modifiers
\* without a side
Housekeeping(down, on) ==
  (down \cup (on \cap Special)) \ ((Generic \ on) \cap Special)

HostKey(m) ==
  /\ IF m.act \in {"keydown", "keyup"}
     THEN IF "keyboard" \in allowed
          THEN /\ hostDown' = Injected(Clicked, m.of, m.act)
               /\ hostCaps' = IF /\ m.act = "keydown" /\ m.of = CapsLock
                                 /\ CapsLock \notin Clicked
                              THEN ~StillOn ELSE StillOn
          ELSE UNCHANGED <<hostDown, hostCaps>>
     ELSE hostDown' = Housekeeping(Clicked, m.of) /\ hostCaps' = FALSE
  /\ UNCHANGED <<hosting, hostButtons, slot>>

\* fault: a press does not arm the safety timer
HostButtonUnarmed(m) ==
  /\ IF m.act = "press"
     THEN hostButtons' = hostButtons \cup {m.of} /\ slot' = slot
     ELSE hostButtons' = hostButtons \ {m.of} /\ slot' = None
  /\ UNCHANGED <<hosting, hostDown, hostCaps>>

HostButton(m) ==
  /\ IF "mouse" \notin allowed THEN UNCHANGED <<hostButtons, slot>>
     ELSE IF m.act = "press"
     THEN hostButtons' = hostButtons \cup {m.of} /\ slot' = m.of
     ELSE hostButtons' = hostButtons \ {m.of} /\ slot' = None
  /\ UNCHANGED <<hosting, hostDown, hostCaps>>

HostEnd == \* the page closes; dispose cancels the mouse safety
  /\ hosting' = FALSE /\ slot' = None
  /\ UNCHANGED <<hostDown, hostCaps, hostButtons>>

Deliver ==
  /\ link # <<>> /\ link' = Tail(link)
  /\ LET m == Head(link) IN
       \/ hosting /\ m.act \in {"keydown", "keyup", "sync", "reset"} /\ HostKey(m)
       \/ hosting /\ m.act \in {"press", "release"} /\ HostButton(m)
       \/ hosting /\ m.act = "end" /\ HostEnd
       \/ ~hosting /\ UNCHANGED <<hosting, hostDown, hostCaps, hostButtons, slot>>
  /\ UNCHANGED <<held, mouse, page, pressed, repeating, button, allowed,
                 gestures, losses>>

\* The relay drops a message when the host's send channel is full
Lose ==
  /\ "loss" \in may /\ link # <<>> /\ losses < MaxLosses
  /\ losses' = losses + 1 /\ link' = Tail(link)
  /\ UNCHANGED <<held, mouse, page, pressed, repeating, button, host, gestures>>

\* input_policy, which carries the sender's two permissions: one of the two users
\* switches one of them, or restarts both
SetPolicy ==
  /\ "policy" \in may /\ hosting /\ Gesture
  /\ allowed' \in SUBSET Device /\ allowed' # allowed
  /\ UNCHANGED <<held, mouse, page, pressed, repeating, button, link,
                 hosting, hostDown, hostCaps, hostButtons, slot, losses>>

MouseSafety ==
  /\ slot # None
  /\ hostButtons' = hostButtons \ {slot} /\ slot' = None
  /\ UNCHANGED <<held, mouse, page, pressed, repeating, button, link,
                 hosting, allowed, hostDown, hostCaps, gestures, losses>>

Step ==
  \/ \E k \in Key : KeyDown(k) \/ KeyUp(k) \/ RepeatTick(k)
  \/ LoseFocus \/ RegainFocus \/ TogglePause \/ Reboot \/ Reconnect
  \/ SyncModifiers \/ Close
  \/ PointerUp \/ \E b \in Button : PointerDown(b)
  \/ Deliver \/ Lose \/ SetPolicy \/ MouseSafety

InputNext == Step /\ UNCHANGED may

InputSpec == InputInit /\ [][InputNext]_inputVars

---------------------------------------------------------------------------
(* Properties *)

Act == {"keydown", "keyup", "sync", "reset", "press", "release", "end"}

\* Every variable holds a value of the kind the two pages give it.
InputTypeOK ==
  /\ held \subseteq Key /\ pressed \subseteq Key /\ repeating \subseteq Managed
  /\ {focus, paused, connected, open, hosting, hostCaps} \subseteq BOOLEAN
  /\ allowed \subseteq Device
  /\ {mouse, button, slot} \subseteq Button \cup {None}
  /\ hostDown \subseteq Special /\ hostButtons \subseteq Button
  /\ \A i \in DOMAIN link : link[i].act \in Act
  /\ gestures <= MaxGestures /\ losses <= MaxLosses
  /\ may \in Sessions

\* Messages on their way about key k; the last of them decides
Told(k) == {i \in DOMAIN link : link[i].act \in {"keydown", "keyup"} /\ link[i].of = k}

WillBeDown(k) ==
  \/ Told(k) = {} /\ k \in hostDown
  \/ \E i \in Told(k) : link[i].act = "keydown" /\ \A j \in Told(k) : j <= i

\* Once what is in flight has arrived, the special keys down on the host are
\* those the controller's page believes pressed, Caps Lock apart: pauses do not
\* break the pairing of key down and key up.
InStep ==
  may \subseteq {"pause", "right"} =>
    \A k \in Special \ {CapsLock} : WillBeDown(k) <=> k \in pressed

\* A key repeats only while the user's finger is on it, whatever focus
\* changes, reboots, losses or end of the session come in between, if nobody
\* pauses.
RepeatsAreHeld == "pause" \notin may => repeating \subseteq held

\* A mouse button that is down on the host is the one the armed safety timer
\* will release, whatever became of the release the controller sent or did not
\* send, as long as the host page is open.  The timer remembers one button: a
\* session that uses two must not lose, pause or interrupt anything.
ButtonWatched ==
  hosting /\ ("right" \in may => may = {"right"}) => hostButtons \subseteq {slot}
=============================================================================

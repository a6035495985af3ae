------------------------------ MODULE WindowInput ------------------------------
(***************************************************************************)
(* How input reaches the game: WindowCallbacks (window_callbacks.cpp), the *)
(* FakeInputQueue it fills and the FakeLooper whose pollAll() the game     *)
(* calls.  The looper, the callbacks and the game's reading of the queue   *)
(* share one thread.  Here the game reads Android's input queue; games     *)
(* built on GameActivity are called directly instead.                      *)
(*                                                                         *)
(* Events carry what the properties tell apart: which finger, which pad,   *)
(* which button.  A gamepad has buttons and one axis, at "rest" or "far"   *)
(* (only then can it change the input mode).  A motion event of a gamepad  *)
(* holds no value: the game's reading of it looks the pad up.  Whether a   *)
(* mod or the user interface takes an event is a choice at every event,    *)
(* and so are the ready file descriptors.  With the option emulateTouch    *)
(* the mouse is the touch of pointer 0, which a finger may be too.         *)
(***************************************************************************)
EXTENDS Integers, Sequences

CONSTANTS
    Gamepads, Buttons, Fingers,
    NoFinger,           \* imGuiTouchId = -1
    Pointer0,           \* the finger that the mouse emulates
    Setups,             \* <<forcedMode, useRawInput, emulateTouch>>: the environment
                        \* variables and the option
    MaxEvents           \* bound: how many events are queued

Rank == [Touch |-> 0, Mouse |-> 1, Gamepad |-> 2, Unknown |-> 3]
Modes == DOMAIN Rank
Values == {"rest", "far"}

\* The events of the two queues.
KeyInputs == [source : {"keyboard"}]
             \cup [source : {"pad"}, pad : Gamepads, button : Buttons, pressed : BOOLEAN]
MotionInputs == [source : {"mouse"}] \cup [source : {"pad"}, pad : Gamepads]
                \cup [source : {"touch"}, id : Fingers, phase : {"start", "move", "end"}]

ASSUME InputAssumption ==
    /\ NoFinger \notin Fingers /\ Pointer0 \in Fingers
    /\ Setups \subseteq Modes \X BOOLEAN \X BOOLEAN
    /\ MaxEvents \in Nat

VARIABLES
    forcedMode, useRawInput, emulateTouch,
    sendEvents, inputMode, cursorLocked,
    recent,                     \* inputModeSwitchDelay has not passed since lastUpdated
    cursorDisabled,             \* the window's
    gamepads,                   \* the connected ones
    axis, button,               \* their GamepadData
    needsQueueGamepadInput,
    imGuiTouchId,
    keyEvents, motionEvents,    \* the FakeInputQueue
    inputEntry,                 \* the looper has the queue
    polling,                    \* inside the window's pollEvents()
    fingers,                    \* the fingers on the screen
    mouseDown,                  \* with emulateTouch: a button was pressed last, not released
    reported,                   \* the game: the controllers it was told of,
    seenAxis, seenButton,       \* what it has read of each,
    seenTouch,                  \* and the touches it has read
    gone,                       \* history: the gamepads that were disconnected
    taken                       \* history: the touches whose end the game is not told of

setup == <<forcedMode, useRawInput, emulateTouch>>
mode == <<inputMode, recent, cursorDisabled>>
pads == <<gamepads, axis, button>>
queue == <<keyEvents, motionEvents>>
touch == <<imGuiTouchId, fingers, mouseDown, taken>>
game == <<reported, seenAxis, seenButton, seenTouch>>
vars == <<setup, sendEvents, mode, cursorLocked, pads, needsQueueGamepadInput, touch,
          queue, inputEntry, polling, game, gone>>

Init ==
    /\ \E s \in Setups : forcedMode = s[1] /\ useRawInput = s[2] /\ emulateTouch = s[3]
    /\ sendEvents = FALSE
    /\ inputMode = "Unknown" /\ recent = FALSE /\ cursorDisabled = FALSE
    /\ cursorLocked = FALSE
    /\ gamepads = {}
    /\ axis = [g \in Gamepads |-> "rest"] /\ button = [g \in Gamepads |-> {}]
    /\ needsQueueGamepadInput = TRUE
    /\ imGuiTouchId = NoFinger /\ fingers = {} /\ mouseDown = FALSE /\ taken = {}
    /\ keyEvents = <<>> /\ motionEvents = <<>>
    /\ inputEntry = FALSE /\ polling = FALSE
    /\ reported = {}
    /\ seenAxis = [g \in Gamepads |-> "rest"] /\ seenButton = [g \in Gamepads |-> {}]
    /\ seenTouch = {}
    /\ gone = {}

--------------------------------------------------------------------------------
\* hasInputMode: whether input of this kind is let through ...
Allowed(want, change) ==
    /\ sendEvents
    /\ \/ useRawInput
       \/ forcedMode # "Unknown" /\ want = forcedMode
       \/ /\ ~useRawInput /\ forcedMode = "Unknown"
          /\ inputMode = want \/ (change /\ (Rank[want] < Rank[inputMode] \/ ~recent))

\* Mutation: the cursor is left as it is.
SwitchTo_KeepsCursor(want) ==
    IF useRawInput \/ forcedMode # "Unknown" THEN UNCHANGED mode
    ELSE inputMode' = want /\ recent' = TRUE /\ UNCHANGED cursorDisabled

\* ... and what it changes then.
SwitchTo(want) ==
    IF useRawInput \/ forcedMode # "Unknown" THEN UNCHANGED mode
    ELSE /\ inputMode' = want
         /\ recent' = TRUE
         /\ cursorDisabled' = IF inputMode = want THEN cursorDisabled
                              ELSE IF want = "Mouse" THEN cursorLocked ELSE TRUE

\* inputModeSwitchDelay passes.
TimePasses ==
    /\ recent
    /\ recent' = FALSE
    /\ UNCHANGED <<setup, sendEvents, inputMode, cursorDisabled, cursorLocked, pads,
                   needsQueueGamepadInput, touch, queue, inputEntry, polling, game, gone>>

\* showMousePointer, hideMousePointer: setCursorLocked.
SetCursorLocked(locked) ==
    /\ ~polling
    /\ cursorLocked' = locked
    /\ IF Allowed("Mouse", FALSE)
       THEN /\ cursorDisabled' = locked
            /\ recent' = IF useRawInput \/ forcedMode # "Unknown" THEN recent ELSE TRUE
       ELSE UNCHANGED <<cursorDisabled, recent>>
    /\ UNCHANGED <<setup, sendEvents, inputMode, pads, needsQueueGamepadInput, touch, queue,
                   inputEntry, polling, game, gone>>

--------------------------------------------------------------------------------
HasEvents == keyEvents # <<>> \/ motionEvents # <<>>

\* setGameControllerConnected: the game is told of a new controller, which it
\* takes to be at rest, and never of one that is gone.
Report(S) ==
    /\ reported' = reported \cup S
    /\ seenAxis' = [g \in Gamepads |-> IF g \in S THEN "rest" ELSE seenAxis[g]]
    /\ seenButton' = [g \in Gamepads |-> IF g \in S THEN {} ELSE seenButton[g]]

StartSendEvents ==
    /\ sendEvents' = TRUE
    /\ Report(IF sendEvents THEN {} ELSE gamepads)

\* Mutation: the window is polled with events in the queue.
PollsWindow_Always == TRUE

\* The window is asked for new input only when the queue has been read.
PollsWindow == ~(inputEntry /\ HasEvents)

\* pollAll: it returns because a descriptor is ready or because the queue holds
\* events, or it goes on to poll the window.
PollAll ==
    /\ ~polling
    /\ StartSendEvents
    /\ \/ UNCHANGED polling
       \/ PollsWindow /\ polling' = TRUE
    /\ UNCHANGED <<setup, mode, cursorLocked, pads, needsQueueGamepadInput, touch, queue,
                   inputEntry, seenTouch, gone>>

\* Mutation: gamepad motion is queued once.
PollEnds_NoRequeue ==
    /\ polling
    /\ polling' = FALSE
    /\ UNCHANGED <<setup, sendEvents, mode, cursorLocked, pads, needsQueueGamepadInput, touch,
                   queue, inputEntry, game, gone>>

\* pollEvents() returns: markRequeueGamepadInput.
PollEnds ==
    /\ polling
    /\ polling' = FALSE
    /\ needsQueueGamepadInput' = TRUE
    /\ UNCHANGED <<setup, sendEvents, mode, cursorLocked, pads, touch, queue, inputEntry,
                   game, gone>>

\* AInputQueue_attachLooper: attachInputQueue, which throws the second time.
AttachInputQueue ==
    /\ ~polling /\ ~inputEntry
    /\ inputEntry' = TRUE
    /\ UNCHANGED <<setup, sendEvents, mode, cursorLocked, pads, needsQueueGamepadInput, touch,
                   queue, polling, game, gone>>

--------------------------------------------------------------------------------
\* The callbacks of the window, inside pollEvents().
Room == Len(keyEvents) + Len(motionEvents) < MaxEvents

TouchInput(id, phase) == [source |-> "touch", id |-> id, phase |-> phase]

AddMotion(e) == motionEvents' = Append(motionEvents, e) /\ UNCHANGED keyEvents
AddKey(e) == keyEvents' = Append(keyEvents, e) /\ UNCHANGED motionEvents

\* onKeyboard: keys do not ask for the input mode.  Each queues one event unless
\* a mod or the user interface takes it.
OnKeyboard ==
    /\ polling /\ Room
    /\ AddKey([source |-> "keyboard"])
    /\ UNCHANGED <<setup, sendEvents, mode, cursorLocked, pads, needsQueueGamepadInput, touch,
                   inputEntry, polling, game, gone>>

\* The rest of onMouseButton for a button that neither a mod nor ImGui takes.
\* (The buttons beyond the third are passed on as keys.)
PassButton(pressed) ==
    IF emulateTouch
    THEN /\ AddMotion(TouchInput(Pointer0, IF pressed THEN "start" ELSE "end"))
         /\ taken' = IF pressed THEN taken ELSE taken \ {Pointer0}
    ELSE /\ AddMotion([source |-> "mouse"]) \/ AddKey([source |-> "keyboard"])
         /\ UNCHANGED taken

\* The button is not passed on: the mode is another one, or somebody takes it.
MissButton(pressed) ==
    /\ taken' = IF mouseDown /\ ~pressed THEN taken \cup {Pointer0} ELSE taken
    /\ UNCHANGED queue

OnMouseButton(pressed) ==
    /\ polling /\ Room
    /\ mouseDown' = (emulateTouch /\ pressed)
    /\ IF Allowed("Mouse", TRUE)
       THEN SwitchTo("Mouse") /\ (PassButton(pressed) \/ MissButton(pressed))
       ELSE UNCHANGED mode /\ MissButton(pressed)
    /\ UNCHANGED <<setup, sendEvents, cursorLocked, pads, needsQueueGamepadInput, imGuiTouchId,
                   fingers, inputEntry, polling, game, gone>>

\* onMousePosition, onMouseScroll, and onMouseRelativePosition, where a small
\* movement does not change the mode.  Only onMousePosition emulates a touch.
OnMouse(change) ==
    /\ polling /\ Room
    /\ Allowed("Mouse", change)
    /\ SwitchTo("Mouse")
    /\ \/ AddMotion([source |-> "mouse"])
       \/ emulateTouch /\ change /\ AddMotion(TouchInput(Pointer0, "move"))
       \/ UNCHANGED queue
    /\ UNCHANGED <<setup, sendEvents, cursorLocked, pads, needsQueueGamepadInput, touch,
                   inputEntry, polling, game, gone>>

OnTouchStart(id) ==
    /\ polling /\ Room /\ id \notin fingers
    /\ fingers' = fingers \cup {id}
    /\ IF Allowed("Touch", TRUE)
       THEN /\ SwitchTo("Touch")
            /\ IF imGuiTouchId = NoFinger
               THEN /\ imGuiTouchId' = id
                    /\ \/ UNCHANGED <<queue, taken>>
                       \/ /\ AddMotion(TouchInput(id, "start"))
                          /\ taken' = taken \cup {id}
               ELSE AddMotion(TouchInput(id, "start")) /\ UNCHANGED <<imGuiTouchId, taken>>
       ELSE UNCHANGED <<mode, imGuiTouchId, taken, queue>>
    /\ UNCHANGED <<setup, sendEvents, cursorLocked, pads, needsQueueGamepadInput, mouseDown,
                   inputEntry, polling, game, gone>>

OnTouchUpdate(id) ==
    /\ polling /\ Room /\ id \in fingers
    /\ Allowed("Touch", TRUE)
    /\ SwitchTo("Touch")
    /\ IF imGuiTouchId = id THEN UNCHANGED queue ELSE AddMotion(TouchInput(id, "move"))
    /\ UNCHANGED <<setup, sendEvents, cursorLocked, pads, needsQueueGamepadInput, touch,
                   inputEntry, polling, game, gone>>

OnTouchEnd(id) ==
    /\ polling /\ Room /\ id \in fingers
    /\ fingers' = fingers \ {id}
    /\ IF Allowed("Touch", TRUE)
       THEN /\ SwitchTo("Touch")
            /\ IF imGuiTouchId = id
               THEN imGuiTouchId' = NoFinger /\ UNCHANGED <<queue, taken>>
               ELSE /\ AddMotion(TouchInput(id, "end"))
                    /\ taken' = taken \ {id}
                    /\ UNCHANGED imGuiTouchId
       ELSE UNCHANGED <<mode, imGuiTouchId, queue, taken>>
    /\ UNCHANGED <<setup, sendEvents, cursorLocked, pads, needsQueueGamepadInput, mouseDown,
                   inputEntry, polling, game, gone>>

\* onGamepadState; the window also calls it while it is set up.
OnGamepadState(g, connected) ==
    /\ polling \/ ~sendEvents
    /\ connected # (g \in gamepads)
    /\ gamepads' = IF connected THEN gamepads \cup {g} ELSE gamepads \ {g}
    /\ axis' = [axis EXCEPT ![g] = "rest"]
    /\ button' = [button EXCEPT ![g] = {}]
    /\ IF sendEvents /\ connected THEN Report({g})
       ELSE UNCHANGED <<reported, seenAxis, seenButton>>
    /\ gone' = IF connected THEN gone ELSE gone \cup {g}
    /\ UNCHANGED <<setup, sendEvents, mode, cursorLocked, needsQueueGamepadInput, touch, queue,
                   inputEntry, polling, seenTouch>>

\* queueGamepadAxisInputIfNeeded: one event until the window is polled again.
QueueGamepadAxisInputIfNeeded(g) ==
    IF needsQueueGamepadInput
    THEN AddMotion([source |-> "pad", pad |-> g]) /\ needsQueueGamepadInput' = FALSE
    ELSE UNCHANGED <<queue, needsQueueGamepadInput>>

\* onGamepadButton.  (The four buttons of the direction pad are reported as an
\* axis is.)
OnGamepadButton(g, b, pressed) ==
    /\ polling /\ Room
    /\ Allowed("Gamepad", TRUE)
    /\ SwitchTo("Gamepad")
    /\ IF g \in gamepads /\ pressed # (b \in button[g])
       THEN /\ button' = [button EXCEPT ![g] = IF pressed THEN @ \cup {b} ELSE @ \ {b}]
            /\ AddKey([source |-> "pad", pad |-> g, button |-> b, pressed |-> pressed])
       ELSE UNCHANGED <<button, queue>>
    /\ UNCHANGED <<setup, sendEvents, cursorLocked, gamepads, axis, needsQueueGamepadInput,
                   touch, inputEntry, polling, game, gone>>

OnGamepadAxis(g, v) ==
    /\ polling /\ Room
    /\ Allowed("Gamepad", v = "far")
    /\ SwitchTo("Gamepad")
    /\ IF g \in gamepads
       THEN /\ axis' = [axis EXCEPT ![g] = v]
            /\ QueueGamepadAxisInputIfNeeded(g)
       ELSE UNCHANGED <<axis, queue, needsQueueGamepadInput>>
    /\ UNCHANGED <<setup, sendEvents, cursorLocked, gamepads, button, touch, inputEntry,
                   polling, game, gone>>

--------------------------------------------------------------------------------
\* The game reads an event with getEvent and gives it back with finishEvent: all
\* the key events come before the motion events.
ReadKey ==
    /\ ~polling /\ inputEntry
    /\ keyEvents # <<>>
    /\ LET e == Head(keyEvents)
       IN  seenButton' = IF e.source = "keyboard" THEN seenButton
                         ELSE [seenButton EXCEPT ![e.pad] =
                                IF e.pressed THEN @ \cup {e.button} ELSE @ \ {e.button}]
    /\ keyEvents' = Tail(keyEvents)
    /\ UNCHANGED <<setup, sendEvents, mode, cursorLocked, pads, needsQueueGamepadInput, touch,
                   motionEvents, inputEntry, polling, reported, seenAxis, seenTouch, gone>>

\* The axis of a gamepad that is gone reads as 0.
ReadMotion ==
    /\ ~polling /\ inputEntry
    /\ keyEvents = <<>> /\ motionEvents # <<>>
    /\ LET e == Head(motionEvents)
       IN  /\ seenAxis' = IF e.source # "pad" THEN seenAxis
                          ELSE [seenAxis EXCEPT ![e.pad] =
                                IF e.pad \in gamepads THEN axis[e.pad] ELSE "rest"]
           /\ seenTouch' = IF e.source # "touch" \/ e.phase = "move" THEN seenTouch
                           ELSE IF e.phase = "start" THEN seenTouch \cup {e.id}
                           ELSE seenTouch \ {e.id}
    /\ motionEvents' = Tail(motionEvents)
    /\ UNCHANGED <<setup, sendEvents, mode, cursorLocked, pads, needsQueueGamepadInput, touch,
                   keyEvents, inputEntry, polling, reported, seenButton, gone>>

--------------------------------------------------------------------------------
Window ==
    \/ OnKeyboard
    \/ \E pressed \in BOOLEAN : OnMouseButton(pressed)
    \/ \E change \in BOOLEAN : OnMouse(change)
    \/ \E id \in Fingers : OnTouchStart(id) \/ OnTouchUpdate(id) \/ OnTouchEnd(id)
    \/ \E g \in Gamepads :
        \/ \E connected \in BOOLEAN : OnGamepadState(g, connected)
        \/ \E b \in Buttons, pressed \in BOOLEAN : OnGamepadButton(g, b, pressed)
        \/ \E v \in Values : OnGamepadAxis(g, v)

Next ==
    \/ TimePasses \/ Window
    \/ \E locked \in BOOLEAN : SetCursorLocked(locked)
    \/ PollAll \/ PollEnds \/ AttachInputQueue
    \/ ReadKey \/ ReadMotion

Spec == Init /\ [][Next]_vars

\* The window has finitely much input at a time, and a game that is told of
\* events reads them all.
FairSpec == Spec /\ WF_vars(PollEnds) /\ WF_vars(ReadKey) /\ WF_vars(ReadMotion)

--------------------------------------------------------------------------------
TypeOK ==
    /\ setup \in Modes \X BOOLEAN \X BOOLEAN
    /\ sendEvents \in BOOLEAN /\ cursorLocked \in BOOLEAN
    /\ inputMode \in Modes /\ recent \in BOOLEAN /\ cursorDisabled \in BOOLEAN
    /\ gamepads \subseteq Gamepads
    /\ axis \in [Gamepads -> Values] /\ button \in [Gamepads -> SUBSET Buttons]
    /\ needsQueueGamepadInput \in BOOLEAN
    /\ imGuiTouchId \in fingers \cup {NoFinger}
    /\ keyEvents \in Seq(KeyInputs) /\ motionEvents \in Seq(MotionInputs)
    /\ Len(keyEvents) + Len(motionEvents) <= MaxEvents
    /\ inputEntry \in BOOLEAN /\ polling \in BOOLEAN
    /\ fingers \subseteq Fingers /\ taken \subseteq Fingers /\ mouseDown \in BOOLEAN
    /\ reported \subseteq Gamepads
    /\ seenAxis \in [Gamepads -> Values] /\ seenButton \in [Gamepads -> SUBSET Buttons]
    /\ seenTouch \subseteq Fingers
    /\ gone \subseteq Gamepads

\* The cursor is hidden while touch or a gamepad is used; with the mouse it is
\* what the game asked for last, also when it asked during another mode.
CursorFollowsMode ==
    ~useRawInput /\ forcedMode = "Unknown" =>
        /\ inputMode = "Mouse" => cursorDisabled = cursorLocked
        /\ inputMode \in {"Touch", "Gamepad"} => cursorDisabled

\* Once the game polls, it knows every gamepad that is connected: those found
\* before it did included; before that it is told of none.
GamepadsAreReported ==
    /\ sendEvents => gamepads \subseteq reported
    /\ ~sendEvents => reported = {} /\ ~HasEvents

\* The game has read all there is.
Quiet == inputEntry /\ ~polling /\ ~HasEvents

\* One event stands for all movements of a gamepad until the window is polled
\* again; still, when the game has read the queue it has the last position of
\* the axis, as long as there has been one gamepad.  (Two of them share
\* needsQueueGamepadInput, and a movement of the second one is lost.)
AxisIsSeen ==
    Quiet /\ (\A g, h \in gamepads \cup gone : g = h) =>
        \A g \in gamepads : seenAxis[g] = axis[g]

\* ... and the buttons WindowCallbacks has recorded, of any number of gamepads
\* that were not disconnected in between.
ButtonsAreSeen == Quiet => \A g \in gamepads \ gone : seenButton[g] = button[g]

\* A touch the game has seen ends when the finger is lifted or the button that
\* emulates it is released, whatever else is used meanwhile.  (Not when the game
\* is not told: the end of a touch that ImGui watches is not passed on, nor is
\* the release of a button that ImGui or a mod takes or that comes while the
\* input mode is another one.  A later end of the same pointer makes up for it.)
TouchesEnd ==
    Quiet =>
        \A f \in seenTouch : f \in fingers \cup taken \/ (mouseDown /\ f = Pointer0)

\* What the game knows of the devices is what WindowCallbacks knows, in whatever
\* order they were used and in whatever order the game read its two queues.
GameIsUpToDate ==
    /\ TypeOK
    /\ GamepadsAreReported /\ AxisIsSeen /\ ButtonsAreSeen /\ TouchesEnd

\* Key events are read first, and still every motion event is read: no input is
\* taken in until the queue is empty.
QueueIsRead == inputEntry /\ motionEvents # <<>> ~> motionEvents = <<>>
================================================================================

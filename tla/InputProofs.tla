------------------------------ MODULE InputProofs ------------------------------
(***************************************************************************)
(* Proofs about the two components that take the input of the window.      *)
(*                                                                         *)
(* WindowInput: the cursor follows the input mode, and a game that has     *)
(* read its queues knows the devices as WindowCallbacks does: for any      *)
(* number of gamepads, buttons and fingers, queues of any length and any   *)
(* environment.  The two facts about the quiet game say nothing while      *)
(* events are queued.  The invariant says what they then promise: of two   *)
(* opposite events the one that tells the truth is the last one in the     *)
(* queue, and one is queued whenever the game is wrong (Overruled, Queued).*)
(*                                                                         *)
(* TextInputHandler: no character is torn, the two kinds of position       *)
(* agree, and the bytes behave as the characters of a text field, for      *)
(* texts of any length and whatever is typed, pasted or loaded.            *)
(***************************************************************************)
EXTENDS WindowInput, TextInputHandler,
        SequenceTheorems, FiniteSetTheorems, WellFoundedInduction, TLAPS

-------------------------------------------------------------------------------
(*                               WindowInput                               *)

\* What is queued ends in the truth: every lie is followed by it.
Overruled(q, truth, lie) ==
    \A k \in 1..Len(q) : q[k] = lie => \E l \in 1..Len(q) : k < l /\ q[l] = truth

Queued(q, e) == \E l \in 1..Len(q) : q[l] = e

LEMMA AppendTruth ==
    ASSUME NEW S, NEW q \in Seq(S), NEW truth \in S, NEW lie, lie # truth
    PROVE  Overruled(Append(q, truth), truth, lie) /\ Queued(Append(q, truth), truth)
  BY DEF Overruled, Queued

LEMMA AppendOther ==
    ASSUME NEW S, NEW q \in Seq(S), NEW e \in S, NEW truth, NEW lie
    PROVE  /\ Queued(q, truth) => Queued(Append(q, e), truth)
           /\ Overruled(q, truth, lie) /\ e # lie => Overruled(Append(q, e), truth, lie)
  BY DEF Overruled, Queued

LEMMA HeadIsRead ==
    ASSUME NEW S, NEW q \in Seq(S), q # <<>>, NEW truth, NEW lie
    PROVE  /\ Overruled(q, truth, lie) => Overruled(Tail(q), truth, lie)
           /\ Overruled(q, truth, lie) /\ Head(q) = lie => Queued(Tail(q), truth)
           /\ Queued(q, truth) /\ Head(q) # truth => Queued(Tail(q), truth)
<1> USE DEF Overruled, Queued
<1>1. /\ Len(q) \in Nat /\ Len(q) >= 1 /\ Len(Tail(q)) = Len(q) - 1
      /\ Head(q) = q[1] /\ \A k \in 1..Len(q) - 1 : Tail(q)[k] = q[k + 1]
  OBVIOUS
<1>2. ASSUME Overruled(q, truth, lie), NEW k \in 1..Len(q) - 1, q[k + 1] = lie
      PROVE  \E l \in 1..Len(q) - 1 : k < l /\ q[l + 1] = truth
  <2>1. PICK l \in 1..Len(q) : k + 1 < l /\ q[l] = truth
    BY <1>1, <1>2
  <2>2. l - 1 \in 1..Len(q) - 1 /\ k < l - 1 /\ q[(l - 1) + 1] = truth
    BY <1>1, <2>1
  <2> QED BY <2>2
<1>3. ASSUME Overruled(q, truth, lie), q[1] = lie
      PROVE  \E l \in 1..Len(q) - 1 : q[l + 1] = truth
  <2>1. PICK l \in 1..Len(q) : 1 < l /\ q[l] = truth
    BY <1>1, <1>3
  <2>2. l - 1 \in 1..Len(q) - 1 /\ q[(l - 1) + 1] = truth
    BY <1>1, <2>1
  <2> QED BY <2>2
<1>4. ASSUME Queued(q, truth), q[1] # truth
      PROVE  \E l \in 1..Len(q) - 1 : q[l + 1] = truth
  <2>1. PICK l \in 1..Len(q) : q[l] = truth
    BY <1>4
  <2>2. l - 1 \in 1..Len(q) - 1 /\ q[(l - 1) + 1] = truth
    BY <1>1, <1>4, <2>1
  <2> QED BY <2>2
<1> QED BY <1>1, <1>2, <1>3, <1>4

LEMMA IsMember ==
    ASSUME NEW p \in BOOLEAN, NEW x, NEW S, p => x \in S, ~p => x \notin S
    PROVE  p = (x \in S)
<1>1. CASE p = TRUE
  BY <1>1
<1>2. CASE p = FALSE
  BY <1>2
<1> QED BY <1>1, <1>2

LEMMA NothingQueued == \A truth, lie : Overruled(<<>>, truth, lie) /\ ~Queued(<<>>, truth)
  BY DEF Overruled, Queued

--------------------------------------------------------------------------------
PadKey(g, b, pressed) == [source |-> "pad", pad |-> g, button |-> b, pressed |-> pressed]
PadMotion(g) == [source |-> "pad", pad |-> g]

\* Touch is let through in every state or in none.
TouchIsOn == useRawInput \/ forcedMode \in {"Unknown", "Touch"}

\* Before the game polls, no device has been used.
IdleInv ==
    /\ polling => sendEvents
    /\ ~sendEvents =>
        /\ inputMode = "Unknown" /\ keyEvents = <<>> /\ motionEvents = <<>> /\ reported = {}
        /\ \A g \in Gamepads : axis[g] = "rest" /\ button[g] = {}
        /\ \A g \in Gamepads : seenAxis[g] = "rest" /\ seenButton[g] = {}
    /\ sendEvents => gamepads \subseteq reported

\* Events are queued of the gamepads that were connected once.
KnownInv ==
    /\ \A k \in 1..Len(keyEvents) :
        keyEvents[k].source = "pad" => keyEvents[k].pad \in gamepads \cup gone
    /\ \A k \in 1..Len(motionEvents) :
        motionEvents[k].source = "pad" => motionEvents[k].pad \in gamepads \cup gone

\* What the queue holds of a button ends in its state, and holds it when the
\* game is wrong about the button.
ButtonInv ==
    sendEvents =>
        \A g \in gamepads \ gone, b \in Buttons, p \in BOOLEAN : p = (b \in button[g]) =>
            /\ Overruled(keyEvents, PadKey(g, b, p), PadKey(g, b, ~p))
            /\ Queued(keyEvents, PadKey(g, b, p)) \/ p = (b \in seenButton[g])

\* A game that is wrong about the axis of the one gamepad has an event to read,
\* and so it has while needsQueueGamepadInput holds further events back.
AxisInv ==
    /\ ~needsQueueGamepadInput =>
        polling /\ \E h \in gamepads \cup gone : Queued(motionEvents, PadMotion(h))
    /\ sendEvents /\ (\A g, h \in gamepads \cup gone : g = h) =>
        \A g \in gamepads : seenAxis[g] = axis[g] \/ Queued(motionEvents, PadMotion(g))

\* No button emulates the finger, and it is not on the screen or is none the
\* game is told of: ImGui keeps it for itself or touch is off.
Lifted(f) ==
    /\ f \notin taken /\ ~(mouseDown /\ f = Pointer0)
    /\ f \notin fingers \/ imGuiTouchId = f \/ ~TouchIsOn

TouchInv ==
    /\ ~TouchIsOn => imGuiTouchId = NoFinger
    /\ mouseDown => emulateTouch
    /\ \A f \in Fingers : Lifted(f) =>
        /\ Overruled(motionEvents, TouchInput(f, "end"), TouchInput(f, "start"))
        /\ f \in seenTouch => Queued(motionEvents, TouchInput(f, "end"))

InputInv ==
    /\ TypeOK /\ IdleInv /\ CursorFollowsMode
    /\ KnownInv /\ ButtonInv /\ AxisInv /\ TouchInv

--------------------------------------------------------------------------------
LEMMA ModesAre == Modes = {"Touch", "Mouse", "Gamepad", "Unknown"}
  BY DEF Modes, Rank

LEMMA TouchAllowed ==
    ASSUME TypeOK
    PROVE  Allowed("Touch", TRUE) <=> sendEvents /\ TouchIsOn
<1>1. inputMode \in {"Touch", "Mouse", "Gamepad", "Unknown"} /\ useRawInput \in BOOLEAN
  BY ModesAre DEF TypeOK, setup
<1>2. \A m \in {"Mouse", "Gamepad", "Unknown"} : Rank["Touch"] < Rank[m]
  BY DEF Rank
<1> QED BY <1>1, <1>2 DEF Allowed, TouchIsOn

\* What a change of the input mode leaves in place.
LEMMA SwitchKeeps ==
    ASSUME TypeOK, CursorFollowsMode, NEW want \in Modes \ {"Unknown"}, SwitchTo(want),
           UNCHANGED <<setup, cursorLocked>>
    PROVE  /\ inputMode' \in Modes /\ recent' \in BOOLEAN /\ cursorDisabled' \in BOOLEAN
           /\ CursorFollowsMode'
  BY ModesAre DEF TypeOK, CursorFollowsMode, SwitchTo, mode, setup

LEMMA InitInput == Init => InputInv
<1> SUFFICES ASSUME Init PROVE InputInv
  OBVIOUS
<1>1. TypeOK
  <2>1. PICK s \in Setups : forcedMode = s[1] /\ useRawInput = s[2] /\ emulateTouch = s[3]
    BY DEF Init
  <2>2. setup \in Modes \X BOOLEAN \X BOOLEAN
    BY InputAssumption, <2>1 DEF setup
  <2>3. "Unknown" \in Modes /\ "rest" \in Values
    BY ModesAre DEF Values
  <2>4. keyEvents \in Seq(KeyInputs) /\ motionEvents \in Seq(MotionInputs)
        /\ Len(keyEvents) + Len(motionEvents) <= MaxEvents
    BY InputAssumption DEF Init
  <2> QED BY <2>2, <2>3, <2>4 DEF Init, TypeOK
<1>2. IdleInv /\ CursorFollowsMode /\ KnownInv /\ ButtonInv
  BY DEF Init, IdleInv, CursorFollowsMode, KnownInv, ButtonInv
<1>3. AxisInv /\ TouchInv
  BY NothingQueued DEF Init, AxisInv, TouchInv
<1> QED BY <1>1, <1>2, <1>3 DEF InputInv

--------------------------------------------------------------------------------
QueueOK ==
    /\ keyEvents \in Seq(KeyInputs) /\ motionEvents \in Seq(MotionInputs)
    /\ Len(keyEvents) + Len(motionEvents) <= MaxEvents

LEMMA QueueKept ==
    ASSUME QueueOK
    PROVE  /\ UNCHANGED queue => QueueOK'
           /\ \A e \in KeyInputs : Room /\ AddKey(e) => QueueOK'
           /\ \A e \in MotionInputs : Room /\ AddMotion(e) => QueueOK'
           /\ keyEvents # <<>> /\ keyEvents' = Tail(keyEvents) /\ UNCHANGED motionEvents => QueueOK'
           /\ motionEvents # <<>> /\ motionEvents' = Tail(motionEvents) /\ UNCHANGED keyEvents => QueueOK'
<1> USE InputAssumption DEF QueueOK
<1>1. Len(keyEvents) \in Nat /\ Len(motionEvents) \in Nat
  OBVIOUS
<1>2. UNCHANGED queue => QueueOK'
  BY DEF queue
<1>3. ASSUME NEW e \in KeyInputs, Room, AddKey(e) PROVE QueueOK'
  <2>1. keyEvents' \in Seq(KeyInputs) /\ Len(keyEvents') = Len(keyEvents) + 1
    BY <1>3 DEF AddKey
  <2> QED BY <2>1, <1>1, <1>3 DEF AddKey, Room
<1>4. ASSUME NEW e \in MotionInputs, Room, AddMotion(e) PROVE QueueOK'
  <2>1. motionEvents' \in Seq(MotionInputs) /\ Len(motionEvents') = Len(motionEvents) + 1
    BY <1>4 DEF AddMotion
  <2> QED BY <2>1, <1>1, <1>4 DEF AddMotion, Room
<1>5. ASSUME keyEvents # <<>>, keyEvents' = Tail(keyEvents), UNCHANGED motionEvents PROVE QueueOK'
  <2>1. keyEvents' \in Seq(KeyInputs) /\ Len(keyEvents') = Len(keyEvents) - 1
    BY <1>5
  <2> QED BY <2>1, <1>1, <1>5
<1>6. ASSUME motionEvents # <<>>, motionEvents' = Tail(motionEvents), UNCHANGED keyEvents PROVE QueueOK'
  <2>1. motionEvents' \in Seq(MotionInputs) /\ Len(motionEvents') = Len(motionEvents) - 1
    BY <1>6
  <2> QED BY <2>1, <1>1, <1>6
<1> QED BY <1>2, <1>3, <1>4, <1>5, <1>6

LEMMA InputsAre ==
    /\ [source |-> "keyboard"] \in KeyInputs /\ [source |-> "mouse"] \in MotionInputs
    /\ \A g \in Gamepads, b \in Buttons, p \in BOOLEAN : PadKey(g, b, p) \in KeyInputs
    /\ \A g \in Gamepads : PadMotion(g) \in MotionInputs
    /\ \A f \in Fingers, phase \in {"start", "move", "end"} : TouchInput(f, phase) \in MotionInputs
  BY DEF KeyInputs, MotionInputs, PadKey, PadMotion, TouchInput

LEMMA Opposites ==
    /\ \A g, h, b, c, p, q :
        PadKey(g, b, p) = PadKey(h, c, q) <=> g = h /\ b = c /\ p = q
    /\ \A g, h : PadMotion(g) = PadMotion(h) <=> g = h
    /\ \A f, g, p, q : TouchInput(f, p) = TouchInput(g, q) <=> f = g /\ p = q
    /\ \A g, f, p : PadMotion(g) # TouchInput(f, p)
    /\ \A g, b, p : PadKey(g, b, p) # [source |-> "keyboard"]
    /\ \A g : PadMotion(g) # [source |-> "mouse"]
    /\ \A f, p : TouchInput(f, p) # [source |-> "mouse"]
<1>1. \A g, b, p : /\ PadKey(g, b, p).source = "pad" /\ PadKey(g, b, p).pad = g
                   /\ PadKey(g, b, p).button = b /\ PadKey(g, b, p).pressed = p
  BY DEF PadKey
<1>2. \A g : PadMotion(g).source = "pad" /\ PadMotion(g).pad = g
  BY DEF PadMotion
<1>3. \A f, p : TouchInput(f, p).source = "touch" /\ TouchInput(f, p).id = f /\ TouchInput(f, p).phase = p
  BY DEF TouchInput
<1>4. [source |-> "keyboard"].source = "keyboard" /\ [source |-> "mouse"].source = "mouse"
  OBVIOUS
<1> QED BY <1>1, <1>2, <1>3, <1>4

LEMMA KeyCases ==
    \A e \in KeyInputs :
        \/ e = [source |-> "keyboard"]
        \/ \E g \in Gamepads, b \in Buttons, p \in BOOLEAN : e = PadKey(g, b, p)
  BY DEF KeyInputs, PadKey

LEMMA MotionCases ==
    \A e \in MotionInputs :
        \/ e = [source |-> "mouse"]
        \/ \E g \in Gamepads : e = PadMotion(g)
        \/ \E f \in Fingers, phase \in {"start", "move", "end"} : e = TouchInput(f, phase)
  BY DEF MotionInputs, PadMotion, TouchInput

--------------------------------------------------------------------------------
\* What each part of the invariant depends on, and a new event in the queue.
ButtonState == <<sendEvents, gamepads, gone, button, seenButton>>
AxisState == <<sendEvents, needsQueueGamepadInput, polling, gamepads, gone, axis, seenAxis>>
TouchState == <<setup, seenTouch, taken, fingers, mouseDown, imGuiTouchId>>

LEMMA IdleFrame ==
    ASSUME IdleInv, UNCHANGED <<sendEvents, gamepads, reported>>, polling' => sendEvents,
           UNCHANGED <<inputMode, queue, pads, seenAxis, seenButton>> \/ sendEvents
    PROVE  IdleInv'
  BY DEF IdleInv, queue, pads

LEMMA CursorFrame ==
    ASSUME CursorFollowsMode, UNCHANGED <<setup, inputMode, cursorDisabled, cursorLocked>>
    PROVE  CursorFollowsMode'
  BY DEF CursorFollowsMode, setup

LEMMA KnownFrame ==
    ASSUME KnownInv, UNCHANGED <<gamepads, gone, queue>> PROVE KnownInv'
  BY DEF KnownInv, queue

LEMMA ButtonFrame ==
    ASSUME ButtonInv, UNCHANGED <<ButtonState, keyEvents>> PROVE ButtonInv'
  BY Zenon DEF ButtonInv, ButtonState

LEMMA ButtonAppend ==
    ASSUME ButtonInv, UNCHANGED ButtonState,
           \A g, b, p, l : /\ Queued(keyEvents, PadKey(g, b, p)) => Queued(keyEvents', PadKey(g, b, p))
                           /\ Overruled(keyEvents, PadKey(g, b, p), PadKey(g, b, l))
                                  => Overruled(keyEvents', PadKey(g, b, p), PadKey(g, b, l))
    PROVE  ButtonInv'
<1>1. /\ sendEvents' = sendEvents /\ gamepads' = gamepads /\ gone' = gone
      /\ button' = button /\ seenButton' = seenButton
  BY DEF ButtonState
<1>2. ASSUME sendEvents', NEW g \in gamepads' \ gone', NEW b \in Buttons, NEW p \in BOOLEAN,
             p = (b \in button'[g])
      PROVE  /\ Overruled(keyEvents', PadKey(g, b, p), PadKey(g, b, ~p))
             /\ Queued(keyEvents', PadKey(g, b, p)) \/ p = (b \in seenButton'[g])
  <2>1. sendEvents /\ g \in gamepads \ gone /\ p = (b \in button[g])
    BY <1>1, <1>2, Zenon
  <2>2. /\ Overruled(keyEvents, PadKey(g, b, p), PadKey(g, b, ~p))
        /\ Queued(keyEvents, PadKey(g, b, p)) \/ p = (b \in seenButton[g])
    BY <2>1, Zenon DEF ButtonInv
  <2>3. /\ Overruled(keyEvents', PadKey(g, b, p), PadKey(g, b, ~p))
        /\ Queued(keyEvents', PadKey(g, b, p)) \/ p = (b \in seenButton[g])
    BY <2>2, Zenon
  <2> QED BY <1>1, <2>3, Zenon
<1> QED BY <1>2, Zenon DEF ButtonInv

LEMMA AxisFrame ==
    ASSUME AxisInv, UNCHANGED <<AxisState, motionEvents>> PROVE AxisInv'
  BY DEF AxisInv, AxisState

LEMMA TouchFrame ==
    ASSUME TouchInv, UNCHANGED <<TouchState, motionEvents>> PROVE TouchInv'
  BY DEF TouchInv, TouchState, setup, TouchIsOn, Lifted

LEMMA KnownAppend ==
    ASSUME KnownInv, QueueOK, UNCHANGED <<gamepads, gone>>
    PROVE  /\ \A e \in KeyInputs : (e.source = "pad" => e.pad \in gamepads) /\ AddKey(e) => KnownInv'
           /\ \A e \in MotionInputs : (e.source = "pad" => e.pad \in gamepads) /\ AddMotion(e) => KnownInv'
<1> USE DEF KnownInv, QueueOK
<1>1. ASSUME NEW e \in KeyInputs, e.source = "pad" => e.pad \in gamepads, AddKey(e) PROVE KnownInv'
  <2>1. \A k \in 1..Len(keyEvents') : \/ k \in 1..Len(keyEvents) /\ keyEvents'[k] = keyEvents[k]
                                      \/ keyEvents'[k] = e
    BY <1>1 DEF AddKey
  <2> QED BY <2>1, <1>1 DEF AddKey
<1>2. ASSUME NEW e \in MotionInputs, e.source = "pad" => e.pad \in gamepads, AddMotion(e) PROVE KnownInv'
  <2>1. \A k \in 1..Len(motionEvents') :
            \/ k \in 1..Len(motionEvents) /\ motionEvents'[k] = motionEvents[k]
            \/ motionEvents'[k] = e
    BY <1>2 DEF AddMotion
  <2> QED BY <2>1, <1>2 DEF AddMotion
<1> QED BY <1>1, <1>2

LEMMA AxisAppend ==
    ASSUME AxisInv, QueueOK, NEW e \in MotionInputs, motionEvents' = Append(motionEvents, e),
           UNCHANGED AxisState
    PROVE  AxisInv'
<1>1. \A h : Queued(motionEvents, PadMotion(h)) => Queued(motionEvents', PadMotion(h))
  BY AppendOther, Zenon DEF QueueOK
<1> QED BY <1>1 DEF AxisInv, AxisState

LEMMA TouchAppend ==
    ASSUME TouchInv, QueueOK, NEW e \in MotionInputs, \A f : e # TouchInput(f, "start"),
           motionEvents' = Append(motionEvents, e), UNCHANGED TouchState
    PROVE  TouchInv'
<1> DEFINE end(f) == TouchInput(f, "end")
           start(f) == TouchInput(f, "start")
<1>1. \A f : /\ Overruled(motionEvents, end(f), start(f)) => Overruled(motionEvents', end(f), start(f))
             /\ Queued(motionEvents, end(f)) => Queued(motionEvents', end(f))
  BY AppendOther, Zenon DEF QueueOK
<1> QED BY <1>1 DEF TouchInv, TouchState, setup, TouchIsOn, Lifted

--------------------------------------------------------------------------------
LEMMA Parts == InputInv => QueueOK
  BY DEF InputInv, TypeOK, QueueOK

LEMMA TimeStep ==
    ASSUME InputInv, TimePasses PROVE InputInv'
<1> USE DEF TimePasses, InputInv
<1>1. TypeOK'
  BY DEF TypeOK, setup, pads, touch, queue, game
<1>2. IdleInv' /\ CursorFollowsMode' /\ KnownInv'
  BY IdleFrame, CursorFrame, KnownFrame DEF pads, IdleInv, game
<1>3. ButtonInv' /\ AxisInv' /\ TouchInv'
  BY ButtonFrame, AxisFrame, TouchFrame
     DEF ButtonState, AxisState, TouchState, pads, touch, queue, game
<1> QED BY <1>1, <1>2, <1>3

LEMMA CursorStep ==
    ASSUME InputInv, NEW locked \in BOOLEAN, SetCursorLocked(locked) PROVE InputInv'
<1> USE DEF SetCursorLocked, InputInv
<1>1. TypeOK'
  BY DEF TypeOK, setup, pads, touch, queue, game
<1>2. IdleInv' /\ KnownInv'
  BY IdleFrame, KnownFrame DEF pads, IdleInv, game
<1>3. CursorFollowsMode'
  BY DEF CursorFollowsMode, IdleInv, Allowed, setup
<1>4. ButtonInv' /\ AxisInv' /\ TouchInv'
  BY ButtonFrame, AxisFrame, TouchFrame
     DEF ButtonState, AxisState, TouchState, pads, touch, queue, game
<1> QED BY <1>1, <1>2, <1>3, <1>4

LEMMA EndStep ==
    ASSUME InputInv, PollEnds PROVE InputInv'
<1> USE DEF PollEnds, InputInv
<1>1. TypeOK'
  BY DEF TypeOK, setup, mode, pads, touch, queue, game
<1>2. IdleInv' /\ CursorFollowsMode' /\ KnownInv'
  BY IdleFrame, CursorFrame, KnownFrame DEF pads, mode, game
<1>3. ButtonInv' /\ TouchInv'
  BY ButtonFrame, TouchFrame DEF ButtonState, TouchState, pads, touch, queue, game
<1>4. AxisInv'
  BY DEF AxisInv, pads, queue, game
<1> QED BY <1>1, <1>2, <1>3, <1>4

LEMMA AttachStep ==
    ASSUME InputInv, AttachInputQueue PROVE InputInv'
<1> USE DEF AttachInputQueue, InputInv
<1>1. TypeOK'
  BY DEF TypeOK, setup, mode, pads, touch, queue, game
<1>2. IdleInv' /\ CursorFollowsMode' /\ KnownInv'
  BY IdleFrame, CursorFrame, KnownFrame DEF pads, mode, game
<1>3. ButtonInv' /\ AxisInv' /\ TouchInv'
  BY ButtonFrame, AxisFrame, TouchFrame
     DEF ButtonState, AxisState, TouchState, pads, touch, queue, game
<1> QED BY <1>1, <1>2, <1>3

\* The game's first poll: it is told of all gamepads, which are at rest, and so
\* its picture of them is right.
LEMMA PollStep ==
    ASSUME InputInv, PollAll PROVE InputInv'
<1> USE DEF PollAll, StartSendEvents, Report, InputInv
<1>1. TypeOK'
  <2>1. reported' \subseteq Gamepads /\ seenAxis' \in [Gamepads -> Values]
        /\ seenButton' \in [Gamepads -> SUBSET Buttons]
    BY DEF TypeOK, Values
  <2> QED BY <2>1 DEF TypeOK, setup, mode, pads, touch, queue
<1>2. CursorFollowsMode' /\ KnownInv'
  BY CursorFrame, KnownFrame DEF mode, pads
<1>3. IdleInv'
  BY DEF IdleInv, pads
<1>4. TouchInv'
  BY TouchFrame DEF TouchState, touch, queue
<1>5. CASE sendEvents
  <2>1. sendEvents' = sendEvents /\ seenAxis' = seenAxis /\ seenButton' = seenButton
    BY <1>5 DEF TypeOK
  <2>2. ButtonInv'
    BY <2>1, ButtonFrame DEF ButtonState, pads, queue
  <2>3. AxisInv'
    BY <2>1 DEF AxisInv, pads, queue
  <2> QED BY <1>1, <1>2, <1>3, <1>4, <2>2, <2>3
<1>6. CASE ~sendEvents
  <2>1. /\ \A g \in gamepads : seenAxis'[g] = axis[g] /\ seenButton'[g] = button[g]
        /\ keyEvents' = <<>> /\ UNCHANGED <<gamepads, axis, button, needsQueueGamepadInput>>
    BY <1>6 DEF IdleInv, TypeOK, pads, queue
  <2>2. ButtonInv'
    BY <2>1, NothingQueued, Zenon DEF ButtonInv
  <2>3. AxisInv'
    BY <2>1 DEF AxisInv
  <2> QED BY <1>1, <1>2, <1>3, <1>4, <2>2, <2>3
<1> QED BY <1>5, <1>6

\* A key of the keyboard tells nothing of the buttons of the gamepads.
LEMMA KeyQueued ==
    ASSUME InputInv, AddKey([source |-> "keyboard"]), UNCHANGED ButtonState
    PROVE  ButtonInv'
<1> DEFINE e == [source |-> "keyboard"]
<1>1. e \in KeyInputs /\ \A g, b, p : e # PadKey(g, b, p)
  BY InputsAre, Opposites
<1>2. keyEvents \in Seq(KeyInputs) /\ keyEvents' = Append(keyEvents, e)
  BY Parts DEF QueueOK, AddKey
<1> HIDE DEF e
<1>3. \A truth, lie : /\ Queued(keyEvents, truth) => Queued(keyEvents', truth)
                      /\ Overruled(keyEvents, truth, lie) /\ e # lie
                             => Overruled(keyEvents', truth, lie)
  BY <1>1, <1>2, AppendOther
<1>4. \A g, b, p, l : /\ Queued(keyEvents, PadKey(g, b, p)) => Queued(keyEvents', PadKey(g, b, p))
                      /\ Overruled(keyEvents, PadKey(g, b, p), PadKey(g, b, l))
                             => Overruled(keyEvents', PadKey(g, b, p), PadKey(g, b, l))
  BY <1>1, <1>3, Zenon
<1> QED BY <1>4, ButtonAppend DEF InputInv

LEMMA KeyboardStep ==
    ASSUME InputInv, OnKeyboard PROVE InputInv'
<1> USE DEF OnKeyboard, InputInv
<1> DEFINE e == [source |-> "keyboard"]
<1>1. e \in KeyInputs /\ e.source # "pad" /\ AddKey(e) /\ UNCHANGED motionEvents
  BY InputsAre DEF AddKey
<1>2. TypeOK'
  <2>1. QueueOK'
    BY <1>1, QueueKept, Parts
  <2> QED BY <2>1 DEF QueueOK, TypeOK, setup, mode, pads, touch, game
<1>3. IdleInv' /\ CursorFollowsMode' /\ KnownInv'
  BY <1>1, Parts, IdleFrame, CursorFrame, KnownAppend DEF pads, mode, game, IdleInv
<1>4. AxisInv' /\ TouchInv'
  BY <1>1, AxisFrame, TouchFrame DEF AxisState, TouchState, pads, touch, game
<1>5. ButtonInv'
  BY KeyQueued DEF ButtonState, pads, game
<1> QED BY <1>2, <1>3, <1>4, <1>5

--------------------------------------------------------------------------------
\* The steps of the mouse and of a finger: what they queue, and the parts of the
\* invariant that are not about touches.
LEMMA PointerStep ==
    ASSUME InputInv, polling, Room, NEW e \in MotionInputs, e.source # "pad",
           AddMotion(e) \/ UNCHANGED queue,
           NEW want \in {"Touch", "Mouse"}, SwitchTo(want) \/ UNCHANGED mode,
           fingers' \subseteq Fingers, taken' \subseteq Fingers, mouseDown' \in BOOLEAN,
           imGuiTouchId' \in fingers' \cup {NoFinger},
           UNCHANGED <<setup, sendEvents, cursorLocked, pads, needsQueueGamepadInput,
                       inputEntry, polling, game, gone>>
    PROVE  TypeOK' /\ IdleInv' /\ CursorFollowsMode' /\ KnownInv' /\ ButtonInv' /\ AxisInv'
<1> USE DEF InputInv
<1>1. /\ sendEvents /\ UNCHANGED keyEvents
      /\ \/ motionEvents' = Append(motionEvents, e) /\ AddMotion(e)
         \/ UNCHANGED motionEvents /\ UNCHANGED queue
  BY DEF AddMotion, queue, IdleInv
<1>3. /\ inputMode' \in Modes /\ recent' \in BOOLEAN /\ cursorDisabled' \in BOOLEAN
      /\ CursorFollowsMode'
  <2>1. CASE SwitchTo(want)
    BY <2>1, SwitchKeeps, ModesAre
  <2>2. CASE UNCHANGED mode
    BY <2>2, CursorFrame DEF mode, TypeOK
  <2> QED BY <2>1, <2>2
<1>4. TypeOK'
  <2>1. QueueOK'
    BY <1>1, QueueKept, Parts
  <2> QED BY <1>3, <2>1 DEF QueueOK, TypeOK, setup, pads, game
<1>5. IdleInv' /\ KnownInv'
  BY <1>1, Parts, IdleFrame, KnownAppend, KnownFrame DEF pads, game
<1>6. ButtonInv'
  BY <1>1, ButtonFrame DEF ButtonState, pads, game
<1>7. AxisInv'
  BY <1>1, Parts, AxisFrame, AxisAppend DEF AxisState, pads, game
<1> QED BY <1>3, <1>4, <1>5, <1>6, <1>7

\* A touch that starts is not lifted; one that ends is queued behind its start.
LEMMA StartQueued ==
    ASSUME InputInv, UNCHANGED seenTouch, NEW id \in Fingers,
           motionEvents' = Append(motionEvents, TouchInput(id, "start")),
           \A f \in Fingers : Lifted(f)' => f # id /\ Lifted(f),
           ~TouchIsOn' => imGuiTouchId' = NoFinger, mouseDown' => emulateTouch'
    PROVE  TouchInv'
<1>1. ASSUME NEW f \in Fingers, Lifted(f)'
      PROVE  /\ Overruled(motionEvents', TouchInput(f, "end"), TouchInput(f, "start"))
             /\ f \in seenTouch' => Queued(motionEvents', TouchInput(f, "end"))
  <2>1. TouchInput(id, "start") # TouchInput(f, "start") /\ TouchInput(id, "start") \in MotionInputs
    BY <1>1, Opposites, InputsAre
  <2>2. /\ Overruled(motionEvents, TouchInput(f, "end"), TouchInput(f, "start"))
        /\ f \in seenTouch => Queued(motionEvents, TouchInput(f, "end"))
    BY <1>1 DEF InputInv, TouchInv
  <2> QED BY <2>1, <2>2, AppendOther, Parts, Zenon DEF QueueOK
<1> QED BY <1>1 DEF TouchInv

LEMMA EndQueued ==
    ASSUME InputInv, UNCHANGED seenTouch, NEW id \in Fingers,
           motionEvents' = Append(motionEvents, TouchInput(id, "end")),
           \A f \in Fingers : Lifted(f)' => f = id \/ Lifted(f),
           ~TouchIsOn' => imGuiTouchId' = NoFinger, mouseDown' => emulateTouch'
    PROVE  TouchInv'
<1> DEFINE end(f) == TouchInput(f, "end")
           start(f) == TouchInput(f, "start")
<1>1. motionEvents \in Seq(MotionInputs)
  BY Parts DEF QueueOK
<1>2. end(id) \in MotionInputs /\ start(id) # end(id) /\ \A f : end(id) # start(f)
  BY InputsAre, Opposites
<1>3. Overruled(motionEvents', end(id), start(id)) /\ Queued(motionEvents', end(id))
  BY <1>1, <1>2, AppendTruth, Zenon
<1>4. \A f : /\ Overruled(motionEvents, end(f), start(f)) => Overruled(motionEvents', end(f), start(f))
             /\ Queued(motionEvents, end(f)) => Queued(motionEvents', end(f))
  BY <1>1, <1>2, AppendOther, Zenon
<1> QED BY <1>3, <1>4 DEF InputInv, TouchInv

LEMMA NothingMoves ==
    ASSUME TouchInv, UNCHANGED <<seenTouch, motionEvents>>,
           \A f \in Fingers : Lifted(f)' => Lifted(f),
           ~TouchIsOn' => imGuiTouchId' = NoFinger, mouseDown' => emulateTouch'
    PROVE  TouchInv'
  BY DEF TouchInv

\* A press and a release of a mouse button, passed on as a touch of pointer 0 or
\* as an event of its own, or missed.
LEMMA MouseButtonStep ==
    ASSUME InputInv, NEW pressed \in BOOLEAN, OnMouseButton(pressed) PROVE InputInv'
<1> USE DEF InputInv
<1>1. /\ polling /\ Room /\ mouseDown' = (emulateTouch /\ pressed)
      /\ SwitchTo("Mouse") \/ UNCHANGED mode
      /\ UNCHANGED <<setup, sendEvents, cursorLocked, pads, needsQueueGamepadInput, imGuiTouchId,
                     fingers, inputEntry, polling, game, gone>>
      /\ \/ emulateTouch /\ pressed /\ AddMotion(TouchInput(Pointer0, "start")) /\ taken' = taken
         \/ /\ emulateTouch /\ ~pressed /\ AddMotion(TouchInput(Pointer0, "end"))
            /\ taken' = taken \ {Pointer0}
         \/ ~emulateTouch /\ AddMotion([source |-> "mouse"]) /\ taken' = taken
         \/ ~emulateTouch /\ AddKey([source |-> "keyboard"]) /\ taken' = taken
         \/ MissButton(pressed)
  BY DEF OnMouseButton, PassButton
<1>2. /\ Pointer0 \in Fingers /\ fingers \subseteq Fingers /\ taken \subseteq Fingers
      /\ imGuiTouchId \in fingers \cup {NoFinger} /\ emulateTouch \in BOOLEAN
      /\ mouseDown \in BOOLEAN
  BY InputAssumption DEF TypeOK, setup
<1>3. /\ taken' \subseteq Fingers /\ fingers' \subseteq Fingers /\ mouseDown' \in BOOLEAN
      /\ imGuiTouchId' \in fingers' \cup {NoFinger}
  BY <1>1, <1>2 DEF MissButton
<1>4. /\ UNCHANGED <<seenTouch, TouchIsOn>> /\ emulateTouch' = emulateTouch
      /\ ~TouchIsOn' => imGuiTouchId' = NoFinger
      /\ mouseDown' => emulateTouch'
  BY <1>1 DEF game, setup, TouchIsOn, TouchInv
<1>5. /\ TouchInput(Pointer0, "start") \in MotionInputs /\ TouchInput(Pointer0, "start").source # "pad"
      /\ TouchInput(Pointer0, "end") \in MotionInputs /\ TouchInput(Pointer0, "end").source # "pad"
      /\ [source |-> "mouse"] \in MotionInputs /\ [source |-> "mouse"].source # "pad"
      /\ \A f : [source |-> "mouse"] # TouchInput(f, "start")
  BY <1>2, InputsAre, Opposites DEF TouchInput
<1>6. CASE emulateTouch /\ pressed /\ AddMotion(TouchInput(Pointer0, "start")) /\ taken' = taken
  <2>1. TypeOK' /\ IdleInv' /\ CursorFollowsMode' /\ KnownInv' /\ ButtonInv' /\ AxisInv'
    BY <1>1, <1>3, <1>5, <1>6, PointerStep
  <2>2. \A f \in Fingers : Lifted(f)' => f # Pointer0 /\ Lifted(f)
    BY <1>1, <1>4, <1>6 DEF Lifted
  <2>3. TouchInv'
    BY <1>2, <1>4, <1>6, <2>2, StartQueued DEF AddMotion
  <2> QED BY <2>1, <2>3
<1>7. CASE /\ emulateTouch /\ ~pressed /\ AddMotion(TouchInput(Pointer0, "end"))
           /\ taken' = taken \ {Pointer0}
  <2>1. TypeOK' /\ IdleInv' /\ CursorFollowsMode' /\ KnownInv' /\ ButtonInv' /\ AxisInv'
    BY <1>1, <1>3, <1>5, <1>7, PointerStep
  <2>2. \A f \in Fingers : Lifted(f)' => f = Pointer0 \/ Lifted(f)
    BY <1>1, <1>4, <1>7 DEF Lifted
  <2>3. TouchInv'
    BY <1>2, <1>4, <1>7, <2>2, EndQueued DEF AddMotion
  <2> QED BY <2>1, <2>3
<1>8. CASE ~emulateTouch /\ AddMotion([source |-> "mouse"]) /\ taken' = taken
  <2>1. TypeOK' /\ IdleInv' /\ CursorFollowsMode' /\ KnownInv' /\ ButtonInv' /\ AxisInv'
    BY <1>1, <1>3, <1>5, <1>8, PointerStep
  <2>2. mouseDown' = mouseDown
    BY <1>1, <1>2, <1>8 DEF TouchInv
  <2>3. UNCHANGED TouchState
    BY <1>1, <1>4, <1>8, <2>2 DEF TouchState
  <2>4. TouchInv'
    BY <1>5, <1>8, <2>3, TouchAppend, Parts DEF AddMotion
  <2> QED BY <2>1, <2>4
<1>9. CASE ~emulateTouch /\ AddKey([source |-> "keyboard"]) /\ taken' = taken
  <2> DEFINE e == [source |-> "keyboard"]
  <2>1. e \in KeyInputs /\ e.source # "pad" /\ AddKey(e) /\ UNCHANGED motionEvents /\ sendEvents
    BY <1>1, <1>9, InputsAre DEF AddKey, IdleInv
  <2> HIDE DEF e
  <2>2. /\ inputMode' \in Modes /\ recent' \in BOOLEAN /\ cursorDisabled' \in BOOLEAN
        /\ CursorFollowsMode'
    BY <1>1, SwitchKeeps, ModesAre, CursorFrame DEF mode, TypeOK
  <2>3. TypeOK'
    <3>1. QueueOK'
      BY <1>1, <2>1, QueueKept, Parts
    <3> QED BY <1>1, <1>3, <2>2, <3>1 DEF QueueOK, TypeOK, setup, pads, game
  <2>4. IdleInv' /\ KnownInv'
    BY <1>1, <2>1, Parts, IdleFrame, KnownAppend DEF pads, game
  <2>5. AxisInv'
    BY <1>1, <2>1, AxisFrame DEF AxisState, pads, game
  <2>6. ButtonInv'
    BY <1>1, <1>9, KeyQueued DEF ButtonState, pads, game
  <2>7. mouseDown' = mouseDown
    BY <1>1, <1>2, <1>9 DEF TouchInv
  <2>8. TouchInv'
    BY <1>1, <1>4, <1>9, <2>1, <2>7, TouchFrame DEF TouchState
  <2> QED BY <2>2, <2>3, <2>4, <2>5, <2>6, <2>8
<1>10. CASE MissButton(pressed)
  <2>1. TypeOK' /\ IdleInv' /\ CursorFollowsMode' /\ KnownInv' /\ ButtonInv' /\ AxisInv'
    BY <1>1, <1>3, <1>5, <1>10, PointerStep DEF MissButton
  <2>2. \A f \in Fingers : Lifted(f)' => Lifted(f)
    BY <1>1, <1>4, <1>10 DEF Lifted, MissButton, TouchInv
  <2>3. TouchInv'
    BY <1>4, <1>10, <2>2, NothingMoves DEF MissButton, queue
  <2> QED BY <2>1, <2>3
<1> QED BY <1>1, <1>6, <1>7, <1>8, <1>9, <1>10

LEMMA MouseStep ==
    ASSUME InputInv, NEW change \in BOOLEAN, OnMouse(change) PROVE InputInv'
<1> USE DEF OnMouse, InputInv
<1>1. Pointer0 \in Fingers
  BY InputAssumption
<1>2. PICK e \in MotionInputs : /\ e.source # "pad" /\ \A f : e # TouchInput(f, "start")
                                /\ AddMotion(e) \/ UNCHANGED queue
  <2>1. /\ [source |-> "mouse"] \in MotionInputs /\ [source |-> "mouse"].source # "pad"
        /\ \A f : [source |-> "mouse"] # TouchInput(f, "start")
        /\ TouchInput(Pointer0, "move") \in MotionInputs /\ TouchInput(Pointer0, "move").source # "pad"
        /\ \A f : TouchInput(Pointer0, "move") # TouchInput(f, "start")
    BY <1>1, InputsAre, Opposites DEF TouchInput
  <2> QED BY <2>1, Zenon
<1>3. TypeOK' /\ IdleInv' /\ CursorFollowsMode' /\ KnownInv' /\ ButtonInv' /\ AxisInv'
  <2>1. /\ fingers' \subseteq Fingers /\ taken' \subseteq Fingers /\ mouseDown' \in BOOLEAN
        /\ imGuiTouchId' \in fingers' \cup {NoFinger}
    BY DEF TypeOK, touch
  <2> QED BY <1>2, <2>1, PointerStep
<1>4. /\ UNCHANGED TouchState
      /\ UNCHANGED motionEvents \/ motionEvents' = Append(motionEvents, e)
  BY <1>2 DEF TouchState, touch, game, AddMotion, queue
<1>5. TouchInv'
  BY <1>2, <1>4, TouchFrame, TouchAppend, Parts
<1> QED BY <1>3, <1>5

\* A finger that is put down is no longer lifted, or ImGui keeps it and nothing
\* of it is queued.
LEMMA TouchStartStep ==
    ASSUME InputInv, NEW id \in Fingers, OnTouchStart(id) PROVE InputInv'
<1> USE DEF InputInv
<1>1. /\ polling /\ Room /\ id \notin fingers /\ fingers' = fingers \cup {id}
      /\ UNCHANGED <<setup, sendEvents, cursorLocked, pads, needsQueueGamepadInput, mouseDown,
                     inputEntry, polling, game, gone>>
      /\ SwitchTo("Touch") \/ UNCHANGED mode
      /\ \/ /\ TouchIsOn /\ imGuiTouchId = NoFinger /\ imGuiTouchId' = id
            /\ UNCHANGED <<queue, taken>>
         \/ /\ TouchIsOn /\ imGuiTouchId = NoFinger /\ imGuiTouchId' = id
            /\ AddMotion(TouchInput(id, "start")) /\ taken' = taken \cup {id}
         \/ /\ TouchIsOn
            /\ AddMotion(TouchInput(id, "start")) /\ UNCHANGED <<imGuiTouchId, taken>>
         \/ UNCHANGED <<imGuiTouchId, taken, queue>>
  BY TouchAllowed DEF OnTouchStart
<1>2. imGuiTouchId \in fingers \cup {NoFinger} /\ id # NoFinger /\ fingers \subseteq Fingers
      /\ taken \subseteq Fingers /\ mouseDown \in BOOLEAN
  BY InputAssumption DEF TypeOK
<1>3. TypeOK' /\ IdleInv' /\ CursorFollowsMode' /\ KnownInv' /\ ButtonInv' /\ AxisInv'
  <2>1. /\ AddMotion(TouchInput(id, "start")) \/ UNCHANGED queue
        /\ fingers' \subseteq Fingers /\ taken' \subseteq Fingers /\ mouseDown' \in BOOLEAN
        /\ imGuiTouchId' \in fingers' \cup {NoFinger}
    BY <1>1, <1>2
  <2>2. TouchInput(id, "start") \in MotionInputs /\ TouchInput(id, "start").source # "pad"
    BY InputsAre DEF TouchInput
  <2> QED BY <1>1, <2>1, <2>2, PointerStep
<1>4. /\ UNCHANGED <<seenTouch, TouchIsOn>> /\ emulateTouch' = emulateTouch
      /\ ~TouchIsOn' => imGuiTouchId' = NoFinger
      /\ mouseDown' => emulateTouch'
  BY <1>1 DEF game, setup, TouchIsOn, TouchInv
<1>5. \A f \in Fingers : Lifted(f)' => Lifted(f)
  BY <1>1, <1>2, <1>4, InputAssumption DEF Lifted
<1>6. TouchInv'
  <2>1. CASE UNCHANGED queue
    BY <1>4, <1>5, <2>1, NothingMoves DEF queue
  <2>2. CASE TouchIsOn /\ AddMotion(TouchInput(id, "start"))
    <3>1. ~Lifted(id)' \/ UNCHANGED motionEvents
      BY <1>1, <1>2, <1>4, <2>2, InputAssumption DEF Lifted, queue
    <3>2. CASE ~Lifted(id)'
      <4>1. \A f \in Fingers : Lifted(f)' => f # id /\ Lifted(f)
        BY <1>5, <3>2
      <4> QED BY <1>4, <2>2, <4>1, StartQueued DEF AddMotion
    <3>3. CASE UNCHANGED motionEvents
      BY <1>4, <1>5, <3>3, NothingMoves
    <3> QED BY <3>1, <3>2, <3>3
  <2> QED BY <1>1, <2>1, <2>2
<1> QED BY <1>3, <1>6

LEMMA TouchUpdateStep ==
    ASSUME InputInv, NEW id \in Fingers, OnTouchUpdate(id) PROVE InputInv'
<1> USE DEF OnTouchUpdate, InputInv
<1>1. /\ TouchInput(id, "move") \in MotionInputs /\ TouchInput(id, "move").source # "pad"
      /\ \A f : TouchInput(id, "move") # TouchInput(f, "start")
  BY InputsAre, Opposites DEF TouchInput
<1>2. TypeOK' /\ IdleInv' /\ CursorFollowsMode' /\ KnownInv' /\ ButtonInv' /\ AxisInv'
  <2>1. /\ AddMotion(TouchInput(id, "move")) \/ UNCHANGED queue
        /\ fingers' \subseteq Fingers /\ taken' \subseteq Fingers /\ mouseDown' \in BOOLEAN
        /\ imGuiTouchId' \in fingers' \cup {NoFinger}
    BY DEF TypeOK, touch
  <2> QED BY <1>1, <2>1, PointerStep
<1>3. /\ UNCHANGED TouchState
      /\ UNCHANGED motionEvents \/ motionEvents' = Append(motionEvents, TouchInput(id, "move"))
  BY DEF TouchState, touch, game, AddMotion, queue
<1>4. TouchInv'
  BY <1>1, <1>3, TouchFrame, TouchAppend, Parts
<1> QED BY <1>2, <1>4

\* The end of a touch is queued behind its start, and it is let through whenever
\* the start was.
LEMMA TouchEndStep ==
    ASSUME InputInv, NEW id \in Fingers, OnTouchEnd(id) PROVE InputInv'
<1> USE DEF InputInv
<1>1. /\ polling /\ Room /\ id \in fingers /\ fingers' = fingers \ {id}
      /\ UNCHANGED <<setup, sendEvents, cursorLocked, pads, needsQueueGamepadInput, mouseDown,
                     inputEntry, polling, game, gone>>
      /\ SwitchTo("Touch") \/ UNCHANGED mode
      /\ \/ imGuiTouchId = id /\ imGuiTouchId' = NoFinger /\ UNCHANGED <<queue, taken>>
         \/ /\ imGuiTouchId # id /\ AddMotion(TouchInput(id, "end")) /\ UNCHANGED imGuiTouchId
            /\ taken' = taken \ {id}
         \/ ~TouchIsOn /\ UNCHANGED <<imGuiTouchId, queue, taken>>
  BY TouchAllowed DEF OnTouchEnd, IdleInv
<1>2. /\ imGuiTouchId \in fingers \cup {NoFinger} /\ id # NoFinger /\ fingers \subseteq Fingers
      /\ taken \subseteq Fingers /\ mouseDown \in BOOLEAN
      /\ ~TouchIsOn => imGuiTouchId = NoFinger
  BY InputAssumption DEF TypeOK, TouchInv
<1>3. /\ UNCHANGED <<seenTouch, TouchIsOn>> /\ emulateTouch' = emulateTouch
      /\ ~TouchIsOn' => imGuiTouchId' = NoFinger
      /\ mouseDown' => emulateTouch'
  BY <1>1, <1>2 DEF game, setup, TouchIsOn, TouchInv
<1>4. TypeOK' /\ IdleInv' /\ CursorFollowsMode' /\ KnownInv' /\ ButtonInv' /\ AxisInv'
  <2>1. /\ AddMotion(TouchInput(id, "end")) \/ UNCHANGED queue
        /\ fingers' \subseteq Fingers /\ taken' \subseteq Fingers /\ mouseDown' \in BOOLEAN
        /\ imGuiTouchId' \in fingers' \cup {NoFinger}
    BY <1>1, <1>2
  <2>2. TouchInput(id, "end") \in MotionInputs /\ TouchInput(id, "end").source # "pad"
    BY InputsAre DEF TouchInput
  <2> QED BY <1>1, <2>1, <2>2, PointerStep
<1>5. TouchInv'
  <2>1. CASE imGuiTouchId = id /\ imGuiTouchId' = NoFinger /\ UNCHANGED <<queue, taken>>
    <3>1. \A f \in Fingers : Lifted(f)' => Lifted(f)
      BY <1>1, <1>2, <1>3, <2>1, InputAssumption DEF Lifted
    <3> QED BY <1>3, <2>1, <3>1, NothingMoves DEF queue
  <2>2. CASE /\ imGuiTouchId # id /\ AddMotion(TouchInput(id, "end")) /\ UNCHANGED imGuiTouchId
             /\ taken' = taken \ {id}
    <3>1. \A f \in Fingers : Lifted(f)' => f = id \/ Lifted(f)
      BY <1>1, <1>3, <2>2 DEF Lifted
    <3> QED BY <1>3, <2>2, <3>1, EndQueued DEF AddMotion
  <2>3. CASE ~TouchIsOn /\ UNCHANGED <<imGuiTouchId, queue, taken>>
    <3>1. \A f \in Fingers : Lifted(f)' => Lifted(f)
      BY <1>1, <1>3, <2>3 DEF Lifted
    <3> QED BY <1>3, <2>3, <3>1, NothingMoves DEF queue
  <2> QED BY <1>1, <2>1, <2>2, <2>3
<1> QED BY <1>4, <1>5

--------------------------------------------------------------------------------
\* A gamepad comes, of which nothing is queued if it is new, or goes.
LEMMA PadStateStep ==
    ASSUME InputInv, NEW g \in Gamepads, NEW connected \in BOOLEAN, OnGamepadState(g, connected)
    PROVE  InputInv'
<1> USE DEF OnGamepadState, Report, InputInv
<1>1. /\ UNCHANGED <<sendEvents, inputMode, queue, polling, needsQueueGamepadInput>>
      /\ axis' = [axis EXCEPT ![g] = "rest"] /\ button' = [button EXCEPT ![g] = {}]
      /\ axis'[g] = "rest" /\ button'[g] = {}
      /\ \A h \in Gamepads \ {g} : axis'[h] = axis[h] /\ button'[h] = button[h]
      /\ axis' \in [Gamepads -> Values] /\ button' \in [Gamepads -> SUBSET Buttons]
  BY DEF TypeOK, Values, mode
<1>2. /\ reported \subseteq reported' /\ reported' \subseteq Gamepads
      /\ seenAxis' \in [Gamepads -> Values] /\ seenButton' \in [Gamepads -> SUBSET Buttons]
      /\ \A h \in Gamepads \ {g} : seenAxis'[h] = seenAxis[h] /\ seenButton'[h] = seenButton[h]
      /\ sendEvents /\ connected =>
            g \in reported' /\ seenAxis'[g] = "rest" /\ seenButton'[g] = {}
      /\ ~sendEvents => UNCHANGED <<reported, seenAxis, seenButton>>
  BY DEF TypeOK, Values
<1>3. /\ gamepads' \subseteq Gamepads /\ gone' \subseteq Gamepads
      /\ gamepads \cup gone \subseteq gamepads' \cup gone'
      /\ \/ connected /\ g \notin gamepads /\ gamepads' = gamepads \cup {g} /\ gone' = gone
         \/ ~connected /\ gamepads' = gamepads \ {g} /\ gone' = gone \cup {g}
  BY DEF TypeOK
<1>4. TypeOK'
  <2>1. UNCHANGED <<setup, sendEvents, mode, cursorLocked, needsQueueGamepadInput, touch, queue,
                    inputEntry, polling, seenTouch>>
    OBVIOUS
  <2> HIDE DEF OnGamepadState, Report
  <2> QED BY <1>1, <1>2, <1>3, <2>1 DEF TypeOK, setup, mode, queue, touch
<1>5. IdleInv'
  <2> HIDE DEF OnGamepadState, Report
  <2>1. sendEvents => gamepads' \subseteq reported'
    BY <1>2, <1>3 DEF IdleInv
  <2>2. ~sendEvents => /\ \A h \in Gamepads : axis'[h] = "rest" /\ button'[h] = {}
                       /\ \A h \in Gamepads : seenAxis'[h] = "rest" /\ seenButton'[h] = {}
    BY <1>1, <1>2 DEF IdleInv
  <2> QED BY <1>1, <1>2, <2>1, <2>2 DEF IdleInv, queue
<1>6. CursorFollowsMode' /\ TouchInv'
  BY CursorFrame, TouchFrame DEF mode, TouchState, touch, queue
<1>7. KnownInv'
  BY <1>1, <1>3 DEF KnownInv, queue
<1>8. ButtonInv'
  <2>0. sendEvents' = sendEvents /\ keyEvents' = keyEvents
    BY <1>1 DEF queue
  <2> SUFFICES ASSUME sendEvents', NEW h \in gamepads' \ gone', NEW b \in Buttons, NEW p \in BOOLEAN,
                      p = (b \in button'[h])
               PROVE  /\ Overruled(keyEvents', PadKey(h, b, p), PadKey(h, b, ~p))
                      /\ Queued(keyEvents', PadKey(h, b, p)) \/ p = (b \in seenButton'[h])
    BY Zenon DEF ButtonInv
  <2>1. CASE h # g
    <3>1. /\ sendEvents /\ h \in gamepads \ gone
          /\ button'[h] = button[h] /\ seenButton'[h] = seenButton[h]
      BY <1>1, <1>2, <1>3, <2>0, <2>1
    <3>2. p = (b \in button[h])
      BY <3>1
    <3>3. /\ Overruled(keyEvents, PadKey(h, b, p), PadKey(h, b, ~p))
          /\ Queued(keyEvents, PadKey(h, b, p)) \/ p = (b \in seenButton[h])
      BY <3>1, <3>2, Zenon DEF ButtonInv
    <3> QED BY <2>0, <3>1, <3>3
  <2>2. CASE h = g
    <3>1. connected /\ g \notin gamepads \cup gone /\ p = (b \in seenButton'[h])
      BY <1>1, <1>2, <1>3, <2>2
    <3>2. \A k \in 1..Len(keyEvents) : keyEvents[k] # PadKey(g, b, ~p)
      BY <3>1 DEF KnownInv, PadKey
    <3> QED BY <2>0, <2>2, <3>1, <3>2 DEF Overruled
  <2> QED BY <2>1, <2>2
<1>9. AxisInv'
  <2>1. ~needsQueueGamepadInput' =>
            polling' /\ \E h \in gamepads' \cup gone' : Queued(motionEvents', PadMotion(h))
    BY <1>1, <1>3 DEF AxisInv, queue
  <2>2. ASSUME sendEvents', \A h, i \in gamepads' \cup gone' : h = i, NEW h \in gamepads'
        PROVE  seenAxis'[h] = axis'[h]
    <3>1. connected /\ h = g
      BY <1>3, <2>2
    <3> QED BY <1>1, <1>2, <2>2, <3>1
  <2> QED BY <2>1, <2>2 DEF AxisInv
<1> QED BY <1>4, <1>5, <1>6, <1>7, <1>8, <1>9

\* A button that changes is queued behind what was queued of it.
LEMMA PadButtonStep ==
    ASSUME InputInv, NEW g \in Gamepads, NEW b \in Buttons, NEW pressed \in BOOLEAN,
           OnGamepadButton(g, b, pressed)
    PROVE  InputInv'
<1> USE DEF OnGamepadButton, InputInv
<1> DEFINE e == PadKey(g, b, pressed)
<1>1. /\ polling /\ Room /\ sendEvents /\ UNCHANGED motionEvents
      /\ UNCHANGED <<setup, sendEvents, cursorLocked, gamepads, axis, needsQueueGamepadInput,
                     touch, inputEntry, polling, game, gone>>
      /\ \/ /\ g \in gamepads /\ AddKey(e) /\ keyEvents' = Append(keyEvents, e)
            /\ button' = [button EXCEPT ![g] = IF pressed THEN @ \cup {b} ELSE @ \ {b}]
         \/ UNCHANGED button /\ UNCHANGED queue /\ UNCHANGED keyEvents
  BY DEF Allowed, AddKey, queue, PadKey
<1>2. e \in KeyInputs /\ e.pad = g
  BY InputsAre DEF PadKey
<1>3. /\ inputMode' \in Modes /\ recent' \in BOOLEAN /\ cursorDisabled' \in BOOLEAN
      /\ CursorFollowsMode'
  BY <1>1, SwitchKeeps, ModesAre
<1>4. button' \in [Gamepads -> SUBSET Buttons]
  <2>1. button \in [Gamepads -> SUBSET Buttons]
    BY DEF TypeOK
  <2> QED BY <1>1, <2>1
<1>5. TypeOK'
  <2>1. QueueOK'
    BY <1>1, <1>2, QueueKept, Parts
  <2> QED BY <1>1, <1>3, <1>4, <2>1 DEF QueueOK, TypeOK, setup, touch, game
<1>6. IdleInv' /\ KnownInv'
  BY <1>1, <1>2, Parts, IdleFrame, KnownAppend, KnownFrame DEF game
<1>7. AxisInv' /\ TouchInv'
  BY <1>1, AxisFrame, TouchFrame DEF AxisState, TouchState, touch, game
<1>8. ButtonInv'
  <2>1. CASE UNCHANGED button /\ UNCHANGED keyEvents
    BY <1>1, <2>1, ButtonFrame DEF ButtonState, game
  <2>2. CASE /\ g \in gamepads /\ keyEvents' = Append(keyEvents, e)
             /\ button' = [button EXCEPT ![g] = IF pressed THEN @ \cup {b} ELSE @ \ {b}]
    <3> SUFFICES ASSUME NEW h \in gamepads \ gone, NEW c \in Buttons, NEW p \in BOOLEAN,
                        p = (c \in button'[h])
                 PROVE  /\ Overruled(keyEvents', PadKey(h, c, p), PadKey(h, c, ~p))
                        /\ Queued(keyEvents', PadKey(h, c, p)) \/ p = (c \in seenButton[h])
      BY <1>1 DEF ButtonInv, game
    <3>1. keyEvents \in Seq(KeyInputs) /\ button \in [Gamepads -> SUBSET Buttons]
      BY DEF TypeOK
    <3>2. CASE h = g /\ c = b
      <4>1. p = pressed
        BY <2>2, <3>1, <3>2
      <4>2. PadKey(h, c, p) = e /\ PadKey(h, c, ~p) # e
        BY <3>2, <4>1, Opposites
      <4> HIDE DEF e
      <4>3. /\ Overruled(Append(keyEvents, e), e, PadKey(h, c, ~p))
            /\ Queued(Append(keyEvents, e), e)
        BY <1>2, <3>1, <4>2, AppendTruth, Zenon
      <4> QED BY <2>2, <4>2, <4>3
    <3>3. CASE ~(h = g /\ c = b)
      <4>1. p = (c \in button[h])
        <5>1. h \in Gamepads
          BY DEF TypeOK
        <5> QED BY <2>2, <3>1, <3>3, <5>1
      <4>2. PadKey(h, c, ~p) # e
        BY <3>3, Opposites
      <4>3. /\ Overruled(keyEvents, PadKey(h, c, p), PadKey(h, c, ~p))
            /\ Queued(keyEvents, PadKey(h, c, p)) \/ p = (c \in seenButton[h])
        BY <1>1, <4>1 DEF ButtonInv
      <4> HIDE DEF e
      <4> QED BY <1>2, <2>2, <3>1, <4>2, <4>3, AppendOther, Zenon
    <3> QED BY <3>2, <3>3
  <2> QED BY <1>1, <2>1, <2>2
<1> QED BY <1>3, <1>5, <1>6, <1>7, <1>8

\* An axis that moves is queued, or an event that will read it is queued already.
LEMMA PadAxisStep ==
    ASSUME InputInv, NEW g \in Gamepads, NEW v \in Values, OnGamepadAxis(g, v)
    PROVE  InputInv'
<1> USE DEF OnGamepadAxis, QueueGamepadAxisInputIfNeeded, InputInv
<1> DEFINE e == PadMotion(g)
<1>1. /\ polling /\ Room /\ sendEvents /\ UNCHANGED keyEvents
      /\ UNCHANGED <<setup, sendEvents, cursorLocked, gamepads, button,
                     touch, inputEntry, polling, game, gone>>
      /\ \/ /\ g \in gamepads /\ AddMotion(e) /\ motionEvents' = Append(motionEvents, e)
            /\ axis' = [axis EXCEPT ![g] = v] /\ needsQueueGamepadInput' = FALSE
         \/ /\ g \in gamepads /\ UNCHANGED queue /\ UNCHANGED motionEvents
            /\ ~needsQueueGamepadInput /\ ~needsQueueGamepadInput'
            /\ needsQueueGamepadInput' \in BOOLEAN
            /\ axis' = [axis EXCEPT ![g] = v]
         \/ UNCHANGED <<axis, needsQueueGamepadInput>> /\ UNCHANGED queue /\ UNCHANGED motionEvents
  BY DEF Allowed, AddMotion, queue, PadMotion, TypeOK
<1>2. e \in MotionInputs /\ e.pad = g /\ \A f : e # TouchInput(f, "start")
  BY InputsAre, Opposites DEF PadMotion
<1> HIDE DEF e
<1>3. /\ inputMode' \in Modes /\ recent' \in BOOLEAN /\ cursorDisabled' \in BOOLEAN
      /\ CursorFollowsMode'
  BY <1>1, SwitchKeeps, ModesAre
<1>4. TypeOK'
  <2>1. QueueOK'
    BY <1>1, <1>2, QueueKept, Parts
  <2>2. axis' \in [Gamepads -> Values] /\ needsQueueGamepadInput' \in BOOLEAN
    BY <1>1 DEF TypeOK
  <2> QED BY <1>1, <1>3, <2>1, <2>2 DEF QueueOK, TypeOK, setup, touch, game
<1>5. IdleInv' /\ KnownInv'
  BY <1>1, <1>2, Parts, IdleFrame, KnownAppend, KnownFrame DEF game
<1>6. ButtonInv'
  BY <1>1, ButtonFrame DEF ButtonState, game
<1>7. TouchInv'
  BY <1>1, <1>2, Parts, TouchFrame, TouchAppend DEF TouchState, touch, game
<1>8. AxisInv'
  <2>1. CASE UNCHANGED <<axis, needsQueueGamepadInput, motionEvents>>
    BY <1>1, <2>1, AxisFrame DEF AxisState, game
  <2>2. CASE /\ g \in gamepads /\ Queued(motionEvents', PadMotion(g))
             /\ axis' = [axis EXCEPT ![g] = v]
    <3>1. ASSUME \A h, i \in gamepads \cup gone : h = i, NEW h \in gamepads
          PROVE  Queued(motionEvents', PadMotion(h))
      BY <2>2, <3>1
    <3> QED BY <1>1, <2>2, <3>1 DEF AxisInv
  <2>3. CASE /\ g \in gamepads /\ UNCHANGED motionEvents
             /\ ~needsQueueGamepadInput /\ ~needsQueueGamepadInput'
             /\ axis' = [axis EXCEPT ![g] = v]
    <3>1. PICK i \in gamepads \cup gone : Queued(motionEvents, PadMotion(i))
      BY <2>3 DEF AxisInv
    <3>2. ASSUME \A h, j \in gamepads \cup gone : h = j, NEW h \in gamepads
          PROVE  Queued(motionEvents', PadMotion(h))
      BY <2>3, <3>1, <3>2
    <3> QED BY <1>1, <2>3, <3>1, <3>2 DEF AxisInv
  <2>4. motionEvents' = Append(motionEvents, e) => Queued(motionEvents', PadMotion(g))
    <3>1. motionEvents \in Seq(MotionInputs)
      BY DEF TypeOK
    <3>2. \E lie : lie # e
      BY <1>2
    <3> QED BY <1>2, <3>1, <3>2, AppendTruth, Zenon DEF e
  <2> QED BY <1>1, <2>1, <2>2, <2>3, <2>4
<1> QED BY <1>3, <1>4, <1>5, <1>6, <1>7, <1>8

--------------------------------------------------------------------------------
\* Of two opposite events the first one leaves the game wrong, but then the
\* other one is still queued.
LEMMA ReadKeyStep ==
    ASSUME InputInv, ReadKey PROVE InputInv'
<1> USE DEF ReadKey, InputInv
<1> DEFINE e == Head(keyEvents)
<1>1. /\ keyEvents \in Seq(KeyInputs) /\ keyEvents # <<>> /\ keyEvents' = Tail(keyEvents)
      /\ e \in KeyInputs /\ e = keyEvents[1] /\ UNCHANGED motionEvents
      /\ seenButton \in [Gamepads -> SUBSET Buttons]
  BY DEF TypeOK
<1>2. seenButton' = IF e.source = "keyboard" THEN seenButton
                    ELSE [seenButton EXCEPT ![e.pad] =
                            IF e.pressed THEN @ \cup {e.button} ELSE @ \ {e.button}]
  OBVIOUS
<1> HIDE DEF e
<1>3. \/ e = [source |-> "keyboard"] /\ seenButton' = seenButton
      \/ \E g \in Gamepads, b \in Buttons, p \in BOOLEAN :
            /\ e = PadKey(g, b, p)
            /\ seenButton' = [seenButton EXCEPT ![g] = IF p THEN @ \cup {b} ELSE @ \ {b}]
  <2>1. CASE e = [source |-> "keyboard"]
    BY <1>2, <2>1
  <2>2. ASSUME NEW g \in Gamepads, NEW b \in Buttons, NEW p \in BOOLEAN, e = PadKey(g, b, p)
        PROVE  seenButton' = [seenButton EXCEPT ![g] = IF p THEN @ \cup {b} ELSE @ \ {b}]
    <3>1. e.source = "pad" /\ e.pad = g /\ e.button = b /\ e.pressed = p
      BY <2>2 DEF PadKey
    <3> QED BY <1>2, <3>1
  <2>3. \/ e = [source |-> "keyboard"]
        \/ \E g \in Gamepads, b \in Buttons, p \in BOOLEAN : e = PadKey(g, b, p)
    BY <1>1, KeyCases, Zenon
  <2>4. CASE \E g \in Gamepads, b \in Buttons, p \in BOOLEAN : e = PadKey(g, b, p)
    <3>1. PICK g \in Gamepads, b \in Buttons, p \in BOOLEAN : e = PadKey(g, b, p)
      BY <2>4
    <3>2. seenButton' = [seenButton EXCEPT ![g] = IF p THEN @ \cup {b} ELSE @ \ {b}]
      BY <2>2, <3>1
    <3> QED BY <3>1, <3>2, Zenon
  <2> QED BY <2>1, <2>3, <2>4
<1> HIDE DEF ReadKey
<1>4. TypeOK'
  <2>1. QueueOK'
    BY <1>1, QueueKept, Parts
  <2>2. ASSUME NEW g \in Gamepads, NEW b \in Buttons, NEW p \in BOOLEAN,
               seenButton' = [seenButton EXCEPT ![g] = IF p THEN @ \cup {b} ELSE @ \ {b}]
        PROVE  seenButton' \in [Gamepads -> SUBSET Buttons]
    BY <1>1, <2>2
  <2>3. seenButton' \in [Gamepads -> SUBSET Buttons]
    BY <1>1, <1>3, <2>2
  <2> QED BY <2>1, <2>3 DEF ReadKey, QueueOK, TypeOK, setup, mode, pads, touch
<1>5. IdleInv' /\ CursorFollowsMode'
  <2>1. sendEvents
    BY <1>1 DEF IdleInv
  <2> QED BY <2>1, IdleFrame, CursorFrame DEF ReadKey, pads, mode, IdleInv
<1>6. KnownInv'
  <2>1. \A k \in 1..Len(keyEvents') : k + 1 \in 1..Len(keyEvents) /\ keyEvents'[k] = keyEvents[k + 1]
    BY <1>1
  <2> QED BY <1>1, <2>1 DEF ReadKey, KnownInv, pads
<1>7. AxisInv' /\ TouchInv'
  BY <1>1, AxisFrame, TouchFrame DEF ReadKey, AxisState, TouchState, pads, touch
<1>8. ButtonInv'
  <2>0. UNCHANGED <<sendEvents, gamepads, gone, button>>
    BY DEF ReadKey, pads
  <2> SUFFICES ASSUME sendEvents', NEW h \in gamepads' \ gone', NEW c \in Buttons, NEW p \in BOOLEAN,
                      p = (c \in button'[h])
               PROVE  /\ Overruled(keyEvents', PadKey(h, c, p), PadKey(h, c, ~p))
                      /\ Queued(keyEvents', PadKey(h, c, p)) \/ p = (c \in seenButton'[h])
    BY Zenon DEF ButtonInv
  <2>1. sendEvents /\ h \in gamepads \ gone /\ p = (c \in button[h]) /\ h \in Gamepads
    BY <2>0 DEF TypeOK
  <2>2. /\ Overruled(keyEvents, PadKey(h, c, p), PadKey(h, c, ~p))
        /\ Queued(keyEvents, PadKey(h, c, p)) \/ p = (c \in seenButton[h])
    BY <2>1, Zenon DEF ButtonInv
  <2>3. /\ Overruled(Tail(keyEvents), PadKey(h, c, p), PadKey(h, c, ~p))
        /\ e = PadKey(h, c, ~p) => Queued(Tail(keyEvents), PadKey(h, c, p))
        /\ Queued(keyEvents, PadKey(h, c, p)) /\ e # PadKey(h, c, p)
              => Queued(Tail(keyEvents), PadKey(h, c, p))
    BY <1>1, <2>2, HeadIsRead, Zenon DEF e
  <2>4. CASE e = [source |-> "keyboard"] /\ seenButton' = seenButton
    <3>1. e # PadKey(h, c, p)
      BY <2>4, Opposites
    <3> QED BY <1>1, <2>2, <2>3, <2>4, <3>1
  <2>5. ASSUME NEW g \in Gamepads, NEW b \in Buttons, NEW q \in BOOLEAN, e = PadKey(g, b, q),
               seenButton' = [seenButton EXCEPT ![g] = IF q THEN @ \cup {b} ELSE @ \ {b}]
        PROVE  /\ Overruled(keyEvents', PadKey(h, c, p), PadKey(h, c, ~p))
               /\ Queued(keyEvents', PadKey(h, c, p)) \/ p = (c \in seenButton'[h])
    <3>1. CASE g = h /\ b = c /\ q = p
      <4>1. p = (c \in seenButton'[h])
        <5>1. p => c \in seenButton'[h]
          BY <1>1, <2>1, <2>5, <3>1
        <5>2. ~p => c \notin seenButton'[h]
          BY <1>1, <2>1, <2>5, <3>1
        <5> QED BY <5>1, <5>2, IsMember, Zenon
      <4> QED BY <1>1, <2>3, <4>1
    <3>2. CASE g = h /\ b = c /\ q = ~p
      BY <1>1, <2>3, <2>5, <3>2
    <3>3. CASE ~(g = h /\ b = c)
      <4>1. (c \in seenButton'[h]) = (c \in seenButton[h])
        BY <1>1, <2>1, <2>5, <3>3
      <4>2. e # PadKey(h, c, p)
        BY <2>5, <3>3, Opposites
      <4> QED BY <1>1, <2>2, <2>3, <4>1, <4>2
    <3> QED BY <3>1, <3>2, <3>3
  <2> QED BY <1>3, <2>4, <2>5
<1> QED BY <1>4, <1>5, <1>6, <1>7, <1>8

LEMMA ReadMotionStep ==
    ASSUME InputInv, ReadMotion PROVE InputInv'
<1> USE DEF InputInv
<1> DEFINE e == Head(motionEvents)
<1>1. /\ motionEvents \in Seq(MotionInputs) /\ motionEvents # <<>>
      /\ motionEvents' = Tail(motionEvents) /\ UNCHANGED keyEvents
      /\ e \in MotionInputs /\ seenAxis \in [Gamepads -> Values] /\ axis \in [Gamepads -> Values]
      /\ seenTouch \subseteq Fingers
  BY DEF ReadMotion, TypeOK
<1>2. /\ seenAxis' = IF e.source # "pad" THEN seenAxis
                     ELSE [seenAxis EXCEPT ![e.pad] =
                            IF e.pad \in gamepads THEN axis[e.pad] ELSE "rest"]
      /\ seenTouch' = IF e.source # "touch" \/ e.phase = "move" THEN seenTouch
                      ELSE IF e.phase = "start" THEN seenTouch \cup {e.id}
                      ELSE seenTouch \ {e.id}
  BY DEF ReadMotion
<1> HIDE DEF e
<1>3. /\ ~polling /\ sendEvents /\ needsQueueGamepadInput
      /\ UNCHANGED <<setup, sendEvents, mode, cursorLocked, pads, needsQueueGamepadInput, touch,
                     keyEvents, inputEntry, polling, reported, seenButton, gone>>
  BY <1>1 DEF ReadMotion, IdleInv, AxisInv
<1>4. /\ \A h \in Gamepads : e # PadMotion(h) => seenAxis'[h] = seenAxis[h]
      /\ \A h \in gamepads : e = PadMotion(h) => seenAxis'[h] = axis[h]
      /\ seenAxis' \in [Gamepads -> Values]
  <2>1. ASSUME NEW h \in Gamepads, e = PadMotion(h)
        PROVE  seenAxis' = [seenAxis EXCEPT ![h] = IF h \in gamepads THEN axis[h] ELSE "rest"]
    BY <1>2, <2>1 DEF PadMotion
  <2>2. CASE \E h \in Gamepads : e = PadMotion(h)
    <3>1. PICK h \in Gamepads : e = PadMotion(h)
      BY <2>2
    <3>2. seenAxis' = [seenAxis EXCEPT ![h] = IF h \in gamepads THEN axis[h] ELSE "rest"]
      BY <2>1, <3>1
    <3>3. \A i : e = PadMotion(i) <=> i = h
      BY <3>1, Opposites
    <3> QED BY <1>1, <3>2, <3>3 DEF TypeOK, Values
  <2>3. CASE ~\E h \in Gamepads : e = PadMotion(h)
    <3>1. e.source # "pad"
      BY <1>1, <2>3, MotionCases DEF TouchInput
    <3> QED BY <1>1, <1>2, <2>3, <3>1 DEF TypeOK
  <2> QED BY <2>2, <2>3
<1>5. /\ \A f \in Fingers : f \in seenTouch' => f \in seenTouch \/ e = TouchInput(f, "start")
      /\ \A f \in Fingers : e = TouchInput(f, "end") => f \notin seenTouch'
      /\ seenTouch' \subseteq Fingers
  <2>1. CASE \E f \in Fingers, phase \in {"start", "move", "end"} : e = TouchInput(f, phase)
    <3>1. PICK f \in Fingers, phase \in {"start", "move", "end"} : e = TouchInput(f, phase)
      BY <2>1
    <3>2. e.source = "touch" /\ e.id = f /\ e.phase = phase
      BY <3>1 DEF TouchInput
    <3>3. seenTouch' = IF phase = "move" THEN seenTouch
                       ELSE IF phase = "start" THEN seenTouch \cup {f} ELSE seenTouch \ {f}
      BY <1>2, <3>2
    <3>4. \A g, p : e = TouchInput(g, p) <=> g = f /\ p = phase
      BY <3>1, Opposites
    <3> QED BY <1>1, <3>3, <3>4
  <2>2. CASE ~\E f \in Fingers, phase \in {"start", "move", "end"} : e = TouchInput(f, phase)
    <3>1. e.source # "touch"
      BY <1>1, <2>2, MotionCases DEF PadMotion
    <3> QED BY <1>1, <1>2, <2>2, <3>1
  <2> QED BY <2>1, <2>2
<1>6. TypeOK'
  <2>1. QueueOK'
    BY <1>1, QueueKept, Parts
  <2> QED BY <1>3, <1>4, <1>5, <2>1 DEF QueueOK, TypeOK, setup, mode, pads, touch
<1>7. IdleInv' /\ CursorFollowsMode'
  BY <1>3, IdleFrame, CursorFrame DEF pads, mode
<1>8. KnownInv'
  <2>1. \A k \in 1..Len(motionEvents') :
            k + 1 \in 1..Len(motionEvents) /\ motionEvents'[k] = motionEvents[k + 1]
    BY <1>1
  <2> QED BY <1>1, <1>3, <2>1 DEF KnownInv, pads
<1>9. ButtonInv'
  BY <1>3, ButtonFrame DEF ButtonState, pads
<1>10. AxisInv'
  <2>1. \A h : Queued(motionEvents, PadMotion(h)) /\ e # PadMotion(h) => Queued(motionEvents', PadMotion(h))
    BY <1>1, HeadIsRead, Zenon DEF e
  <2>2. UNCHANGED <<sendEvents, gamepads, gone, axis, needsQueueGamepadInput>> /\ gamepads \subseteq Gamepads
    BY <1>3 DEF pads, TypeOK
  <2> QED BY <1>3, <1>4, <2>1, <2>2 DEF AxisInv
<1>11. TouchInv'
  <2> DEFINE end(f) == TouchInput(f, "end")
             start(f) == TouchInput(f, "start")
  <2>1. \A f : /\ Overruled(motionEvents, end(f), start(f)) =>
                    /\ Overruled(motionEvents', end(f), start(f))
                    /\ e = start(f) => Queued(motionEvents', end(f))
               /\ Queued(motionEvents, end(f)) /\ e # end(f) => Queued(motionEvents', end(f))
    BY <1>1, HeadIsRead, Zenon DEF e
  <2>2. UNCHANGED <<imGuiTouchId, mouseDown, emulateTouch, TouchIsOn>> /\ \A f : Lifted(f)' <=> Lifted(f)
    BY <1>3 DEF touch, setup, TouchIsOn, Lifted
  <2>3. \A f \in Fingers : Lifted(f) =>
            /\ Overruled(motionEvents', end(f), start(f))
            /\ f \in seenTouch' => Queued(motionEvents', end(f))
    BY <1>5, <2>1 DEF TouchInv
  <2> QED BY <2>2, <2>3 DEF TouchInv
<1> QED BY <1>6, <1>7, <1>8, <1>9, <1>10, <1>11

LEMMA StepInput == InputInv /\ [Next]_vars => InputInv'
<1> SUFFICES ASSUME InputInv, [Next]_vars PROVE InputInv'
  OBVIOUS
<1>1. CASE Window
  BY <1>1, KeyboardStep, MouseButtonStep, MouseStep, TouchStartStep, TouchUpdateStep, TouchEndStep,
     PadStateStep, PadButtonStep, PadAxisStep DEF Window
<1>2. CASE UNCHANGED vars
  <2> USE <1>2 DEF vars, InputInv
  <2>1. TypeOK'
    BY DEF TypeOK, setup, mode, pads, touch, queue, game
  <2>2. IdleInv' /\ CursorFollowsMode' /\ KnownInv'
    BY IdleFrame, CursorFrame, KnownFrame DEF pads, mode, game, IdleInv
  <2>3. ButtonInv' /\ AxisInv' /\ TouchInv'
    BY ButtonFrame, AxisFrame, TouchFrame
       DEF ButtonState, AxisState, TouchState, pads, touch, queue, game
  <2> QED BY <2>1, <2>2, <2>3
<1> QED
  BY <1>1, <1>2, TimeStep, CursorStep, PollStep, EndStep, AttachStep, ReadKeyStep, ReadMotionStep
     DEF Next

\* The invariant of the input.
THEOREM InputInvariant == Spec => []InputInv
  BY InitInput, StepInput, PTL DEF Spec

\* hasInputMode and setCursorLocked, called in any order and in any mode, leave
\* the cursor hidden for touch and gamepad, and for the mouse as the game asked
\* for last.
THEOREM CursorFollows == Spec => []CursorFollowsMode
<1>1. InputInv => CursorFollowsMode
  BY DEF InputInv
<1> QED BY <1>1, InputInvariant, PTL

\* A game that has read both queues of FakeInputQueue knows what WindowCallbacks
\* knows of the devices, although one event stands for many movements of an axis
\* and the two queues are read one after the other: every gamepad and its buttons,
\* the axis as long as there has been one gamepad, and the end of every touch, of
\* a finger or emulated by the mouse, that was passed on to it.
THEOREM GameUpToDate == Spec => []GameIsUpToDate
<1>1. ASSUME InputInv PROVE GameIsUpToDate
  <2> USE <1>1 DEF InputInv
  <2>1. GamepadsAreReported
    BY DEF IdleInv, GamepadsAreReported, HasEvents
  <2>2. AxisIsSeen /\ ButtonsAreSeen /\ TouchesEnd
    <3> SUFFICES ASSUME Quiet PROVE AxisIsSeen /\ ButtonsAreSeen /\ TouchesEnd
      BY DEF AxisIsSeen, ButtonsAreSeen, TouchesEnd
    <3>1. keyEvents = <<>> /\ motionEvents = <<>>
      BY DEF Quiet, HasEvents
    <3>2. \A x : ~Queued(keyEvents, x) /\ ~Queued(motionEvents, x)
      BY <3>1, NothingQueued
    <3>3. AxisIsSeen
      BY <3>2, Zenon DEF AxisInv, AxisIsSeen, TypeOK, IdleInv
    <3>4. ASSUME NEW g \in gamepads \ gone PROVE seenButton[g] = button[g]
      <4>1. g \in Gamepads /\ seenButton[g] \subseteq Buttons /\ button[g] \subseteq Buttons
        BY DEF TypeOK
      <4>2. CASE ~sendEvents
        BY <4>1, <4>2 DEF IdleInv
      <4>3. CASE sendEvents
        <5>1. ASSUME NEW b \in Buttons, NEW p \in BOOLEAN, p = (b \in button[g])
              PROVE  p = (b \in seenButton[g])
          BY <3>2, <4>3, <5>1, Zenon DEF ButtonInv
        <5>2. ASSUME NEW b \in Buttons PROVE (b \in button[g]) <=> (b \in seenButton[g])
          <6>1. CASE b \in button[g]
            <7>1. TRUE = (b \in button[g])
              BY <6>1
            <7>2. TRUE = (b \in seenButton[g])
              BY <5>1, <7>1
            <7> QED BY <6>1, <7>2
          <6>2. CASE b \notin button[g]
            <7>1. FALSE = (b \in button[g])
              BY <6>2
            <7>2. FALSE = (b \in seenButton[g])
              BY <5>1, <7>1
            <7> QED BY <6>2, <7>2
          <6> QED BY <6>1, <6>2
        <5> QED BY <4>1, <5>2
      <4> QED BY <4>2, <4>3
    <3>5. TouchesEnd
      BY <3>2 DEF TouchInv, TouchesEnd, Lifted, TypeOK
    <3> QED BY <3>3, <3>4, <3>5 DEF ButtonsAreSeen
  <2> QED BY <2>1, <2>2 DEF GameIsUpToDate
<1> QED BY <1>1, InputInvariant, PTL

-------------------------------------------------------------------------------
(*                            TextInputHandler                             *)

LEMMA LeastNumber ==
    ASSUME NEW B \in SUBSET Nat, B # {}
    PROVE  \E n \in B : \A k \in B : n <= k
<1> DEFINE R == {ss \in Nat \X Nat : ss[1] < ss[2]}
<1>1. IsWellFoundedOn(R, Nat)
  BY NatLessThanWellFounded, Zenon DEF OpToRel
<1>2. PICK x \in B : \A y \in B : <<y, x>> \notin R
  <2> HIDE DEF R
  <2> QED BY <1>1, WFMin
<1>3. ASSUME NEW y \in B, y < x PROVE FALSE
  <2>1. <<y, x>> \in R
    BY <1>3
  <2> QED BY <1>2, <2>1
<1> QED BY <1>3

LEMMA MaxIs ==
    ASSUME NEW S \in SUBSET Nat, NEW m \in S, \A x \in S : x <= m
    PROVE  Max(S) = m
<1>1. \A x \in S : (\A y \in S : x >= y) => x = m
  OBVIOUS
<1>2. \A y \in S : m >= y
  OBVIOUS
<1>3. Max(S) \in S /\ \A y \in S : Max(S) >= y
  BY <1>2, Zenon DEF Max
<1> QED BY <1>1, <1>3

LEMMA MinIs ==
    ASSUME NEW S \in SUBSET Nat, NEW m \in S, \A x \in S : m <= x
    PROVE  Min(S) = m
<1>1. \A x \in S : (\A y \in S : x <= y) => x = m
  OBVIOUS
<1>2. \A y \in S : m <= y
  OBVIOUS
<1>3. Min(S) \in S /\ \A y \in S : Min(S) <= y
  BY <1>2, Zenon DEF Min
<1> QED BY <1>1, <1>3

LEMMA MaxOfBounded ==
    ASSUME NEW n \in Nat, NEW S \in SUBSET (0..n), S # {}
    PROVE  Max(S) \in S /\ \A x \in S : x <= Max(S)
<1> DEFINE B == {k \in Nat : \A x \in S : x <= k}
<1>1. B \in SUBSET Nat /\ n \in B
  OBVIOUS
<1>2. PICK k \in B : \A j \in B : k <= j
  <2> HIDE DEF B
  <2> QED BY <1>1, LeastNumber
<1>3. k \in Nat /\ \A x \in S : x <= k
  OBVIOUS
<1>4. k \in S
  <2> SUFFICES ASSUME k \notin S PROVE FALSE
    OBVIOUS
  <2>1. PICK x \in S : TRUE
    OBVIOUS
  <2>2. x \in Nat /\ x <= k /\ x # k
    BY <1>3
  <2>3. k - 1 \in Nat
    BY <1>3, <2>2
  <2>4. \A y \in S : y <= k - 1
    BY <1>3
  <2>5. k - 1 \in B
    BY <2>3, <2>4
  <2> QED BY <1>2, <1>3, <2>5
<1>5. Max(S) = k
  <2> HIDE DEF B
  <2>1. S \in SUBSET Nat
    OBVIOUS
  <2> QED BY <1>3, <1>4, <2>1, MaxIs
<1> QED BY <1>3, <1>4, <1>5

LEMMA MinOfBounded ==
    ASSUME NEW S \in SUBSET Nat, S # {}
    PROVE  Min(S) \in S /\ \A x \in S : Min(S) <= x
<1>1. PICK m \in S : \A x \in S : m <= x
  BY LeastNumber
<1> QED BY <1>1, MinIs

-----------------------------------------------------------------------------
(* Texts and their characters. *)
LEMMA SizeOfByte ==
    ASSUME NEW b
    PROVE  CharByteSize(b) \in {1, 2, 3, 4}
BY DEF CharByteSize, Lead4, Lead3, Lead2

(* What the recursive function of Characters is at n, given what it is before n. *)
ReadStep(s, f, n) ==
    IF n = 0 THEN <<>>
    ELSE IF s[n] = Cont THEN f[n - 1] ELSE Append(f[n - 1], s[n])

Reads(f, s, m) == f = [n \in 0..m |-> ReadStep(s, f, n)]

LEMMA ReadAt ==
    ASSUME NEW s, NEW f, NEW m, Reads(f, s, m), NEW n \in 0..m
    PROVE  f[n] = ReadStep(s, f, n)
BY DEF Reads

LEMMA ReadExists ==
    ASSUME NEW s, NEW m \in Nat
    PROVE  \E f : Reads(f, s, m)
<1> DEFINE B == {k \in Nat : ~\E f : Reads(f, s, k)}
<1> SUFFICES ASSUME B # {} PROVE FALSE
  OBVIOUS
<1>1. PICK k \in B : \A j \in B : k <= j
  <2>1. B \in SUBSET Nat
    OBVIOUS
  <2> HIDE DEF B
  <2> QED BY <2>1, LeastNumber
<1>2. CASE k = 0
  <2> DEFINE f == [i \in 0..0 |-> <<>>]
  <2>1. Reads(f, s, 0)
    BY DEF Reads, ReadStep
  <2> QED BY <1>2, <2>1
<1>3. CASE k # 0
  <2>1. k - 1 \in Nat /\ k - 1 \notin B
    BY <1>1, <1>3
  <2>2. PICK f : Reads(f, s, k - 1)
    BY <2>1
  <2> DEFINE g == [i \in 0..k |-> IF i = k THEN ReadStep(s, f, k) ELSE f[i]]
  <2>3. \A i \in 0..k : ReadStep(s, g, i) = ReadStep(s, f, i)
    BY <1>3 DEF ReadStep
  <2>4. \A i \in 0..(k - 1) : f[i] = ReadStep(s, f, i)
    BY <2>2 DEF Reads
  <2>5. \A i \in 0..k : g[i] = ReadStep(s, g, i)
    BY <2>3, <2>4
  <2>6. Reads(g, s, k)
    <3> HIDE DEF g
    <3>1. g = [i \in 0..k |-> g[i]]
      BY DEF g
    <3> QED BY <2>5, <3>1 DEF Reads
  <2> QED BY <2>6
<1> QED BY <1>2, <1>3

LEMMA CharactersIs ==
    ASSUME NEW s, Len(s) \in Nat
    PROVE  \E f : Reads(f, s, Len(s)) /\ Characters(s) = f[Len(s)]
<1> DEFINE f == CHOOSE g : g = [n \in 0..Len(s) |-> ReadStep(s, g, n)]
<1>1. f = [n \in 0..Len(s) |-> ReadStep(s, f, n)]
  BY ReadExists, Zenon DEF Reads
<1>2. Characters(s) = f[Len(s)]
  BY Zenon DEF Characters, ReadStep
<1> QED BY <1>1, <1>2, Zenon DEF Reads

(* What is read up to k depends on the bytes up to k only. *)
LEMMA ReadsAgree ==
    ASSUME NEW c, NEW s, NEW f, NEW g, NEW m \in Nat, NEW n \in Nat, NEW k \in Nat, k <= m, k <= n,
           Reads(f, c, m), Reads(g, s, n), \A i \in 1..k : c[i] = s[i]
    PROVE  f[k] = g[k]
<1> DEFINE B == {j \in 0..k : f[j] # g[j]}
<1> SUFFICES ASSUME B # {} PROVE FALSE
  OBVIOUS
<1>1. PICK j \in B : \A i \in B : j <= i
  <2>1. B \in SUBSET Nat
    OBVIOUS
  <2> HIDE DEF B
  <2> QED BY <2>1, LeastNumber
<1>2. f[j] = ReadStep(c, f, j) /\ g[j] = ReadStep(s, g, j)
  <2>1. j \in 0..m /\ j \in 0..n
    OBVIOUS
  <2> QED BY <2>1, ReadAt
<1>3. j # 0
  BY <1>2 DEF ReadStep
<1>4. f[j - 1] = g[j - 1] /\ c[j] = s[j]
  BY <1>1, <1>3
<1>5. ReadStep(c, f, j) = ReadStep(s, g, j)
  BY <1>3, <1>4 DEF ReadStep
<1> QED BY <1>2, <1>5

LEMMA NoCharacters == Characters(<<>>) = <<>>
<1>1. PICK f : Reads(f, <<>>, 0) /\ Characters(<<>>) = f[0]
  BY CharactersIs
<1> QED BY <1>1 DEF Reads, ReadStep

LEMMA CharactersAppend ==
    ASSUME NEW s \in Seq(Bytes), NEW b \in Bytes
    PROVE  Characters(Append(s, b)) = IF b = Cont THEN Characters(s) ELSE Append(Characters(s), b)
<1> DEFINE t == Append(s, b)
           n == Len(s)
<1>1. n \in Nat /\ Len(t) = n + 1 /\ t[n + 1] = b /\ \A i \in 1..n : t[i] = s[i]
  OBVIOUS
<1> HIDE DEF t, n
<1>2. PICK f : Reads(f, s, n) /\ Characters(s) = f[n]
  BY <1>1, CharactersIs DEF n
<1>3. PICK g : Reads(g, t, n + 1) /\ Characters(t) = g[n + 1]
  BY <1>1, CharactersIs
<1>4. g[n] = f[n]
  BY <1>1, <1>2, <1>3, ReadsAgree
<1>5. g[n + 1] = ReadStep(t, g, n + 1)
  <2>1. n + 1 \in 0..(n + 1)
    BY <1>1
  <2> QED BY <1>3, <2>1, ReadAt
<1> QED BY <1>1, <1>2, <1>3, <1>4, <1>5 DEF ReadStep, t

LEMMA LastByte ==
    ASSUME NEW S, NEW t \in Seq(S), t # <<>>
    PROVE  \E u \in Seq(S), e \in S : t = Append(u, e) /\ Len(u) = Len(t) - 1
<1>1. PICK u \in Seq(S), e \in S : t = Append(u, e)
  BY SequenceEmptyOrAppend
<1>2. Len(u) \in Nat /\ Len(t) = Len(u) + 1
  BY <1>1
<1> QED BY <1>1, <1>2

LEMMA ConcatOfAppend ==
    ASSUME NEW S, NEW a \in Seq(S), NEW b \in Seq(S), NEW x \in S
    PROVE  a \o Append(b, x) = Append(a \o b, x) /\ a \o b \in Seq(S)
<1>1. a \o b \in Seq(S) /\ Append(b, x) \in Seq(S) /\ <<x>> \in Seq(S)
  OBVIOUS
<1>2. Append(b, x) = b \o <<x>> /\ Append(a \o b, x) = (a \o b) \o <<x>>
  BY <1>1, AppendIsConcat
<1>3. (a \o b) \o <<x>> = a \o (b \o <<x>>)
  BY <1>1, ConcatAssociative
<1> QED BY <1>1, <1>2, <1>3

LEMMA CharactersType ==
    ASSUME NEW s \in Seq(Bytes)
    PROVE  Characters(s) \in Seq(Bytes) /\ Len(Characters(s)) <= Len(s)
<1> DEFINE Good(t) == Characters(t) \in Seq(Bytes) /\ Len(Characters(t)) <= Len(t)
           B == {n \in Nat : \E t \in Seq(Bytes) : Len(t) = n /\ ~Good(t)}
<1> SUFFICES ASSUME B # {} PROVE FALSE
  OBVIOUS
<1>1. PICK n \in B : \A k \in B : n <= k
  <2>1. B \in SUBSET Nat
    OBVIOUS
  <2> HIDE DEF B
  <2> QED BY <2>1, LeastNumber
<1>2. PICK t \in Seq(Bytes) : Len(t) = n /\ ~Good(t)
  OBVIOUS
<1>3. t # <<>>
  <2>1. <<>> \in Seq(Bytes) /\ Len(<<>>) = 0
    OBVIOUS
  <2>2. Good(<<>>)
    <3>1. Characters(<<>>) \in Seq(Bytes) /\ Len(Characters(<<>>)) = 0
      BY NoCharacters, <2>1, Zenon
    <3>2. Len(Characters(<<>>)) <= Len(<<>>)
      BY <2>1, <3>1
    <3> QED BY <3>1, <3>2
  <2> HIDE DEF Good
  <2> QED BY <1>2, <2>2
<1>4. PICK u \in Seq(Bytes), b \in Bytes : t = Append(u, b) /\ Len(u) = n - 1
  <2>1. PICK u \in Seq(Bytes), b \in Bytes : t = Append(u, b) /\ Len(u) = Len(t) - 1
    BY <1>3, LastByte
  <2> QED BY <1>2, <2>1
<1>5. Good(u)
  <2>1. n - 1 \in Nat /\ n - 1 \notin B
    <3>1. n \in Nat /\ Len(u) \in Nat
      OBVIOUS
    <3> HIDE DEF B
    <3> QED BY <1>1, <1>4, <3>1
  <2> HIDE DEF Good
  <2> QED BY <1>4, <2>1
<1>6. Characters(t) = IF b = Cont THEN Characters(u) ELSE Append(Characters(u), b)
  BY <1>4, CharactersAppend
<1>7. Good(t)
  <2> HIDE DEF B
  <2> QED BY <1>4, <1>5, <1>6
<1> QED BY <1>2, <1>7

LEMMA CharactersConcat ==
    ASSUME NEW r \in Seq(Bytes), NEW s \in Seq(Bytes)
    PROVE  Characters(r \o s) = Characters(r) \o Characters(s)
<1> DEFINE Good(t) == Characters(r \o t) = Characters(r) \o Characters(t)
           B == {n \in Nat : \E t \in Seq(Bytes) : Len(t) = n /\ ~Good(t)}
<1> SUFFICES ASSUME B # {} PROVE FALSE
  OBVIOUS
<1>1. PICK n \in B : \A k \in B : n <= k
  <2>1. B \in SUBSET Nat
    OBVIOUS
  <2> HIDE DEF B
  <2> QED BY <2>1, LeastNumber
<1>2. PICK t \in Seq(Bytes) : Len(t) = n /\ ~Good(t)
  OBVIOUS
<1>3. t # <<>>
  <2>1. r \o <<>> = r /\ Characters(r) \o <<>> = Characters(r)
    BY CharactersType, ConcatEmptySeq
  <2>2. Good(<<>>)
    BY <2>1, NoCharacters
  <2> HIDE DEF Good
  <2> QED BY <1>2, <2>2
<1>4. PICK u \in Seq(Bytes), b \in Bytes : t = Append(u, b) /\ Len(u) = n - 1
  <2>1. PICK u \in Seq(Bytes), b \in Bytes : t = Append(u, b) /\ Len(u) = Len(t) - 1
    BY <1>3, LastByte
  <2> QED BY <1>2, <2>1
<1>5. Good(u)
  <2>1. n - 1 \in Nat /\ n - 1 \notin B
    <3>1. n \in Nat /\ Len(u) \in Nat
      OBVIOUS
    <3> HIDE DEF B
    <3> QED BY <1>1, <1>4, <3>1
  <2> HIDE DEF Good
  <2> QED BY <1>4, <2>1
<1> HIDE DEF B
<1>6. Characters(t) = IF b = Cont THEN Characters(u) ELSE Append(Characters(u), b)
  BY <1>4, CharactersAppend
<1>7. r \o t = Append(r \o u, b) /\ r \o u \in Seq(Bytes)
  BY <1>4, ConcatOfAppend
<1>8. Characters(r \o t) = IF b = Cont THEN Characters(r \o u) ELSE Append(Characters(r \o u), b)
  BY <1>7, CharactersAppend
<1>9. CASE b # Cont
  <2>1. Characters(r) \in Seq(Bytes) /\ Characters(u) \in Seq(Bytes)
    BY CharactersType
  <2>2. Characters(r) \o Append(Characters(u), b) = Append(Characters(r) \o Characters(u), b)
    BY <2>1, ConcatOfAppend
  <2> QED BY <1>2, <1>5, <1>6, <1>8, <1>9, <2>2
<1>10. CASE b = Cont
  BY <1>2, <1>5, <1>6, <1>8, <1>10
<1> QED BY <1>9, <1>10

(* The characters of the first p bytes. *)
Pre(s, p) == Characters(SubSeq(s, 1, p))

LEMMA Slice ==
    ASSUME NEW s \in Seq(Bytes), NEW p \in 0..Len(s), NEW q \in p..Len(s)
    PROVE  /\ SubSeq(s, p + 1, q) \in Seq(Bytes) /\ Len(SubSeq(s, p + 1, q)) = q - p
           /\ \A i \in 1..(q - p) : SubSeq(s, p + 1, q)[i] = s[p + i]
OBVIOUS

LEMMA Prefix ==
    ASSUME NEW s \in Seq(Bytes), NEW p \in 0..Len(s)
    PROVE  /\ SubSeq(s, 1, p) \in Seq(Bytes) /\ Len(SubSeq(s, 1, p)) = p
           /\ \A i \in 1..p : SubSeq(s, 1, p)[i] = s[i]
OBVIOUS

LEMMA SameSeq ==
    ASSUME NEW S, NEW s \in Seq(S), NEW t \in Seq(S), Len(s) = Len(t),
           \A i \in 1..Len(s) : s[i] = t[i]
    PROVE  s = t
OBVIOUS

LEMMA SplitText ==
    ASSUME NEW s \in Seq(Bytes), NEW p \in 0..Len(s), NEW q \in p..Len(s)
    PROVE  SubSeq(s, 1, q) = SubSeq(s, 1, p) \o SubSeq(s, p + 1, q)
<1> DEFINE a == SubSeq(s, 1, p)
           b == SubSeq(s, p + 1, q)
           d == SubSeq(s, 1, q)
<1>1. /\ a \in Seq(Bytes) /\ Len(a) = p /\ \A i \in 1..p : a[i] = s[i]
      /\ b \in Seq(Bytes) /\ Len(b) = q - p /\ \A i \in 1..(q - p) : b[i] = s[p + i]
      /\ d \in Seq(Bytes) /\ Len(d) = q /\ \A i \in 1..q : d[i] = s[i]
  <2>1. q \in 0..Len(s)
    OBVIOUS
  <2>2. a \in Seq(Bytes) /\ Len(a) = p /\ \A i \in 1..p : a[i] = s[i]
    BY Prefix
  <2>3. d \in Seq(Bytes) /\ Len(d) = q /\ \A i \in 1..q : d[i] = s[i]
    BY <2>1, Prefix
  <2>4. b \in Seq(Bytes) /\ Len(b) = q - p /\ \A i \in 1..(q - p) : b[i] = s[p + i]
    BY Slice
  <2> HIDE DEF a, b, d
  <2> QED BY <2>2, <2>3, <2>4
<1> HIDE DEF a, b, d
<1>2. a \o b \in Seq(Bytes) /\ Len(a \o b) = q
  <2>1. a \o b \in Seq(Bytes) /\ Len(a \o b) = Len(a) + Len(b)
    BY <1>1, ConcatProperties
  <2>2. p + (q - p) = q
    OBVIOUS
  <2> QED BY <1>1, <2>1, <2>2
<1>3. \A i \in 1..q : (a \o b)[i] = s[i]
  BY <1>1
<1>4. d = a \o b
  BY <1>1, <1>2, <1>3, SameSeq
<1> QED BY <1>4 DEF a, b, d

LEMMA WholeText ==
    ASSUME NEW s \in Seq(Bytes)
    PROVE  SubSeq(s, 1, Len(s)) = s
<1> DEFINE d == SubSeq(s, 1, Len(s))
<1>1. Len(s) \in 0..Len(s)
  OBVIOUS
<1>2. d \in Seq(Bytes) /\ Len(d) = Len(s) /\ \A i \in 1..Len(s) : d[i] = s[i]
  BY <1>1, Prefix
<1> HIDE DEF d
<1>3. d = s
  BY <1>2, SameSeq
<1> QED BY <1>3 DEF d

LEMMA PreType ==
    ASSUME NEW s \in Seq(Bytes), NEW p \in 0..Len(s)
    PROVE  Pre(s, p) \in Seq(Bytes) /\ Len(Pre(s, p)) \in 0..p
<1> DEFINE a == SubSeq(s, 1, p)
<1>1. a \in Seq(Bytes) /\ Len(a) = p
  BY Prefix
<1> HIDE DEF a
<1>2. Characters(a) \in Seq(Bytes) /\ Len(Characters(a)) <= p
  BY <1>1, CharactersType
<1>3. Len(Characters(a)) \in Nat
  BY <1>2
<1>4. Pre(s, p) = Characters(a)
  BY DEF Pre, a
<1> QED BY <1>2, <1>3, <1>4

LEMMA PreZero ==
    ASSUME NEW s \in Seq(Bytes)
    PROVE  Pre(s, 0) = <<>> /\ Pre(s, Len(s)) = Characters(s)
<1>1. SubSeq(s, 1, 0) = <<>>
  OBVIOUS
<1> QED BY <1>1, NoCharacters, WholeText DEF Pre

LEMMA PreStep ==
    ASSUME NEW s \in Seq(Bytes), NEW p \in 0..(Len(s) - 1)
    PROVE  Pre(s, p + 1) = IF s[p + 1] = Cont THEN Pre(s, p) ELSE Append(Pre(s, p), s[p + 1])
<1> DEFINE a == SubSeq(s, 1, p)
           d == SubSeq(s, 1, p + 1)
<1>1. /\ a \in Seq(Bytes) /\ Len(a) = p /\ \A i \in 1..p : a[i] = s[i]
      /\ d \in Seq(Bytes) /\ Len(d) = p + 1 /\ \A i \in 1..(p + 1) : d[i] = s[i]
      /\ s[p + 1] \in Bytes
  BY Prefix
<1> HIDE DEF a, d
<1>2. d = Append(a, s[p + 1])
  <2>1. Append(a, s[p + 1]) \in Seq(Bytes) /\ Len(Append(a, s[p + 1])) = p + 1
    BY <1>1
  <2>2. \A i \in 1..(p + 1) : Append(a, s[p + 1])[i] = s[i]
    BY <1>1
  <2> QED BY <1>1, <2>1, <2>2, SameSeq
<1>3. Characters(d) = IF s[p + 1] = Cont THEN Characters(a) ELSE Append(Characters(a), s[p + 1])
  BY <1>1, <1>2, CharactersAppend
<1> QED BY <1>3 DEF Pre, a, d

LEMMA PreSplit ==
    ASSUME NEW s \in Seq(Bytes), NEW p \in 0..Len(s), NEW q \in p..Len(s)
    PROVE  /\ Pre(s, q) = Pre(s, p) \o Characters(SubSeq(s, p + 1, q))
           /\ Len(Pre(s, p)) <= Len(Pre(s, q))
           /\ Pre(s, p) = SubSeq(Pre(s, q), 1, Len(Pre(s, p)))
           /\ Characters(SubSeq(s, p + 1, q))
                  = SubSeq(Pre(s, q), Len(Pre(s, p)) + 1, Len(Pre(s, q)))
<1> DEFINE a == SubSeq(s, 1, p)
           b == SubSeq(s, p + 1, q)
<1>1. a \in Seq(Bytes) /\ b \in Seq(Bytes)
  BY Slice, Prefix
<1>2. SubSeq(s, 1, q) = a \o b
  BY SplitText
<1> HIDE DEF a, b
<1>3. Characters(a \o b) = Characters(a) \o Characters(b)
  BY <1>1, CharactersConcat
<1>4. Characters(a) \in Seq(Bytes) /\ Characters(b) \in Seq(Bytes)
  BY <1>1, CharactersType
<1>5. ASSUME NEW x \in Seq(Bytes), NEW y \in Seq(Bytes)
      PROVE  /\ Len(x) <= Len(x \o y)
             /\ x = SubSeq(x \o y, 1, Len(x))
             /\ y = SubSeq(x \o y, Len(x) + 1, Len(x \o y))
  <2>1. /\ x \o y \in Seq(Bytes) /\ Len(x) \in Nat /\ Len(y) \in Nat
        /\ Len(x \o y) = Len(x) + Len(y)
    OBVIOUS
  <2>2. \A i \in 1..Len(x) : (x \o y)[i] = x[i]
    OBVIOUS
  <2>3. \A i \in 1..Len(y) : (x \o y)[Len(x) + i] = y[i]
    OBVIOUS
  <2>4. x = SubSeq(x \o y, 1, Len(x))
    <3> DEFINE z == x \o y
    <3>1. z \in Seq(Bytes) /\ Len(x) \in 0..Len(z) /\ \A i \in 1..Len(x) : z[i] = x[i]
      BY <2>1, <2>2
    <3> HIDE DEF z
    <3> DEFINE d == SubSeq(z, 1, Len(x))
    <3>3. d \in Seq(Bytes) /\ Len(d) = Len(x) /\ \A i \in 1..Len(x) : d[i] = z[i]
      BY <3>1, Prefix
    <3> HIDE DEF d
    <3>4. d = x
      BY <3>1, <3>3, SameSeq
    <3>2. SubSeq(z, 1, Len(x)) = x
      BY <3>4 DEF d
    <3> QED BY <3>2 DEF z
  <2>5. y = SubSeq(x \o y, Len(x) + 1, Len(x \o y))
    <3> DEFINE z == x \o y
    <3>1. /\ z \in Seq(Bytes) /\ Len(x) \in 0..Len(z) /\ Len(z) \in Len(x)..Len(z)
          /\ Len(z) - Len(x) = Len(y) /\ \A i \in 1..Len(y) : z[Len(x) + i] = y[i]
      BY <2>1, <2>3
    <3> HIDE DEF z
    <3> DEFINE d == SubSeq(z, Len(x) + 1, Len(z))
    <3>3. d \in Seq(Bytes) /\ Len(d) = Len(y) /\ \A i \in 1..Len(y) : d[i] = z[Len(x) + i]
      BY <3>1, Slice
    <3> HIDE DEF d
    <3>4. d = y
      BY <3>1, <3>3, SameSeq
    <3>2. SubSeq(z, Len(x) + 1, Len(z)) = y
      BY <3>4 DEF d
    <3> QED BY <3>2 DEF z
  <2> QED BY <2>1, <2>4, <2>5
<1>6. Pre(s, p) = Characters(a) /\ Pre(s, q) = Characters(a) \o Characters(b)
  BY <1>2, <1>3 DEF Pre, a
<1> HIDE DEF Pre
<1> QED BY <1>4, <1>5, <1>6 DEF b

-----------------------------------------------------------------------------
(* Whole characters. *)

(* A place between two characters, or one of the ends. *)
Boundary(s, p) == p \in 0..Len(s) /\ (p < Len(s) => s[p + 1] # Cont)

(* The bytes after p up to q are one character, and another one follows. *)
OneCharacter(s, p, q) ==
    /\ s[p + 1] # Cont /\ \A j \in (p + 2)..q : s[j] = Cont
    /\ p < q /\ Boundary(s, q)

Whole(s) ==
    /\ Boundary(s, 0)
    /\ \A i \in 1..Len(s) : s[i] # Cont => OneCharacter(s, i - 1, i - 1 + CharByteSize(s[i]))

LEMMA EndInIs ==
    ASSUME NEW s \in Seq(Bytes), NEW p \in 0..Len(s)
    PROVE  /\ EndIn(s, p) \in p..Len(s) /\ Boundary(s, EndIn(s, p))
           /\ \A j \in (p + 1)..EndIn(s, p) : s[j] = Cont
<1> DEFINE S == {Len(s)} \cup {k \in p..(Len(s) - 1) : s[k + 1] # Cont}
<1>1. S \in SUBSET Nat /\ S # {}
  OBVIOUS
<1>2. Min(S) \in S /\ \A x \in S : Min(S) <= x
  <2> HIDE DEF S
  <2> QED BY <1>1, MinOfBounded
<1>3. EndIn(s, p) = Min(S)
  BY DEF EndIn
<1> DEFINE m == Min(S)
<1>4. m \in p..Len(s) /\ Boundary(s, m)
  <2> HIDE DEF m
  <2> SUFFICES ASSUME m \in S PROVE m \in p..Len(s) /\ Boundary(s, m)
    BY <1>2 DEF m
  <2> QED BY DEF Boundary
<1>5. ASSUME NEW j \in (p + 1)..m, s[j] # Cont PROVE FALSE
  <2> HIDE DEF m
  <2>1. j - 1 \in S
    BY <1>4, <1>5
  <2>2. m <= j - 1
    BY <1>2, <2>1 DEF m
  <2> QED BY <1>4, <2>2
<1> QED BY <1>3, <1>4, <1>5

LEMMA EndInUnique ==
    ASSUME NEW s \in Seq(Bytes), NEW p \in 0..Len(s), NEW q \in p..Len(s), Boundary(s, q),
           \A j \in (p + 1)..q : s[j] = Cont
    PROVE  EndIn(s, p) = q
<1> DEFINE m == EndIn(s, p)
<1>1. m \in p..Len(s) /\ Boundary(s, m) /\ \A j \in (p + 1)..m : s[j] = Cont
  BY EndInIs
<1> HIDE DEF m
<1>2. ~(m < q)
  BY <1>1 DEF Boundary
<1>3. ~(q < m)
  BY <1>1 DEF Boundary
<1> QED BY <1>1, <1>2, <1>3 DEF m

LEMMA UTF8IsWhole ==
    ASSUME NEW s \in Seq(Bytes)
    PROVE  IsUTF8(s) <=> Whole(s)
<1>1. ASSUME IsUTF8(s) PROVE Whole(s)
  <2>1. Boundary(s, 0)
    BY <1>1 DEF IsUTF8, Boundary
  <2>2. ASSUME NEW i \in 1..Len(s), s[i] # Cont
        PROVE  OneCharacter(s, i - 1, i - 1 + CharByteSize(s[i]))
    <3> DEFINE q == i - 1 + CharByteSize(s[i])
    <3>1. EndIn(s, i) = q /\ q > i - 1
      BY <1>1, <2>2, SizeOfByte DEF IsUTF8
    <3>2. i \in 0..Len(s)
      OBVIOUS
    <3>3. EndIn(s, i) \in i..Len(s) /\ Boundary(s, EndIn(s, i)) /\ \A j \in (i + 1)..EndIn(s, i) : s[j] = Cont
      BY <3>2, EndInIs
    <3> HIDE DEF q
    <3> QED BY <2>2, <3>1, <3>3 DEF OneCharacter, q
  <2> QED BY <2>1, <2>2 DEF Whole
<1>2. ASSUME Whole(s) PROVE IsUTF8(s)
  <2>1. ASSUME NEW i \in 1..Len(s), s[i] # Cont
        PROVE  EndIn(s, i) = i - 1 + CharByteSize(s[i])
    <3> DEFINE q == i - 1 + CharByteSize(s[i])
    <3>1. OneCharacter(s, i - 1, q)
      BY <1>2, <2>1 DEF Whole
    <3>2. q \in Nat /\ i <= q
      BY SizeOfByte
    <3> HIDE DEF q
    <3>3. q \in i..Len(s) /\ Boundary(s, q) /\ \A j \in (i + 1)..q : s[j] = Cont /\ i \in 0..Len(s)
      BY <3>1, <3>2 DEF OneCharacter, Boundary
    <3>4. EndIn(s, i) = q
      BY <3>3, EndInUnique
    <3> QED BY <3>4 DEF q
  <2>2. Len(s) # 0 => s[1] # Cont
    BY <1>2 DEF Whole, Boundary
  <2> QED BY <2>1, <2>2 DEF IsUTF8
<1> QED BY <1>1, <1>2

(* From a place between characters one character leads to the next. *)
LEMMA NextPlace ==
    ASSUME NEW s \in Seq(Bytes), Whole(s), NEW p, Boundary(s, p), p < Len(s)
    PROVE  LET q == p + CharByteSize(s[p + 1])
           IN  /\ q \in (p + 1)..Len(s) /\ OneCharacter(s, p, q) /\ Boundary(s, q)
               /\ EndIn(s, p + 1) = q
               /\ \A r \in 0..Len(s) : Boundary(s, r) /\ p < r => q <= r
<1> DEFINE q == p + CharByteSize(s[p + 1])
<1>1. p \in Nat /\ p + 1 \in 1..Len(s) /\ s[p + 1] # Cont /\ p + 1 - 1 = p
  BY DEF Boundary
<1>2. OneCharacter(s, p, q)
  BY <1>1 DEF Whole
<1>3. q \in Nat
  BY <1>1, SizeOfByte
<1> HIDE DEF q
<1>4. q \in (p + 1)..Len(s) /\ Boundary(s, q)
  BY <1>1, <1>2, <1>3 DEF OneCharacter, Boundary
<1>5. ASSUME NEW r \in 0..Len(s), Boundary(s, r), p < r, r < q PROVE FALSE
  <2>1. r + 1 \in (p + 2)..q /\ s[r + 1] # Cont
    BY <1>1, <1>4, <1>5 DEF Boundary
  <2> QED BY <1>2, <2>1 DEF OneCharacter
<1>6. EndIn(s, p + 1) = q
  <2>1. p + 1 \in 0..Len(s) /\ \A j \in (p + 1 + 1)..q : s[j] = Cont
    BY <1>1, <1>2 DEF OneCharacter
  <2> QED BY <1>4, <2>1, EndInUnique
<1> QED BY <1>2, <1>4, <1>5, <1>6 DEF q

(* and one character back. *)
LEMMA PreviousPlace ==
    ASSUME NEW s \in Seq(Bytes), Whole(s), NEW p, Boundary(s, p), 0 < p,
           NEW q \in 0..(p - 1), q = 0 \/ s[q + 1] # Cont,
           \A k \in (q + 1)..(p - 1) : s[k + 1] = Cont
    PROVE  Boundary(s, q) /\ OneCharacter(s, q, p)
<1>1. p \in 1..Len(s) /\ q < Len(s)
  BY DEF Boundary
<1>2. Boundary(s, q)
  BY <1>1 DEF Whole, Boundary
<1> DEFINE r == q + CharByteSize(s[q + 1])
<1>3. r \in (q + 1)..Len(s) /\ OneCharacter(s, q, r) /\ r <= p /\ Boundary(s, r)
  BY <1>1, <1>2, NextPlace
<1> HIDE DEF r
<1>4. ~(r < p)
  BY <1>1, <1>3 DEF Boundary
<1>5. r = p
  BY <1>1, <1>3, <1>4
<1> QED BY <1>2, <1>3, <1>5

LEMMA OneMore ==
    ASSUME NEW s \in Seq(Bytes), NEW p \in 0..Len(s), NEW q \in 0..Len(s), OneCharacter(s, p, q)
    PROVE  Pre(s, q) = Append(Pre(s, p), s[p + 1]) /\ Len(Pre(s, q)) = Len(Pre(s, p)) + 1
<1> DEFINE B == {k \in Nat : p + 1 + k <= q /\ Pre(s, p + 1 + k) # Append(Pre(s, p), s[p + 1])}
<1>1. B = {}
  <2> SUFFICES ASSUME B # {} PROVE FALSE
    OBVIOUS
  <2>1. PICK k \in B : \A j \in B : k <= j
    <3>1. B \in SUBSET Nat
      OBVIOUS
    <3> HIDE DEF B
    <3> QED BY <3>1, LeastNumber
  <2>2. k # 0
    <3>1. p \in 0..(Len(s) - 1)
      BY DEF OneCharacter, Boundary
    <3>2. Pre(s, p + 1) = Append(Pre(s, p), s[p + 1])
      BY <3>1, PreStep DEF OneCharacter
    <3>3. p + 1 + 0 = p + 1
      OBVIOUS
    <3> QED BY <3>2, <3>3
  <2>3. k - 1 \in Nat /\ k - 1 \notin B /\ p + 1 + (k - 1) <= q
    <3>1. k \in Nat /\ p + 1 + k <= q
      OBVIOUS
    <3> HIDE DEF B
    <3> QED BY <2>1, <2>2, <3>1
  <2>4. Pre(s, p + 1 + (k - 1)) = Append(Pre(s, p), s[p + 1])
    BY <2>3
  <2> DEFINE j == p + k
  <2>5. j \in 0..(Len(s) - 1) /\ j + 1 \in (p + 2)..q /\ j = p + 1 + (k - 1) /\ j + 1 = p + 1 + k
    BY <2>1, <2>2
  <2> HIDE DEF j
  <2>6. Pre(s, j + 1) = Pre(s, j)
    BY <2>5, PreStep DEF OneCharacter
  <2> QED BY <2>4, <2>5, <2>6
<1>2. Pre(s, q) = Append(Pre(s, p), s[p + 1])
  <2>1. q - p - 1 \in Nat /\ p + 1 + (q - p - 1) = q
    BY DEF OneCharacter
  <2>2. q - p - 1 \notin B
    BY <1>1
  <2> QED BY <2>1, <2>2
<1>3. Pre(s, p) \in Seq(Bytes) /\ s[p + 1] \in Bytes
  BY PreType DEF OneCharacter, Boundary
<1> QED BY <1>2, <1>3

-----------------------------------------------------------------------------
(* The loops of UTF8Util: from place i on to nx[i], until a place of D. *)
WalkStep(f, D, V, nx, c, i) == IF i \in D THEN V[i] ELSE c + f[nx[i]]

Walk(f, l, m, D, V, nx, c) ==
    f \in [l..m -> Nat] /\ \A i \in l..m : f[i] = WalkStep(f, D, V, nx, c, i)

LEMMA WalkExists ==
    ASSUME NEW m \in Nat, NEW D, m \in D, NEW V \in [0..m -> Nat], NEW c \in Nat,
           NEW nx \in [0..m -> Nat], \A i \in 0..m : i \notin D => i < nx[i] /\ nx[i] <= m
    PROVE  \E f : Walk(f, 0, m, D, V, nx, c)
<1> DEFINE B == {k \in Nat : k <= m /\ ~\E f : Walk(f, m - k, m, D, V, nx, c)}
<1>1. B = {}
  <2> SUFFICES ASSUME B # {} PROVE FALSE
    OBVIOUS
  <2>1. PICK k \in B : \A j \in B : k <= j
    <3>1. B \in SUBSET Nat
      OBVIOUS
    <3> HIDE DEF B
    <3> QED BY <3>1, LeastNumber
  <2>2. k \in Nat /\ k <= m /\ ~\E f : Walk(f, m - k, m, D, V, nx, c)
    OBVIOUS
  <2>3. CASE k = 0
    <3> DEFINE f == [i \in m..m |-> V[i]]
    <3>1. Walk(f, m, m, D, V, nx, c)
      BY DEF Walk, WalkStep
    <3>2. m - k = m
      BY <2>3
    <3> QED BY <2>2, <3>1, <3>2
  <2>4. CASE k # 0
    <3>1. k - 1 \in Nat /\ k - 1 <= m /\ k - 1 \notin B
      <4> HIDE DEF B
      <4> QED BY <2>1, <2>2, <2>4
    <3>2. PICK f : Walk(f, m - (k - 1), m, D, V, nx, c)
      BY <3>1
    <3> DEFINE l == m - k
    <3>3. l \in 0..m /\ l < m /\ m - (k - 1) = l + 1
      BY <2>2, <2>4
    <3> HIDE DEF l, B
    <3>4. f \in [(l + 1)..m -> Nat] /\ \A i \in (l + 1)..m : f[i] = WalkStep(f, D, V, nx, c, i)
      BY <3>2, <3>3 DEF Walk
    <3>5. WalkStep(f, D, V, nx, c, l) \in Nat
      <4>1. CASE l \in D
        BY <3>3, <4>1 DEF WalkStep
      <4>2. CASE l \notin D
        <5>1. nx[l] \in (l + 1)..m
          BY <3>3, <4>2
        <5>2. f[nx[l]] \in Nat
          BY <3>4, <5>1
        <5>3. WalkStep(f, D, V, nx, c, l) = c + f[nx[l]]
          BY <4>2 DEF WalkStep
        <5> QED BY <5>2, <5>3
      <4> QED BY <4>1, <4>2
    <3> DEFINE g == [i \in l..m |-> IF i = l THEN WalkStep(f, D, V, nx, c, l) ELSE f[i]]
    <3>6. g \in [l..m -> Nat]
      <4>1. \A i \in l..m : i # l => i \in (l + 1)..m
        BY <3>3
      <4> QED BY <3>4, <3>5, <4>1
    <3>7. \A i \in l..m : WalkStep(g, D, V, nx, c, i) = WalkStep(f, D, V, nx, c, i)
      <4>1. ASSUME NEW i \in l..m, i \notin D PROVE g[nx[i]] = f[nx[i]]
        <5>1. nx[i] \in l..m /\ nx[i] # l
          BY <3>3, <4>1
        <5> QED BY <5>1
      <4> HIDE DEF g
      <4> QED BY <4>1 DEF WalkStep
    <3>8. \A i \in l..m : g[i] = WalkStep(f, D, V, nx, c, i)
      <4> SUFFICES ASSUME NEW i \in l..m PROVE g[i] = WalkStep(f, D, V, nx, c, i)
        OBVIOUS
      <4>1. i # l => i \in (l + 1)..m
        BY <3>3
      <4> QED BY <3>4, <4>1
    <3> HIDE DEF g
    <3>9. Walk(g, l, m, D, V, nx, c)
      BY <3>6, <3>7, <3>8 DEF Walk
    <3> QED BY <2>2, <3>9 DEF l
  <2> QED BY <2>3, <2>4
<1>2. m \notin B
  <2> HIDE DEF B
  <2> QED BY <1>1
<1>3. m <= m /\ m - m = 0
  OBVIOUS
<1> QED BY <1>2, <1>3

(* What the recursive function of GetLength is. *)
LengthStep(s, n, f, i) == IF i >= n THEN 0 ELSE 1 + f[i + CharByteSize(s[i + 1])]

LEMMA GetLengthIs ==
    ASSUME NEW s, NEW n \in Nat
    PROVE  \E f : /\ GetLength(s, n) = f[0]
                  /\ \A i \in 0..(n + 3) : f[i] = LengthStep(s, n, f, i)
<1> DEFINE m == n + 3
           D == {i \in 0..m : i >= n}
           V == [i \in 0..m |-> 0]
           nx == [i \in 0..m |-> i + CharByteSize(s[i + 1])]
<1>1. m \in Nat /\ m \in D /\ V \in [0..m -> Nat]
  OBVIOUS
<1>2. nx \in [0..m -> Nat] /\ \A i \in 0..m : i \notin D => i < nx[i] /\ nx[i] <= m
  <2> SUFFICES ASSUME NEW i \in 0..m
               PROVE  nx[i] \in Nat /\ (i \notin D => i < nx[i] /\ nx[i] <= m)
    OBVIOUS
  <2>1. nx[i] = i + CharByteSize(s[i + 1])
    OBVIOUS
  <2> QED BY <2>1, SizeOfByte
<1>3. \E f : Walk(f, 0, m, D, V, nx, 1)
  <2> HIDE DEF m, D, V, nx
  <2> QED BY <1>1, <1>2, WalkExists
<1>4. PICK f : Walk(f, 0, m, D, V, nx, 1)
  BY <1>3
<1>5. f \in [0..(n + 3) -> Nat]
  BY <1>4 DEF Walk
<1>6. \A i \in 0..(n + 3) : f[i] = LengthStep(s, n, f, i)
  BY <1>4 DEF Walk, WalkStep, LengthStep
<1> HIDE DEF m, D, V, nx
<1>7. f = [i \in 0..(n + 3) |-> LengthStep(s, n, f, i)]
  BY <1>5, <1>6
<1> DEFINE g == CHOOSE h : h = [i \in 0..(n + 3) |-> LengthStep(s, n, h, i)]
<1>8. g = [i \in 0..(n + 3) |-> LengthStep(s, n, g, i)]
  BY <1>7, Zenon
<1>9. GetLength(s, n) = g[0]
  BY Zenon DEF GetLength, LengthStep
<1>10. \A i \in 0..(n + 3) : g[i] = LengthStep(s, n, g, i)
  <2> HIDE DEF g
  <2> QED BY <1>8
<1> QED BY <1>9, <1>10

(* getLength counts the characters before a place between two of them. *)
LEMMA GetLengthCounts ==
    ASSUME NEW s \in Seq(Bytes), Whole(s), NEW n, Boundary(s, n)
    PROVE  GetLength(s, n) = Len(Pre(s, n))
<1>1. n \in Nat /\ n <= Len(s)
  BY DEF Boundary
<1>2. PICK f : /\ GetLength(s, n) = f[0]
               /\ \A i \in 0..(n + 3) : f[i] = LengthStep(s, n, f, i)
  BY <1>1, GetLengthIs
<1> DEFINE B == {k \in Nat : /\ k <= n /\ Boundary(s, n - k)
                             /\ f[n - k] # Len(Pre(s, n)) - Len(Pre(s, n - k))}
<1>3. B = {}
  <2> SUFFICES ASSUME B # {} PROVE FALSE
    OBVIOUS
  <2>1. PICK k \in B : \A j \in B : k <= j
    <3>1. B \in SUBSET Nat
      OBVIOUS
    <3> HIDE DEF B
    <3> QED BY <3>1, LeastNumber
  <2> DEFINE p == n - k
  <2>2. k \in Nat /\ p \in 0..n /\ k = n - p /\ Boundary(s, p)
    BY <1>1
  <2>3. f[p] # Len(Pre(s, n)) - Len(Pre(s, p))
    OBVIOUS
  <2> HIDE DEF p
  <2>4. f[p] = LengthStep(s, n, f, p)
    BY <1>1, <1>2, <2>2
  <2>5. Len(Pre(s, n)) \in Nat /\ Len(Pre(s, p)) \in Nat
    BY <1>1, <2>2, PreType
  <2>6. CASE p = n
    BY <1>1, <2>3, <2>4, <2>5, <2>6 DEF LengthStep
  <2>7. CASE p < n
    <3> DEFINE q == p + CharByteSize(s[p + 1])
    <3>1. q \in (p + 1)..Len(s) /\ OneCharacter(s, p, q) /\ Boundary(s, q) /\ q <= n
      <4>1. n \in 0..Len(s) /\ p < Len(s)
        BY <1>1, <2>2, <2>7 DEF Boundary
      <4>2. /\ q \in (p + 1)..Len(s) /\ OneCharacter(s, p, q) /\ Boundary(s, q)
            /\ \A r \in 0..Len(s) : Boundary(s, r) /\ p < r => q <= r
        BY <2>2, <4>1, NextPlace
      <4> HIDE DEF q
      <4> QED BY <1>1, <2>7, <4>1, <4>2
    <3>2. f[p] = 1 + f[q]
      BY <1>1, <2>2, <2>4, <2>7 DEF LengthStep
    <3> HIDE DEF q
    <3>3. n - q \in Nat /\ n - q <= n /\ n - q < k /\ n - (n - q) = q
      BY <1>1, <2>2, <3>1
    <3>4. n - q \notin B
      <4> HIDE DEF B
      <4> QED BY <2>1, <2>2, <3>3
    <3>5. f[q] = Len(Pre(s, n)) - Len(Pre(s, q))
      BY <3>1, <3>3, <3>4
    <3>6. Len(Pre(s, q)) = Len(Pre(s, p)) + 1
      BY <1>1, <2>2, <3>1, OneMore
    <3> QED BY <2>3, <2>5, <3>2, <3>5, <3>6
  <2> QED BY <1>1, <2>2, <2>6, <2>7
<1>4. n \notin B /\ n - n = 0 /\ n <= n
  <2> HIDE DEF B
  <2> QED BY <1>1, <1>3
<1>5. f[0] = Len(Pre(s, n)) - Len(Pre(s, 0))
  BY <1>1, <1>4 DEF Whole
<1>6. Len(Pre(s, 0)) = 0 /\ Len(Pre(s, n)) \in Nat
  BY <1>1, PreZero, PreType
<1> QED BY <1>2, <1>5, <1>6

(* What the recursive function of GetBytePosFromUTF is. *)
PosStep(s, utf, f, i) ==
    IF i >= Len(s) THEN GetLength(s, Len(s))
    ELSE IF GetLength(s, i) + 1 = utf THEN i + CharByteSize(s[i + 1])
         ELSE f[i + CharByteSize(s[i + 1])]

LEMMA GetLengthNat ==
    ASSUME NEW s, NEW n \in Nat
    PROVE  GetLength(s, n) \in Nat
<1>1. PICK f : /\ GetLength(s, n) = f[0]
               /\ \A i \in 0..(n + 3) : f[i] = LengthStep(s, n, f, i)
  BY GetLengthIs
<1> DEFINE B == {k \in Nat : k <= n + 3 /\ f[n + 3 - k] \notin Nat}
<1>2. B = {}
  <2> SUFFICES ASSUME B # {} PROVE FALSE
    OBVIOUS
  <2>1. PICK k \in B : \A j \in B : k <= j
    <3>1. B \in SUBSET Nat
      OBVIOUS
    <3> HIDE DEF B
    <3> QED BY <3>1, LeastNumber
  <2> DEFINE p == n + 3 - k
  <2>2. k \in Nat /\ p \in 0..(n + 3) /\ k = n + 3 - p /\ f[p] \notin Nat
    OBVIOUS
  <2> HIDE DEF p
  <2>3. f[p] = LengthStep(s, n, f, p)
    BY <1>1, <2>2
  <2>4. p < n /\ f[p] = 1 + f[p + CharByteSize(s[p + 1])]
    BY <2>2, <2>3 DEF LengthStep
  <2> DEFINE q == p + CharByteSize(s[p + 1])
  <2>5. q \in 0..(n + 3) /\ p < q
    BY <2>2, <2>4, SizeOfByte
  <2> HIDE DEF q
  <2>6. n + 3 - q \in Nat /\ n + 3 - q <= n + 3 /\ n + 3 - q < k /\ n + 3 - (n + 3 - q) = q
    BY <2>2, <2>5
  <2>7. n + 3 - q \notin B
    <3> HIDE DEF B
    <3> QED BY <2>1, <2>2, <2>6
  <2>8. f[q] \in Nat
    BY <2>6, <2>7
  <2> QED BY <2>2, <2>4, <2>8 DEF q
<1>3. n + 3 \notin B /\ n + 3 - (n + 3) = 0 /\ n + 3 \in Nat
  <2> HIDE DEF B
  <2> QED BY <1>2
<1> QED BY <1>1, <1>3

LEMMA GetBytePosIs ==
    ASSUME NEW s \in Seq(Bytes), NEW utf \in Nat, utf # 0
    PROVE  \E f : /\ GetBytePosFromUTF(s, utf) = f[0]
                  /\ \A i \in 0..(Len(s) + 3) : f[i] = PosStep(s, utf, f, i)
<1> DEFINE n == Len(s)
<1>1. n \in Nat
  OBVIOUS
<1> HIDE DEF n
<1> DEFINE m == n + 3
           D == {i \in 0..m : i >= n \/ GetLength(s, i) + 1 = utf}
           V == [i \in 0..m |-> IF i >= n THEN GetLength(s, n) ELSE i + CharByteSize(s[i + 1])]
           nx == [i \in 0..m |-> i + CharByteSize(s[i + 1])]
<1>3. m \in Nat /\ m \in D /\ V \in [0..m -> Nat]
  <2>1. GetLength(s, n) \in Nat
    BY <1>1, GetLengthNat
  <2>2. ASSUME NEW i \in 0..m PROVE V[i] \in Nat
    <3>1. V[i] = IF i >= n THEN GetLength(s, n) ELSE i + CharByteSize(s[i + 1])
      OBVIOUS
    <3>2. i + CharByteSize(s[i + 1]) \in Nat
      BY <1>1, SizeOfByte
    <3> HIDE DEF V
    <3> QED BY <2>1, <3>1, <3>2
  <2>3. m \in Nat /\ m >= n
    BY <1>1
  <2>4. V \in [0..m -> Nat]
    BY <2>2
  <2>5. m \in 0..m
    BY <2>3
  <2> QED BY <2>3, <2>4, <2>5
<1>4. nx \in [0..m -> Nat] /\ \A i \in 0..m : i \notin D => i < nx[i] /\ nx[i] <= m
  <2> SUFFICES ASSUME NEW i \in 0..m
               PROVE  nx[i] \in Nat /\ (i \notin D => i < nx[i] /\ nx[i] <= m)
    OBVIOUS
  <2>1. nx[i] = i + CharByteSize(s[i + 1])
    OBVIOUS
  <2>2. i \notin D => i < n
    BY <1>1
  <2>3. CharByteSize(s[i + 1]) \in {1, 2, 3, 4}
    BY SizeOfByte
  <2> HIDE DEF nx, D
  <2> QED BY <1>1, <2>1, <2>2, <2>3
<1>5. \E f : Walk(f, 0, m, D, V, nx, 0)
  <2> HIDE DEF m, D, V, nx
  <2> QED BY <1>3, <1>4, WalkExists
<1>6. PICK f : Walk(f, 0, m, D, V, nx, 0)
  BY <1>5
<1>7. f \in [0..m -> Nat]
  BY <1>6 DEF Walk
<1>8. ASSUME NEW i \in 0..m PROVE f[i] = PosStep(s, utf, f, i)
  <2>1. f[i] = WalkStep(f, D, V, nx, 0, i)
    BY <1>6 DEF Walk
  <2>2. CASE i >= n
    <3>1. i \in D /\ V[i] = GetLength(s, n)
      BY <2>2
    <3> HIDE DEF m, D, V, nx
    <3> QED BY <2>1, <2>2, <3>1 DEF WalkStep, PosStep, n
  <2>3. CASE ~(i >= n) /\ GetLength(s, i) + 1 = utf
    <3>1. i \in D /\ V[i] = i + CharByteSize(s[i + 1])
      BY <2>3
    <3> HIDE DEF m, D, V, nx
    <3> QED BY <2>1, <2>3, <3>1 DEF WalkStep, PosStep, n
  <2>4. CASE ~(i >= n) /\ GetLength(s, i) + 1 # utf
    <3>1. i \notin D /\ nx[i] = i + CharByteSize(s[i + 1])
      BY <2>4
    <3>2. nx[i] \in 0..m
      <4> HIDE DEF nx, D, V
      <4> QED BY <1>3, <1>4, <3>1
    <3>3. f[nx[i]] \in Nat
      BY <1>7, <3>2
    <3> HIDE DEF m, D, V, nx
    <3> QED BY <2>1, <2>4, <3>1, <3>3 DEF WalkStep, PosStep, n
  <2> QED BY <2>2, <2>3, <2>4
<1> HIDE DEF D, V, nx
<1>9. f = [i \in 0..(Len(s) + 3) |-> PosStep(s, utf, f, i)]
  BY <1>7, <1>8 DEF n
<1> DEFINE g == CHOOSE h : h = [i \in 0..(Len(s) + 3) |-> PosStep(s, utf, h, i)]
<1>10. g = [i \in 0..(Len(s) + 3) |-> PosStep(s, utf, g, i)]
  BY <1>9, Zenon
<1>11. GetBytePosFromUTF(s, utf) = g[0]
  BY Zenon DEF GetBytePosFromUTF, PosStep
<1>12. \A i \in 0..(Len(s) + 3) : g[i] = PosStep(s, utf, g, i)
  <2> HIDE DEF g
  <2> QED BY <1>10
<1> QED BY <1>11, <1>12

(* getBytePosFromUTF finds the place behind that many characters; past the end it
   is the number of characters. *)
Found(s, utf, q) ==
    IF utf <= Len(Characters(s))
    THEN Boundary(s, q) /\ Len(Pre(s, q)) = utf
    ELSE q = Len(Characters(s))

LEMMA GetBytePosFinds ==
    ASSUME NEW s \in Seq(Bytes), Whole(s), NEW utf \in Nat
    PROVE  Found(s, utf, GetBytePosFromUTF(s, utf))
<1> DEFINE n == Len(s)
           C == Len(Characters(s))
<1>1. n \in Nat /\ C \in Nat /\ Len(Pre(s, n)) = C /\ GetLength(s, n) = C /\ Boundary(s, n)
  <2>1. n \in Nat /\ Boundary(s, n)
    BY DEF Boundary
  <2>2. Characters(s) \in Seq(Bytes) /\ Pre(s, n) = Characters(s)
    BY CharactersType, PreZero
  <2>3. GetLength(s, n) = Len(Pre(s, n))
    <3> HIDE DEF n
    <3> QED BY <2>1, GetLengthCounts
  <2> QED BY <2>1, <2>2, <2>3
<1>2. CASE utf = 0
  <2>1. GetBytePosFromUTF(s, utf) = 0
    BY <1>2 DEF GetBytePosFromUTF
  <2>2. Len(Pre(s, 0)) = 0
    BY PreZero
  <2> QED BY <1>1, <1>2, <2>1, <2>2 DEF Found, Whole
<1>3. CASE utf # 0
  <2>1. PICK f : /\ GetBytePosFromUTF(s, utf) = f[0]
                 /\ \A i \in 0..(n + 3) : f[i] = PosStep(s, utf, f, i)
    BY <1>3, GetBytePosIs
  <2> HIDE DEF n, C
  <2> DEFINE B == {k \in Nat : /\ k <= n /\ Boundary(s, n - k) /\ Len(Pre(s, n - k)) < utf
                               /\ ~Found(s, utf, f[n - k])}
  <2>2. B = {}
    <3> SUFFICES ASSUME B # {} PROVE FALSE
      OBVIOUS
    <3>1. PICK k \in B : \A j \in B : k <= j
      <4>1. B \in SUBSET Nat
        OBVIOUS
      <4> HIDE DEF B
      <4> QED BY <4>1, LeastNumber
    <3> DEFINE p == n - k
    <3>2. /\ k \in Nat /\ p \in 0..n /\ k = n - p
          /\ Boundary(s, p) /\ Len(Pre(s, p)) < utf /\ ~Found(s, utf, f[p])
      BY <1>1
    <3> HIDE DEF p
    <3>3. f[p] = PosStep(s, utf, f, p)
      BY <1>1, <2>1, <3>2
    <3>4. CASE p = n
      BY <1>1, <3>2, <3>3, <3>4 DEF PosStep, Found, n, C
    <3>5. CASE p < n
      <4> DEFINE q == p + CharByteSize(s[p + 1])
      <4>1. q \in (p + 1)..n /\ OneCharacter(s, p, q) /\ Boundary(s, q)
        BY <1>1, <3>2, <3>5, NextPlace DEF n
      <4>2. GetLength(s, p) = Len(Pre(s, p))
        BY <3>2, GetLengthCounts
      <4>3. f[p] = IF Len(Pre(s, p)) + 1 = utf THEN q ELSE f[q]
        BY <3>2, <3>3, <3>5, <4>2 DEF PosStep, n
      <4> HIDE DEF q
      <4>4. Len(Pre(s, q)) = Len(Pre(s, p)) + 1
        BY <1>1, <3>2, <4>1, OneMore DEF n
      <4>5. Len(Pre(s, q)) <= C /\ Len(Pre(s, q)) \in Nat /\ Len(Pre(s, p)) \in Nat
        <5>1. q \in 0..Len(s) /\ p \in 0..Len(s) /\ n \in q..Len(s)
          BY <1>1, <3>2, <4>1 DEF n
        <5> QED BY <1>1, <5>1, PreSplit, PreType
      <4>6. CASE Len(Pre(s, p)) + 1 = utf
        BY <1>1, <3>2, <4>1, <4>3, <4>4, <4>5, <4>6 DEF Found, C
      <4>7. CASE Len(Pre(s, p)) + 1 # utf
        <5>1. n - q \in Nat /\ n - q <= n /\ n - q < k /\ n - (n - q) = q
          BY <1>1, <3>2, <4>1
        <5>2. n - q \notin B
          <6> HIDE DEF B
          <6> QED BY <3>1, <3>2, <5>1
        <5>3. Len(Pre(s, q)) < utf
          BY <3>2, <4>4, <4>5, <4>7
        <5>4. Found(s, utf, f[q])
          BY <4>1, <5>1, <5>2, <5>3
        <5> QED BY <3>2, <4>3, <4>7, <5>4
      <4> QED BY <4>6, <4>7
    <3> QED BY <1>1, <3>2, <3>4, <3>5
  <2>3. n \notin B /\ n - n = 0 /\ n <= n
    <3> HIDE DEF B
    <3> QED BY <1>1, <2>2
  <2>4. Boundary(s, 0) /\ Len(Pre(s, 0)) < utf
    BY <1>3, PreZero DEF Whole
  <2>5. Found(s, utf, f[0])
    BY <1>1, <2>3, <2>4
  <2> QED BY <2>1, <2>5
<1> QED BY <1>2, <1>3

-----------------------------------------------------------------------------
(* Cutting and joining texts. *)
LEMMA CutWhole ==
    ASSUME NEW s \in Seq(Bytes), Whole(s), NEW p, Boundary(s, p)
    PROVE  Whole(SubSeq(s, 1, p)) /\ Whole(SubSeq(s, p + 1, Len(s)))
<1>1. p \in 0..Len(s) /\ Len(s) \in p..Len(s)
  BY DEF Boundary
<1>2. ASSUME NEW i \in 1..Len(s), s[i] # Cont
      PROVE  LET q == i - 1 + CharByteSize(s[i])
             IN  /\ q \in i..Len(s) /\ \A j \in (i + 1)..q : s[j] = Cont
                 /\ q < Len(s) => s[q + 1] # Cont
                 /\ i <= p => q <= p
  <2> DEFINE q == i - 1 + CharByteSize(s[i])
  <2>1. Boundary(s, i - 1) /\ i - 1 < Len(s) /\ i - 1 + 1 = i
    BY <1>2 DEF Boundary
  <2>2. q \in i..Len(s) /\ OneCharacter(s, i - 1, q)
    BY <2>1, NextPlace
  <2>3. i <= p => q <= p
    BY <1>1, <2>1, NextPlace
  <2> HIDE DEF q
  <2>4. i - 1 + 2 = i + 1
    OBVIOUS
  <2> QED BY <2>2, <2>3, <2>4 DEF OneCharacter, Boundary, q
<1>3. Whole(SubSeq(s, 1, p))
  <2> DEFINE a == SubSeq(s, 1, p)
  <2>1. a \in Seq(Bytes) /\ Len(a) = p /\ \A i \in 1..p : a[i] = s[i]
    BY <1>1, Prefix
  <2> HIDE DEF a
  <2>2. Boundary(a, 0)
    BY <1>1, <2>1 DEF Whole, Boundary
  <2>3. ASSUME NEW i \in 1..p, a[i] # Cont
        PROVE  OneCharacter(a, i - 1, i - 1 + CharByteSize(a[i]))
    <3> DEFINE q == i - 1 + CharByteSize(s[i])
    <3>1. a[i] = s[i] /\ i \in 1..Len(s)
      BY <1>1, <2>1
    <3>2. /\ q \in i..p /\ \A j \in (i + 1)..q : s[j] = Cont
          /\ q < Len(s) => s[q + 1] # Cont
      BY <1>1, <1>2, <2>3, <3>1
    <3> HIDE DEF q
    <3>3. OneCharacter(a, i - 1, q)
      BY <1>1, <2>1, <2>3, <3>2 DEF OneCharacter, Boundary
    <3> QED BY <3>1, <3>3 DEF q
  <2>4. Whole(a)
    BY <2>1, <2>2, <2>3 DEF Whole
  <2> QED BY <2>4 DEF a
<1>4. Whole(SubSeq(s, p + 1, Len(s)))
  <2> DEFINE b == SubSeq(s, p + 1, Len(s))
             n == Len(s) - p
  <2>1. b \in Seq(Bytes) /\ Len(b) = n /\ \A i \in 1..n : b[i] = s[p + i]
    BY <1>1, Slice
  <2>2. n \in Nat /\ Len(s) = p + n
    BY <1>1
  <2> HIDE DEF b, n
  <2>3. Boundary(b, 0)
    BY <1>1, <2>1, <2>2 DEF Boundary
  <2>4. ASSUME NEW i \in 1..n, b[i] # Cont
        PROVE  OneCharacter(b, i - 1, i - 1 + CharByteSize(b[i]))
    <3> DEFINE q == i - 1 + CharByteSize(s[p + i])
    <3>1. b[i] = s[p + i] /\ p + i \in 1..Len(s)
      BY <1>1, <2>1, <2>2
    <3>2. /\ p + q \in (p + i)..Len(s) /\ \A j \in (p + i + 1)..(p + q) : s[j] = Cont
          /\ p + q < Len(s) => s[p + q + 1] # Cont
      <4> DEFINE e == p + i
      <4>1. p + q = e - 1 + CharByteSize(s[e])
        BY <1>1, SizeOfByte
      <4>2. e \in 1..Len(s) /\ s[e] # Cont
        BY <2>4, <3>1
      <4> HIDE DEF q, e
      <4>3. /\ p + q \in e..Len(s) /\ \A j \in (e + 1)..(p + q) : s[j] = Cont
            /\ p + q < Len(s) => s[p + q + 1] # Cont
        BY <1>2, <4>1, <4>2
      <4> QED BY <4>3 DEF e
    <3>3. q \in i..n
      <4>1. q \in Nat
        BY SizeOfByte
      <4> HIDE DEF q
      <4> QED BY <1>1, <2>2, <3>2, <4>1
    <3> HIDE DEF q
    <3>4. \A j \in (i + 1)..q : b[j] = Cont
      <4> SUFFICES ASSUME NEW j \in (i + 1)..q PROVE b[j] = Cont
        OBVIOUS
      <4>1. j \in 1..n /\ p + j \in (p + i + 1)..(p + q)
        BY <1>1, <2>2, <3>3
      <4> QED BY <2>1, <3>2, <4>1
    <3>5. q < n => b[q + 1] # Cont
      <4> SUFFICES ASSUME q < n PROVE b[q + 1] # Cont
        OBVIOUS
      <4>1. q + 1 \in 1..n /\ p + q < Len(s) /\ p + (q + 1) = p + q + 1
        BY <1>1, <2>2, <3>3
      <4> QED BY <2>1, <3>2, <4>1
    <3>6. OneCharacter(b, i - 1, q)
      BY <2>1, <2>4, <3>3, <3>4, <3>5 DEF OneCharacter, Boundary
    <3> QED BY <3>1, <3>6 DEF q
  <2>5. Whole(b)
    BY <2>1, <2>3, <2>4 DEF Whole
  <2> QED BY <2>5 DEF b
<1> QED BY <1>3, <1>4

LEMMA JoinWhole ==
    ASSUME NEW a \in Seq(Bytes), NEW b \in Seq(Bytes), Whole(a), Whole(b)
    PROVE  Whole(a \o b) /\ Boundary(a \o b, Len(a))
<1> DEFINE s == a \o b
           m == Len(a)
           n == Len(b)
<1>1. /\ s \in Seq(Bytes) /\ m \in Nat /\ n \in Nat /\ Len(s) = m + n
      /\ \A i \in 1..m : s[i] = a[i]
      /\ \A i \in 1..n : s[m + i] = b[i]
  OBVIOUS
<1>2. Len(a) = m /\ Len(b) = n
  OBVIOUS
<1> HIDE DEF s, m, n
<1>3. Boundary(s, m)
  BY <1>1, <1>2 DEF Whole, Boundary
<1>4. Boundary(s, 0)
  <2>1. CASE m = 0
    BY <1>3, <2>1
  <2>2. CASE m # 0
    BY <1>1, <1>2, <2>2 DEF Whole, Boundary
  <2> QED BY <2>1, <2>2
<1>5. ASSUME NEW i \in 1..m, s[i] # Cont
      PROVE  OneCharacter(s, i - 1, i - 1 + CharByteSize(s[i]))
  <2> DEFINE q == i - 1 + CharByteSize(a[i])
  <2>1. s[i] = a[i] /\ OneCharacter(a, i - 1, q)
    BY <1>1, <1>2, <1>5 DEF Whole
  <2>2. q \in i..m
    <3>1. q \in Nat /\ i <= q
      BY SizeOfByte
    <3> HIDE DEF q
    <3> QED BY <1>2, <2>1, <3>1 DEF OneCharacter, Boundary
  <2> HIDE DEF q
  <2>3. OneCharacter(s, i - 1, q)
    <3>1. \A j \in (i - 1 + 2)..q : s[j] = Cont
      BY <1>1, <2>1, <2>2 DEF OneCharacter
    <3>2. Boundary(s, q)
      <4>1. CASE q = m
        BY <1>3, <4>1
      <4>2. CASE q < m
        BY <1>1, <1>2, <2>1, <2>2, <4>2 DEF OneCharacter, Boundary
      <4> QED BY <1>1, <2>2, <4>1, <4>2
    <3> QED BY <1>5, <2>2, <3>1, <3>2 DEF OneCharacter
  <2> QED BY <2>1, <2>3 DEF q
<1>6. ASSUME NEW i \in 1..n, NEW e \in 1..Len(s), e = m + i, s[e] # Cont
      PROVE  OneCharacter(s, e - 1, e - 1 + CharByteSize(s[e]))
  <2> DEFINE q == i - 1 + CharByteSize(b[i])
  <2>1. s[e] = b[i] /\ OneCharacter(b, i - 1, q)
    BY <1>1, <1>2, <1>6 DEF Whole
  <2>2. q \in i..n
    <3>1. q \in Nat /\ i <= q
      BY SizeOfByte
    <3> HIDE DEF q
    <3> QED BY <1>2, <2>1, <3>1 DEF OneCharacter, Boundary
  <2>3. m + q = e - 1 + CharByteSize(b[i])
    <3>1. CharByteSize(b[i]) \in Nat
      BY SizeOfByte
    <3>2. \A x, y, z \in Nat : x + (y - 1 + z) = x + y - 1 + z
      OBVIOUS
    <3>3. i \in Nat
      BY <1>1
    <3>4. m + (i - 1 + CharByteSize(b[i])) = m + i - 1 + CharByteSize(b[i])
      BY <1>1, <3>1, <3>2, <3>3
    <3>5. e - 1 = m + i - 1
      BY <1>1, <1>6
    <3> QED BY <3>4, <3>5
  <2> HIDE DEF q
  <2>4. \A j \in (i + 1)..q : b[j] = Cont
    BY <2>1 DEF OneCharacter
  <2>5. \A j \in (m + i + 1)..(m + q) : s[j] = Cont
    <3> SUFFICES ASSUME NEW j \in (m + i + 1)..(m + q) PROVE s[j] = Cont
      OBVIOUS
    <3>1. j - m \in (i + 1)..q /\ j - m \in 1..n /\ m + (j - m) = j
      BY <1>1, <2>2
    <3> QED BY <1>1, <2>4, <3>1
  <2>6. Boundary(s, m + q)
    <3>1. m + q \in 0..Len(s)
      BY <1>1, <2>2
    <3>2. ASSUME m + q < Len(s) PROVE s[m + q + 1] # Cont
      <4>1. q + 1 \in 1..n /\ q < n /\ m + (q + 1) = m + q + 1
        BY <1>1, <2>2, <3>2
      <4>2. b[q + 1] # Cont
        BY <1>2, <2>1, <4>1 DEF OneCharacter, Boundary
      <4> QED BY <1>1, <4>1, <4>2
    <3> QED BY <3>1, <3>2 DEF Boundary
  <2>7. OneCharacter(s, e - 1, m + q)
    <3>1. e - 1 + 1 = e /\ e - 1 + 2 = m + i + 1 /\ e - 1 < m + q
      BY <1>1, <1>6, <2>2
    <3> QED BY <1>6, <2>5, <2>6, <3>1 DEF OneCharacter
  <2> QED BY <2>1, <2>3, <2>7
<1>7. ASSUME NEW i \in 1..Len(s), s[i] # Cont
      PROVE  OneCharacter(s, i - 1, i - 1 + CharByteSize(s[i]))
  <2>1. CASE i <= m
    <3>1. i \in 1..m
      BY <1>1, <2>1
    <3> QED BY <1>5, <1>7, <3>1
  <2>2. CASE m < i
    <3> DEFINE j == i - m
    <3>1. j \in 1..n /\ i = m + j
      BY <1>1, <2>2
    <3> HIDE DEF j
    <3> QED BY <1>6, <1>7, <3>1
  <2> QED BY <1>1, <2>1, <2>2
<1>8. Whole(s) /\ Boundary(s, m)
  BY <1>3, <1>4, <1>7 DEF Whole
<1> QED BY <1>8 DEF s, m

LEMMA EmptyIsWhole == Whole(<<>>) /\ Boundary(<<>>, 0) /\ <<>> \in Seq(Bytes) /\ Len(<<>>) = 0
BY DEF Whole, Boundary

(* The characters before the end of a first part. *)
LEMMA PreOfJoin ==
    ASSUME NEW a \in Seq(Bytes), NEW b \in Seq(Bytes)
    PROVE  Pre(a \o b, Len(a)) = Characters(a)
<1> DEFINE s == a \o b
           d == SubSeq(s, 1, Len(a))
<1>1. s \in Seq(Bytes) /\ Len(a) \in 0..Len(s) /\ \A i \in 1..Len(a) : s[i] = a[i]
  OBVIOUS
<1> HIDE DEF s
<1>2. d \in Seq(Bytes) /\ Len(d) = Len(a) /\ \A i \in 1..Len(a) : d[i] = s[i]
  BY <1>1, Prefix
<1> HIDE DEF d
<1>3. d = a
  BY <1>1, <1>2, SameSeq
<1> QED BY <1>3 DEF Pre, d, s

(* The text with what is between p and q taken out. *)
Without(s, p, q) == SubSeq(s, 1, p) \o SubSeq(s, q + 1, Len(s))

LEMMA TakenOut ==
    ASSUME NEW s \in Seq(Bytes), Whole(s), NEW p, NEW q, Boundary(s, p), Boundary(s, q), p <= q
    PROVE  LET t == Without(s, p, q)
           IN  /\ t \in Seq(Bytes) /\ Len(t) = Len(s) - (q - p) /\ Whole(t) /\ Boundary(t, p)
               /\ Pre(t, p) = Pre(s, p)
               /\ Characters(t) = Pre(s, p)
                      \o SubSeq(Characters(s), Len(Pre(s, q)) + 1, Len(Characters(s)))
<1> DEFINE a == SubSeq(s, 1, p)
           b == SubSeq(s, q + 1, Len(s))
           t == a \o b
<1>1. p \in 0..Len(s) /\ q \in 0..Len(s) /\ Len(s) \in q..Len(s) /\ Len(s) \in Nat
  BY DEF Boundary
<1>2. /\ a \in Seq(Bytes) /\ Len(a) = p /\ Whole(a)
      /\ b \in Seq(Bytes) /\ Len(b) = Len(s) - q /\ Whole(b)
  BY <1>1, Prefix, Slice, CutWhole
<1>3. Characters(b) = SubSeq(Characters(s), Len(Pre(s, q)) + 1, Len(Characters(s)))
  BY <1>1, PreSplit, PreZero
<1>4. Characters(a) = Pre(s, p) /\ Without(s, p, q) = t
  BY DEF Pre, Without
<1> HIDE DEF a, b
<1>5. t \in Seq(Bytes) /\ Len(t) = p + (Len(s) - q)
  BY <1>1, <1>2
<1>6. Whole(t) /\ Boundary(t, p) /\ Pre(t, p) = Characters(a)
  BY <1>2, JoinWhole, PreOfJoin
<1>7. Characters(t) = Characters(a) \o Characters(b)
  BY <1>2, CharactersConcat
<1> HIDE DEF t
<1> QED BY <1>1, <1>3, <1>4, <1>5, <1>6, <1>7

(* The text with r put in at p. *)
With(s, p, r) == SubSeq(s, 1, p) \o r \o SubSeq(s, p + 1, Len(s))

(* What the result t then is, k characters being before p. *)
PutTogether(s, p, r, t, k) ==
    /\ t \in Seq(Bytes) /\ Len(t) = Len(s) + Len(r) /\ Whole(t)
    /\ Boundary(t, p + Len(r)) /\ Len(Pre(t, p + Len(r))) = k + Len(Characters(r))
    /\ Characters(t) = SubSeq(Characters(s), 1, k) \o Characters(r)
                           \o SubSeq(Characters(s), k + 1, Len(Characters(s)))

LEMMA PutIn ==
    ASSUME NEW s \in Seq(Bytes), Whole(s), NEW p, Boundary(s, p), NEW r \in Seq(Bytes), Whole(r)
    PROVE  PutTogether(s, p, r, With(s, p, r), Len(Pre(s, p)))
<1> DEFINE a == SubSeq(s, 1, p)
           b == SubSeq(s, p + 1, Len(s))
           k == Len(Pre(s, p))
           u == a \o r
           t == u \o b
<1>1. p \in 0..Len(s) /\ Len(s) \in p..Len(s) /\ Len(s) \in Nat
  BY DEF Boundary
<1>2. /\ a \in Seq(Bytes) /\ Len(a) = p /\ Whole(a)
      /\ b \in Seq(Bytes) /\ Len(b) = Len(s) - p /\ Whole(b)
  BY <1>1, Prefix, Slice, CutWhole
<1>3. /\ Characters(b) = SubSeq(Characters(s), k + 1, Len(Characters(s)))
      /\ Characters(a) = SubSeq(Characters(s), 1, k) /\ k = Len(Characters(a))
  <2>1. Characters(a) = Pre(s, p) /\ Characters(s) = Pre(s, Len(s))
    BY PreZero DEF Pre
  <2>2. Pre(s, p) = SubSeq(Pre(s, Len(s)), 1, Len(Pre(s, p)))
    BY <1>1, PreSplit
  <2>3. Characters(b) = SubSeq(Pre(s, Len(s)), Len(Pre(s, p)) + 1, Len(Pre(s, Len(s))))
    BY <1>1, PreSplit
  <2> QED BY <2>1, <2>2, <2>3
<1>4. With(s, p, r) = t
  BY DEF With
<1> HIDE DEF a, b, k
<1>5. u \in Seq(Bytes) /\ Len(u) = p + Len(r) /\ Whole(u)
  <2>1. u \in Seq(Bytes) /\ Len(u) = Len(a) + Len(r)
    BY <1>2, ConcatProperties
  <2>2. Whole(u)
    BY <1>2, JoinWhole
  <2> QED BY <1>2, <2>1, <2>2
<1>6. Characters(u) = Characters(a) \o Characters(r)
  BY <1>2, CharactersConcat
<1>7. Characters(a) \in Seq(Bytes) /\ Characters(r) \in Seq(Bytes)
  BY <1>2, CharactersType
<1>8. Len(Characters(u)) = k + Len(Characters(r))
  <2>1. Len(Characters(a) \o Characters(r)) = Len(Characters(a)) + Len(Characters(r))
    BY <1>7, ConcatProperties
  <2> QED BY <1>3, <1>6, <2>1
<1> HIDE DEF u
<1>9. t \in Seq(Bytes) /\ Len(t) = Len(s) + Len(r)
  <2>1. t \in Seq(Bytes) /\ Len(t) = Len(u) + Len(b)
    BY <1>2, <1>5, ConcatProperties
  <2>2. Len(r) \in Nat
    OBVIOUS
  <2> HIDE DEF t
  <2> QED BY <1>1, <1>2, <1>5, <2>1, <2>2
<1>10. Whole(t) /\ Boundary(t, Len(u)) /\ Pre(t, Len(u)) = Characters(u)
  BY <1>2, <1>5, JoinWhole, PreOfJoin
<1>11. Characters(t) = Characters(u) \o Characters(b)
  BY <1>2, <1>5, CharactersConcat
<1> HIDE DEF t
<1>12. Boundary(t, p + Len(r)) /\ Pre(t, p + Len(r)) = Characters(u)
  BY <1>5, <1>10
<1>13. Len(Pre(t, p + Len(r))) = k + Len(Characters(r))
  BY <1>8, <1>12
<1>14. Characters(t) = SubSeq(Characters(s), 1, k) \o Characters(r)
                           \o SubSeq(Characters(s), k + 1, Len(Characters(s)))
  BY <1>3, <1>6, <1>11
<1>15. PutTogether(s, p, r, t, k)
  BY <1>9, <1>10, <1>12, <1>13, <1>14 DEF PutTogether
<1> QED BY <1>4, <1>15 DEF k

-----------------------------------------------------------------------------
(* The places the loops of onTextInput and onKeyPressed stop at. *)
LEMMA MaxOfPlaces ==
    ASSUME NEW n \in Nat, NEW S \in SUBSET (0..n)
    PROVE  Max({0} \cup S) \in {0} \cup S /\ \A k \in S : k <= Max({0} \cup S)
<1> DEFINE T == {0} \cup S
<1>1. T \in SUBSET (0..n) /\ T # {}
  OBVIOUS
<1>2. Max(T) \in T /\ \A x \in T : x <= Max(T)
  <2> HIDE DEF T
  <2> QED BY <1>1, MaxOfBounded
<1> QED BY <1>2

LEMMA MinOfPlaces ==
    ASSUME NEW n \in Nat, NEW S \in SUBSET Nat
    PROVE  Min({n} \cup S) \in {n} \cup S
<1> DEFINE T == {n} \cup S
<1>1. T \in SUBSET Nat /\ T # {}
  OBVIOUS
<1>2. Min(T) \in T
  <2> HIDE DEF T
  <2> QED BY <1>1, MinOfBounded
<1> QED BY <1>2

(* One character back. *)
LEMMA CharStartIs ==
    ASSUME currentText \in Seq(Bytes), Whole(currentText), NEW p, Boundary(currentText, p), 0 < p
    PROVE  LET q == CharStart(p - 1)
           IN  /\ q \in 0..(p - 1) /\ Boundary(currentText, q)
               /\ OneCharacter(currentText, q, p)
<1> DEFINE q == CharStart(p - 1)
           S == {k \in 1..(p - 1) : ~IsCont(k)}
<1>1. p \in 1..Len(currentText)
  BY DEF Boundary
<1>2. q \in 0..(p - 1) /\ (q = 0 \/ currentText[q + 1] # Cont)
      /\ \A k \in (q + 1)..(p - 1) : currentText[k + 1] = Cont
  <2>1. CASE p - 1 <= 0
    <3>1. q = p - 1 /\ p = 1
      BY <1>1, <2>1 DEF CharStart
    <3> HIDE DEF q
    <3> QED BY <3>1
  <2>2. CASE ~(p - 1 <= 0)
    <3>1. q = Max({0} \cup S)
      BY <2>2 DEF CharStart
    <3>2. S \in SUBSET (0..(p - 1)) /\ p - 1 \in Nat
      BY <1>1
    <3>3. q \in {0} \cup S /\ \A k \in S : k <= q
      <4> HIDE DEF S, q
      <4> QED BY <3>1, <3>2, MaxOfPlaces
    <3>4. \A k \in 1..(p - 1) : k \in S <=> currentText[k + 1] # Cont
      BY DEF IsCont, At
    <3> HIDE DEF S, q
    <3>5. q \in 0..(p - 1)
      BY <1>1, <3>2, <3>3
    <3>6. q = 0 \/ currentText[q + 1] # Cont
      <4>1. CASE q # 0
        BY <1>1, <3>3, <3>4, <3>5, <4>1
      <4> QED BY <4>1
    <3>7. ASSUME NEW k \in (q + 1)..(p - 1), currentText[k + 1] # Cont PROVE FALSE
      <4>1. k \in 1..(p - 1) /\ ~(k <= q)
        BY <1>1, <3>5
      <4> QED BY <3>3, <3>4, <3>7, <4>1
    <3> QED BY <3>5, <3>6, <3>7
  <2> QED BY <2>1, <2>2
<1> HIDE DEF q
<1>3. Boundary(currentText, q) /\ OneCharacter(currentText, q, p)
  BY <1>2, PreviousPlace
<1> QED BY <1>2, <1>3 DEF q

(* A place before a space or behind one is between two characters. *)
LEMMA AtSpace ==
    ASSUME currentText \in Seq(Bytes), Whole(currentText), NEW k \in {0} \cup Spaces \cup AfterSpaces
    PROVE  /\ k \in 0..Len(currentText) /\ Boundary(currentText, k)
           /\ k = 0 \/ currentText[k] = Space \/ currentText[k + 1] = Space
           /\ k # 0 => k \in 1..(Len(currentText) - 1)
<1>0. Len(currentText) \in Nat /\ Space # Cont
  <2>1. Len(currentText) \in Nat
    OBVIOUS
  <2> QED BY <2>1 DEF Space, Cont
<1>1. CASE k = 0
  BY <1>1 DEF Whole, Boundary
<1>2. CASE k \in Spaces
  <2>1. k \in 1..(Len(currentText) - 1) /\ currentText[k + 1] = Space
    BY <1>2 DEF Spaces, IsSpace, At, Size
  <2>2. k \in 0..Len(currentText)
    BY <1>0, <2>1
  <2>3. Boundary(currentText, k)
    BY <1>0, <2>1, <2>2 DEF Boundary
  <2> QED BY <2>1, <2>2, <2>3
<1>3. CASE k \in AfterSpaces
  <2>1. k \in 1..(Len(currentText) - 1) /\ currentText[k - 1 + 1] = Space
    BY <1>3 DEF AfterSpaces, IsSpace, At, Size
  <2>2. CharByteSize(Space) = 1
    BY DEF Space, CharByteSize, Lead2, Lead3, Lead4
  <2>3. k \in 1..Len(currentText) /\ k - 1 + 1 = k
    BY <1>0, <2>1
  <2>4. currentText[k] = Space
    BY <2>1, <2>3
  <2>5. OneCharacter(currentText, k - 1, k - 1 + CharByteSize(currentText[k]))
    BY <1>0, <2>3, <2>4 DEF Whole
  <2>6. OneCharacter(currentText, k - 1, k)
    BY <2>2, <2>3, <2>4, <2>5
  <2>7. Boundary(currentText, k)
    BY <2>6 DEF OneCharacter
  <2>8. k \in 0..Len(currentText)
    BY <2>7 DEF Boundary
  <2> QED BY <2>1, <2>4, <2>7, <2>8
<1> QED BY <1>1, <1>2, <1>3

LEMMA ForthIs ==
    ASSUME currentText \in Seq(Bytes), Whole(currentText), NEW p, NEW stops \in SUBSET Nat
    PROVE  Forth(p, stops) \in {Len(currentText)} \cup stops
<1> DEFINE S == {k \in stops : k > p}
<1>1. Forth(p, stops) = Min({Len(currentText)} \cup S)
  BY DEF Forth, Size
<1>2. S \in SUBSET Nat
  OBVIOUS
<1>3. S \subseteq stops
  OBVIOUS
<1>4. Len(currentText) \in Nat
  OBVIOUS
<1> HIDE DEF S
<1>5. Min({Len(currentText)} \cup S) \in {Len(currentText)} \cup S
  BY <1>2, <1>4, MinOfPlaces
<1> QED BY <1>1, <1>3, <1>5

LEMMA BackIs ==
    ASSUME currentText \in Seq(Bytes), NEW p, NEW stops \in SUBSET (0..Len(currentText))
    PROVE  Back(p, stops) \in {0} \cup {k \in stops : k < p}
<1> DEFINE S == {k \in stops : k < p}
<1>1. Back(p, stops) = Max({0} \cup S)
  BY DEF Back
<1>2. S \in SUBSET (0..Len(currentText))
  OBVIOUS
<1>3. Len(currentText) \in Nat
  OBVIOUS
<1> HIDE DEF S
<1>4. Back(p, stops) \in {0} \cup S
  BY <1>1, <1>2, <1>3, MaxOfPlaces
<1> QED BY <1>4 DEF S

LEMMA PlacesType ==
    ASSUME currentText \in Seq(Bytes)
    PROVE  /\ Spaces \in SUBSET (0..Len(currentText)) /\ AfterSpaces \in SUBSET (0..Len(currentText))
           /\ NonSpaces \in SUBSET (0..Len(currentText))
BY DEF Spaces, AfterSpaces, NonSpaces, Size

(* Where alt and an arrow key put the cursor. *)
LEMMA WordEndIs ==
    ASSUME currentText \in Seq(Bytes), Whole(currentText), NEW q, q \in 0..Len(currentText)
    PROVE  Boundary(currentText, IF q < Size THEN Forth(q, Spaces) ELSE q)
<1>1. CASE q < Size
  <2> DEFINE e == Forth(q, Spaces)
  <2>1. Spaces \in SUBSET Nat
    BY PlacesType
  <2>2. e \in {Len(currentText)} \cup Spaces
    BY <2>1, ForthIs
  <2> HIDE DEF e
  <2>0. Len(currentText) \in Nat
    OBVIOUS
  <2>3. Boundary(currentText, Len(currentText))
    BY <2>0 DEF Boundary
  <2>4. ASSUME e \in Spaces PROVE Boundary(currentText, e)
    <3>1. e \in {0} \cup Spaces \cup AfterSpaces
      BY <2>4
    <3> QED BY <3>1, AtSpace, Zenon
  <2>5. Boundary(currentText, e)
    BY <2>2, <2>3, <2>4, Zenon
  <2> QED BY <1>1, <2>5 DEF e
<1>2. CASE ~(q < Size)
  BY <1>2 DEF Boundary, Size
<1> QED BY <1>1, <1>2

LEMMA WordBeginIs ==
    ASSUME currentText \in Seq(Bytes), Whole(currentText), NEW q
    PROVE  Boundary(currentText, Back(q, AfterSpaces))
<1> DEFINE e == Back(q, AfterSpaces)
<1>1. e \in {0} \cup AfterSpaces
  BY BackIs, PlacesType
<1> HIDE DEF e
<1>2. Boundary(currentText, e)
  BY <1>1, AtSpace
<1> QED BY <1>2 DEF e

(* Where alt and backspace begin to remove. *)
LEMMA WordStartIs ==
    ASSUME currentText \in Seq(Bytes), Whole(currentText),
           Boundary(currentText, currentTextPosition), 0 < currentTextPosition
    PROVE  LET w == WordStart
           IN  /\ w \in 0..(currentTextPosition - 1) /\ Boundary(currentText, w)
               /\ w = 0 \/ currentText[w] = Space \/ currentText[w + 1] = Space
               /\ CharStart(w) = w
<1> DEFINE p == currentTextPosition - 1
           q == IF IsSpace(p) THEN Back(p, 1..p \ (Spaces \cap AfterSpaces)) ELSE p
           w == Back(q, Spaces \cup AfterSpaces)
<1>1. WordStart = w
  BY DEF WordStart
<1>2. p \in 0..(Len(currentText) - 1) /\ Len(currentText) \in Nat
  BY DEF Boundary
<1>3. q \in 0..p
  <2> DEFINE stops == 1..p \ (Spaces \cap AfterSpaces)
  <2> HIDE DEF p
  <2>1. stops \in SUBSET (0..Len(currentText))
    BY <1>2
  <2>2. Back(p, stops) \in {0} \cup {k \in stops : k < p}
    <3> HIDE DEF stops
    <3> QED BY <2>1, BackIs
  <2>3. Back(p, stops) \in 0..p
    BY <1>2, <2>2
  <2> HIDE DEF stops
  <2>4. q = IF IsSpace(p) THEN Back(p, stops) ELSE p
    BY DEF stops
  <2> HIDE DEF q
  <2> QED BY <1>2, <2>3, <2>4
<1>4. w \in {0} \cup {k \in Spaces \cup AfterSpaces : k < q}
  <2> HIDE DEF q
  <2> QED BY BackIs, PlacesType
<1> HIDE DEF w, q
<1>5. w \in 0..p /\ w \in {0} \cup Spaces \cup AfterSpaces
  BY <1>2, <1>3, <1>4, PlacesType
<1>6. /\ Boundary(currentText, w) /\ w < Len(currentText)
      /\ w = 0 \/ currentText[w] = Space \/ currentText[w + 1] = Space
  BY <1>2, <1>5, AtSpace
<1>7. CharStart(w) = w
  <2>1. CASE w <= 0
    BY <2>1 DEF CharStart
  <2>2. CASE ~(w <= 0)
    <3> DEFINE S == {0} \cup {k \in 1..w : ~IsCont(k)}
    <3>1. CharStart(w) = Max(S)
      BY <2>2 DEF CharStart
    <3>2. S \in SUBSET Nat /\ w \in S /\ \A x \in S : x <= w
      <4>1. ~IsCont(w)
        BY <1>6 DEF IsCont, At, Boundary
      <4> QED BY <1>5, <2>2, <4>1
    <3>3. Max(S) = w
      <4> HIDE DEF S
      <4> QED BY <3>2, MaxIs
    <3> QED BY <3>1, <3>3
  <2> QED BY <2>1, <2>2
<1> QED BY <1>1, <1>5, <1>6, <1>7 DEF p

(* Where there is no continuation byte a byte is a character. *)
LEMMA OnlyShort ==
    ASSUME NEW s \in Seq(Bytes), NEW w \in 0..Len(s), Cont \notin ToSet(SubSeq(s, 1, w))
    PROVE  Len(Pre(s, w)) = w
<1>1. \A i \in 1..w : s[i] # Cont
  <2> DEFINE a == SubSeq(s, 1, w)
  <2>1. a \in Seq(Bytes) /\ Len(a) = w /\ \A i \in 1..w : a[i] = s[i]
    BY Prefix
  <2>2. Cont \notin ToSet(a)
    OBVIOUS
  <2> HIDE DEF a
  <2>3. DOMAIN a = 1..w
    BY <2>1
  <2> QED BY <2>1, <2>2, <2>3 DEF ToSet
<1> DEFINE B == {k \in Nat : k <= w /\ Len(Pre(s, k)) # k}
<1>2. B = {}
  <2> SUFFICES ASSUME B # {} PROVE FALSE
    OBVIOUS
  <2>1. PICK k \in B : \A j \in B : k <= j
    <3>1. B \in SUBSET Nat
      OBVIOUS
    <3> HIDE DEF B
    <3> QED BY <3>1, LeastNumber
  <2>2. k \in Nat /\ k <= w /\ Len(Pre(s, k)) # k
    OBVIOUS
  <2>3. k # 0
    BY <2>2, PreZero
  <2> DEFINE j == k - 1
  <2>4. j \in 0..(Len(s) - 1) /\ j \in Nat /\ j <= w /\ k = j + 1 /\ ~(k <= j)
    BY <2>2, <2>3
  <2> HIDE DEF j
  <2>5. j \notin B
    <3> HIDE DEF B
    <3> QED BY <2>1, <2>4
  <2>6. Len(Pre(s, j)) = j
    BY <2>4, <2>5
  <2>7. Pre(s, k) = Append(Pre(s, j), s[k]) /\ s[k] \in Bytes
    <3>1. k \in 1..w /\ k \in 1..Len(s)
      BY <2>2, <2>3
    <3>2. s[k] # Cont /\ s[k] \in Bytes
      BY <1>1, <3>1
    <3>3. Pre(s, j + 1) = IF s[j + 1] = Cont THEN Pre(s, j) ELSE Append(Pre(s, j), s[j + 1])
      BY <2>4, PreStep
    <3> QED BY <2>4, <3>2, <3>3
  <2>8. Pre(s, j) \in Seq(Bytes)
    BY <2>4, PreType
  <2> QED BY <2>2, <2>4, <2>6, <2>7, <2>8
<1>3. w \notin B
  <2> HIDE DEF B
  <2> QED BY <1>2
<1> QED BY <1>3

-----------------------------------------------------------------------------
(* The invariant.  Both ends of the selection are between characters, and the
   caret the game is told is not before the cursor, until the position is lost. *)
Placed(s, c, d) ==
    /\ Whole(s) /\ Boundary(s, c[1]) /\ Boundary(s, d[1])
    /\ Len(Pre(s, c[1])) <= c[2]

(* Byte position and character position are the same place. *)
Exactly(s, c) == c[2] = Len(Pre(s, c[1]))

TextInv ==
    /\ TextTypeOK
    /\ ~lost => Placed(currentText, caret, copy)
    /\ spoiled = {} => ~lost /\ Exactly(currentText, caret) /\ Exactly(currentText, copy)

(* What a step does to the text field of the refinement. *)
FieldStep ==
    \/ Field!Next
    \/ UNCHANGED <<Characters(currentText), Index(currentTextPosition),
                   Index(currentTextCopyPosition)>>

LEMMA FieldNow ==
    /\ Index(currentTextPosition) = Len(Pre(currentText, caret[1]))
    /\ Index(currentTextCopyPosition) = Len(Pre(currentText, copy[1]))
BY DEF Index, Pre, currentTextPosition, currentTextCopyPosition

LEMMA FieldThen ==
    /\ Index(currentTextPosition)' = Len(Pre(currentText', caret'[1]))
    /\ Index(currentTextCopyPosition)' = Len(Pre(currentText', copy'[1]))
BY DEF Index, Pre, currentTextPosition, currentTextCopyPosition

LEMMA TextTypes ==
    ASSUME TextTypeOK
    PROVE  /\ currentText \in Seq(Bytes) /\ Len(currentText) \in Nat
           /\ Len(currentText) <= MaxBytes
           /\ caret \in Nat \X Nat /\ copy \in Nat \X Nat
           /\ caret[1] \in Nat /\ caret[2] \in Nat /\ copy[1] \in Nat /\ copy[2] \in Nat
           /\ caret = <<caret[1], caret[2]>>
           /\ shiftPressed \in BOOLEAN /\ altPressed \in BOOLEAN
           /\ ignoreNextHideKeyboard \in BOOLEAN /\ lost \in BOOLEAN
           /\ spoiled \subseteq {"word", "beyond"}
<1>1. currentText \in Seq(Bytes) /\ Len(currentText) <= MaxBytes
  BY DEF TextTypeOK, Size
<1>2. Len(currentText) \in Nat
  BY <1>1
<1>3. caret \in Nat \X Nat /\ copy \in Nat \X Nat
  BY DEF TextTypeOK
<1>4. /\ caret[1] \in Nat /\ caret[2] \in Nat /\ copy[1] \in Nat /\ copy[2] \in Nat
      /\ caret = <<caret[1], caret[2]>>
  BY <1>3
<1>5. shiftPressed \in BOOLEAN /\ altPressed \in BOOLEAN
  BY Zenon DEF TextTypeOK, mods
<1>6. ignoreNextHideKeyboard \in BOOLEAN /\ lost \in BOOLEAN /\ spoiled \subseteq {"word", "beyond"}
  BY Zenon DEF TextTypeOK
<1> QED BY <1>1, <1>2, <1>3, <1>4, <1>5, <1>6, Zenon

LEMMA TypesText ==
    ASSUME currentText \in Seq(Bytes), Len(currentText) <= MaxBytes,
           caret \in Nat \X Nat, copy \in Nat \X Nat,
           shiftPressed \in BOOLEAN, altPressed \in BOOLEAN,
           ignoreNextHideKeyboard \in BOOLEAN, lost \in BOOLEAN,
           spoiled \subseteq {"word", "beyond"}
    PROVE  TextTypeOK
<1>1. mods \in BOOLEAN \X BOOLEAN
  BY DEF mods
<1> QED BY <1>1, Zenon DEF TextTypeOK, Size

LEMMA TypesTextThen ==
    ASSUME currentText' \in Seq(Bytes), Len(currentText') <= MaxBytes,
           caret' \in Nat \X Nat, copy' \in Nat \X Nat,
           shiftPressed' \in BOOLEAN, altPressed' \in BOOLEAN,
           ignoreNextHideKeyboard' \in BOOLEAN, lost' \in BOOLEAN,
           spoiled' \subseteq {"word", "beyond"}
    PROVE  TextTypeOK'
<1>1. mods' \in BOOLEAN \X BOOLEAN
  BY DEF mods
<1> QED BY <1>1, Zenon DEF TextTypeOK, Size

(* What the game passes, and what is typed. *)
LEMMA GivenTexts ==
    ASSUME NEW s \in GameTexts \cup {<<>>}
    PROVE  /\ s \in Seq(Bytes) /\ Whole(s) /\ Len(s) \in Nat /\ Len(s) <= MaxBytes
           /\ Characters(s) \in Seq(Bytes) /\ Boundary(s, Len(s))
           /\ GetLength(s, Len(s)) = Len(Characters(s)) /\ Pre(s, Len(s)) = Characters(s)
<1>1. s \in Seq(Bytes) /\ Whole(s) /\ Len(s) <= MaxBytes
  <2>1. CASE s \in GameTexts
    BY <2>1, InputsAssumption, UTF8IsWhole
  <2>2. CASE s = <<>>
    BY <2>2, InputsAssumption, EmptyIsWhole
  <2> QED BY <2>1, <2>2
<1>2. Len(s) \in Nat
  BY <1>1
<1>3. Boundary(s, Len(s))
  BY <1>2 DEF Boundary
<1>4. Pre(s, Len(s)) = Characters(s) /\ Characters(s) \in Seq(Bytes)
  BY <1>1, PreZero, CharactersType
<1>5. GetLength(s, Len(s)) = Len(Pre(s, Len(s)))
  BY <1>1, <1>3, GetLengthCounts
<1> QED BY <1>1, <1>2, <1>3, <1>4, <1>5

LEMMA TypedTexts ==
    ASSUME NEW s \in Inputs
    PROVE  /\ s \in Seq(Bytes) /\ Whole(s) /\ Len(s) \in Nat
           /\ Characters(s) \in Seq(Bytes) /\ Len(Characters(s)) \in Nat \ {0}
           /\ GetLength(s, Len(s)) = Len(Characters(s))
<1>1. s \in Seq(Bytes) /\ Whole(s) /\ s # <<>>
  BY InputsAssumption, UTF8IsWhole
<1>2. Len(s) \in Nat /\ Len(s) # 0
  BY <1>1
<1>3. Boundary(s, Len(s))
  BY <1>2 DEF Boundary
<1>4. Pre(s, Len(s)) = Characters(s) /\ Characters(s) \in Seq(Bytes)
  BY <1>1, PreZero, CharactersType
<1>5. GetLength(s, Len(s)) = Len(Pre(s, Len(s)))
  BY <1>1, <1>3, GetLengthCounts
<1>6. Len(Characters(s)) # 0
  <2> DEFINE q == 0 + CharByteSize(s[0 + 1])
  <2>1. Boundary(s, 0) /\ 0 < Len(s)
    BY <1>1, <1>2 DEF Whole
  <2>2. q \in (0 + 1)..Len(s) /\ OneCharacter(s, 0, q)
    BY <1>1, <2>1, NextPlace
  <2> HIDE DEF q
  <2>3. q \in 0..Len(s) /\ 0 \in 0..Len(s) /\ Len(s) \in q..Len(s)
    BY <1>2, <2>2
  <2>4. Len(Pre(s, q)) = Len(Pre(s, 0)) + 1 /\ Len(Pre(s, 0)) = 0
    BY <1>1, <2>2, <2>3, OneMore, PreZero
  <2>5. Len(Pre(s, q)) <= Len(Pre(s, Len(s)))
    BY <1>1, <2>3, PreSplit
  <2> QED BY <1>4, <2>4, <2>5
<1>7. Len(Characters(s)) \in Nat
  BY <1>4
<1> QED BY <1>1, <1>2, <1>4, <1>5, <1>6, <1>7

-----------------------------------------------------------------------------
(* Steps that replace the text, and steps that only move. *)
LEMMA LoadIs ==
    ASSUME NEW s \in GameTexts \cup {<<>>}, currentText' = s, caret'[1] \in 0..Len(s),
           copy' = caret' \/ copy'[1] = Len(s)
    PROVE  Field!Load
<1>1. s \in Seq(Bytes) /\ Pre(s, Len(s)) = Characters(s) /\ Len(s) \in Nat
  BY GivenTexts
<1>2. Len(Pre(s, caret'[1])) \in 0..Len(Characters(s))
  <2> DEFINE p == caret'[1]
  <2>1. p \in 0..Len(s) /\ Len(s) \in p..Len(s)
    BY <1>1
  <2> HIDE DEF p
  <2>2. Len(Pre(s, p)) \in Nat /\ Len(Pre(s, p)) <= Len(Pre(s, Len(s)))
    BY <1>1, <2>1, PreType, PreSplit
  <2>3. Characters(s) \in Seq(Bytes)
    BY <1>1, CharactersType
  <2>4. Len(Pre(s, p)) \in 0..Len(Characters(s))
    BY <1>1, <2>2, <2>3
  <2> QED BY <2>4 DEF p
<1>3. Len(Pre(s, copy'[1])) \in {Len(Pre(s, caret'[1])), Len(Characters(s))}
  BY <1>1
<1>4. /\ Index(currentTextPosition)' = Len(Pre(s, caret'[1]))
      /\ Index(currentTextCopyPosition)' = Len(Pre(s, copy'[1]))
  BY FieldThen
<1>5. Characters(s) \in {Characters(t) : t \in GameTexts \cup {<<>>}}
  OBVIOUS
<1>6. Characters(currentText)' = Characters(s)
  OBVIOUS
<1> QED BY <1>2, <1>3, <1>4, <1>5, <1>6 DEF Field!Load

LEMMA MoveIs ==
    ASSUME currentText \in Seq(Bytes), currentText' = currentText,
           caret'[1] \in 0..Len(currentText), copy' \in {copy, caret'}
    PROVE  Field!Move
<1> DEFINE s == currentText
           p == caret'[1]
<1>1. s \in Seq(Bytes) /\ p \in 0..Len(s)
  OBVIOUS
<1>2. s' = s /\ Characters(currentText) = Characters(s) /\ Characters(currentText)' = Characters(s)
  OBVIOUS
<1>3. /\ Index(currentTextPosition)' = Len(Pre(s, p))
      /\ Index(currentTextCopyPosition)' = Len(Pre(s, copy'[1]))
      /\ Index(currentTextCopyPosition) = Len(Pre(s, copy[1]))
  BY FieldNow, FieldThen
<1>4. copy'[1] = copy[1] \/ copy'[1] = p
  OBVIOUS
<1> HIDE DEF s, p
<1>5. Len(Pre(s, p)) \in 0..Len(Characters(s))
  <2>1. Len(s) \in p..Len(s) /\ Pre(s, Len(s)) = Characters(s) /\ Characters(s) \in Seq(Bytes)
    BY <1>1, PreZero, CharactersType
  <2>2. Len(Pre(s, p)) \in Nat /\ Len(Pre(s, p)) <= Len(Pre(s, Len(s)))
    BY <1>1, <2>1, PreType, PreSplit
  <2> QED BY <2>1, <2>2
<1>6. Len(Pre(s, copy'[1])) \in {Len(Pre(s, copy[1])), Len(Pre(s, p))}
  BY <1>4
<1> QED BY <1>2, <1>3, <1>5, <1>6 DEF Field!Move

-----------------------------------------------------------------------------
(* The actions.  ~lost is the guard of all of them. *)
TextStep == TextInv' /\ (~lost' => FieldStep)

LEMMA UpdateStep ==
    ASSUME TextInv, ~lost, NEW s \in GameTexts \cup {<<>>}, Update(s),
           ignoreNextHideKeyboard' \in BOOLEAN
    PROVE  TextStep
<1>1. /\ s \in Seq(Bytes) /\ Whole(s) /\ Len(s) \in Nat /\ Len(s) <= MaxBytes
      /\ Characters(s) \in Seq(Bytes) /\ Boundary(s, Len(s))
      /\ GetLength(s, Len(s)) = Len(Characters(s)) /\ Pre(s, Len(s)) = Characters(s)
  BY GivenTexts
<1> DEFINE c == <<Len(s), Len(Characters(s))>>
<1>2. /\ currentText' = s /\ caret' = c /\ copy' = c /\ spoiled' = {}
      /\ lost' = lost /\ shiftPressed' = shiftPressed /\ altPressed' = altPressed
  BY <1>1 DEF Update, SetCaret, mods
<1>3. c \in Nat \X Nat /\ c[1] = Len(s) /\ c[2] = Len(Pre(s, Len(s)))
  BY <1>1
<1> HIDE DEF c
<1>4. TextTypeOK'
  <2>1. shiftPressed \in BOOLEAN /\ altPressed \in BOOLEAN /\ lost \in BOOLEAN
    BY TextTypes DEF TextInv
  <2>2. shiftPressed' \in BOOLEAN /\ altPressed' \in BOOLEAN /\ lost' \in BOOLEAN
    BY <1>2, <2>1, Zenon
  <2>3. currentText' \in Seq(Bytes) /\ Len(currentText') <= MaxBytes
    BY <1>1, <1>2
  <2>4. caret' \in Nat \X Nat /\ copy' \in Nat \X Nat /\ spoiled' \subseteq {"word", "beyond"}
    BY <1>2, <1>3
  <2> QED BY <2>2, <2>3, <2>4, TypesTextThen
<1>5. Placed(currentText', caret', copy')
  BY <1>1, <1>2, <1>3 DEF Placed
<1>6. Exactly(currentText', caret') /\ Exactly(currentText', copy')
  BY <1>2, <1>3 DEF Exactly
<1>7. ~lost'
  BY <1>2
<1>8. TextInv'
  BY <1>4, <1>5, <1>6, <1>7 DEF TextInv
<1>9. Field!Load
  <2>1. caret'[1] \in 0..Len(s)
    BY <1>1, <1>2, <1>3
  <2> QED BY <1>2, <2>1, LoadIs
<1> QED BY <1>8, <1>9 DEF TextStep, FieldStep, Field!Next

(* Nothing but the flags changes. *)
LEMMA SameText ==
    ASSUME TextInv, ignoreNextHideKeyboard' \in BOOLEAN,
           shiftPressed' \in BOOLEAN, altPressed' \in BOOLEAN,
           UNCHANGED <<currentText, caret, copy, spoiled, lost>>
    PROVE  TextStep
<1>1. TextTypeOK'
  <2>1. /\ currentText \in Seq(Bytes) /\ Len(currentText) <= MaxBytes
        /\ caret \in Nat \X Nat /\ copy \in Nat \X Nat /\ lost \in BOOLEAN
        /\ spoiled \subseteq {"word", "beyond"}
    BY TextTypes DEF TextInv
  <2>2. /\ currentText' \in Seq(Bytes) /\ Len(currentText') <= MaxBytes
        /\ caret' \in Nat \X Nat /\ copy' \in Nat \X Nat /\ lost' \in BOOLEAN
        /\ spoiled' \subseteq {"word", "beyond"}
    BY <2>1, Zenon
  <2> QED BY <2>2, TypesTextThen
<1>2. ~lost' => Placed(currentText', caret', copy')
  BY Zenon DEF TextInv
<1>3. spoiled' = {} => ~lost' /\ Exactly(currentText', caret') /\ Exactly(currentText', copy')
  BY Zenon DEF TextInv
<1>4. UNCHANGED <<Characters(currentText), Index(currentTextPosition),
                  Index(currentTextCopyPosition)>>
  <2>1. /\ Index(currentTextPosition)' = Index(currentTextPosition)
        /\ Index(currentTextCopyPosition)' = Index(currentTextCopyPosition)
    BY FieldNow, FieldThen
  <2> QED BY <2>1
<1> QED BY <1>1, <1>2, <1>3, <1>4 DEF TextInv, TextStep, FieldStep

(* The cursor moves to a place between characters. *)
LEMMA MovedTo ==
    ASSUME TextInv, ~lost, NEW q, NEW u \in Nat, Boundary(currentText, q),
           Len(Pre(currentText, q)) <= u,
           spoiled = {} => u = Len(Pre(currentText, q)),
           caret' = <<q, u>>, copy' \in {copy, caret'},
           ignoreNextHideKeyboard' \in BOOLEAN,
           shiftPressed' \in BOOLEAN, altPressed' \in BOOLEAN,
           UNCHANGED <<currentText, spoiled, lost>>
    PROVE  TextStep
<1>1. /\ currentText \in Seq(Bytes) /\ Len(currentText) <= MaxBytes
      /\ caret \in Nat \X Nat /\ copy \in Nat \X Nat /\ lost \in BOOLEAN
      /\ spoiled \subseteq {"word", "beyond"}
  BY TextTypes DEF TextInv
<1>2. q \in 0..Len(currentText) /\ q \in Nat
  BY <1>1 DEF Boundary
<1>3. caret' \in Nat \X Nat /\ caret'[1] = q /\ caret'[2] = u
  BY <1>2
<1>4. copy' = copy \/ copy' = caret'
  OBVIOUS
<1>5. TextTypeOK'
  <2>1. /\ currentText' \in Seq(Bytes) /\ Len(currentText') <= MaxBytes
        /\ lost' \in BOOLEAN /\ spoiled' \subseteq {"word", "beyond"}
    BY <1>1, Zenon
  <2>2. copy' \in Nat \X Nat
    BY <1>1, <1>3, <1>4, Zenon
  <2> QED BY <1>3, <2>1, <2>2, TypesTextThen
<1>6. Placed(currentText, caret, copy)
  BY DEF TextInv
<1>7. Placed(currentText', caret', copy')
  BY <1>3, <1>4, <1>6 DEF Placed
<1>8. ASSUME spoiled' = {}
      PROVE  ~lost' /\ Exactly(currentText', caret') /\ Exactly(currentText', copy')
  <2>1. Exactly(currentText, copy) /\ u = Len(Pre(currentText, q))
    BY <1>8 DEF TextInv
  <2>2. Exactly(currentText, caret')
    BY <1>3, <2>1 DEF Exactly
  <2> QED BY <1>4, <2>1, <2>2, Zenon
<1>9. Field!Move
  BY <1>1, <1>2, <1>3, MoveIs
<1> QED BY <1>5, <1>7, <1>8, <1>9 DEF TextInv, TextStep, FieldStep, Field!Next

(* What setCursorPosition makes of a position. *)
LEMMA CursorAtIs ==
    ASSUME NEW s \in Seq(Bytes), Whole(s), NEW pos \in Int
    PROVE  LET c == CursorAt(s, pos)
           IN  /\ c \in Nat \X Nat /\ c[1] \in 0..Len(s)
               /\ Len(Pre(s, c[1])) <= c[2]
               /\ ~FallsInside(s, c[1]) => Boundary(s, c[1])
               /\ Beyond(s, pos) \subseteq {"beyond"}
               /\ Beyond(s, pos) = {} => Exactly(s, c) /\ Boundary(s, c[1])
<1> DEFINE n == Len(s)
           C == Len(Characters(s))
           c == CursorAt(s, pos)
<1>1. n \in Nat /\ Boundary(s, n)
  BY DEF Boundary
<1>2. Characters(s) \in Seq(Bytes) /\ Pre(s, n) = Characters(s) /\ C <= n
  BY CharactersType, PreZero
<1>3. GetLength(s, n) = C /\ C \in Nat
  <2>1. GetLength(s, n) = Len(Pre(s, n))
    <3> HIDE DEF n
    <3> QED BY <1>1, GetLengthCounts
  <2> QED BY <1>2, <2>1
<1>4. \A p \in 0..n : ~FallsInside(s, p) => Boundary(s, p)
  BY DEF FallsInside, Boundary
<1>5. Beyond(s, pos) = IF pos > C THEN {"beyond"} ELSE {}
  BY <1>3 DEF Beyond
<1>6. CASE pos < 0
  <2>1. c = <<n, C>>
    BY <1>3, <1>6 DEF CursorAt
  <2>2. c \in Nat \X Nat /\ c[1] = n /\ c[2] = C
    BY <1>1, <1>3, <2>1
  <2>3. Len(Pre(s, n)) = C
    BY <1>2
  <2> HIDE DEF c, C, n
  <2>4. n \in 0..Len(s)
    BY <1>1 DEF n
  <2> QED BY <1>1, <1>3, <1>4, <1>5, <2>2, <2>3, <2>4 DEF Exactly, c
<1>7. CASE pos >= 0
  <2> DEFINE q == GetBytePosFromUTF(s, pos)
  <2>1. pos \in Nat
    BY <1>7
  <2>2. c = <<q, pos>>
    BY <1>7 DEF CursorAt
  <2>3. IF pos <= C THEN Boundary(s, q) /\ Len(Pre(s, q)) = pos ELSE q = C
    BY <2>1, GetBytePosFinds DEF Found
  <2> HIDE DEF q, c
  <2>4. q \in 0..n
    BY <1>1, <1>2, <1>3, <2>3 DEF Boundary
  <2>5. c \in Nat \X Nat /\ c[1] = q /\ c[2] = pos
    BY <1>1, <2>1, <2>2, <2>4
  <2>6. Len(Pre(s, q)) <= pos
    <3>1. CASE pos <= C
      BY <2>1, <2>3, <3>1
    <3>2. CASE ~(pos <= C)
      <4>1. Len(Pre(s, q)) \in 0..q
        BY <2>4, PreType
      <4> QED BY <1>3, <2>1, <2>3, <3>2, <4>1
    <3> QED BY <3>1, <3>2
  <2> HIDE DEF n, C
  <2>7. Beyond(s, pos) = {} => pos <= C
    BY <1>3, <1>5, <2>1
  <2>8. Beyond(s, pos) \subseteq {"beyond"}
    BY <1>5
  <2>9. Beyond(s, pos) = {} => Exactly(s, c) /\ Boundary(s, c[1])
    BY <2>3, <2>5, <2>7 DEF Exactly
  <2>10. ~FallsInside(s, c[1]) => Boundary(s, c[1])
    BY <1>4, <2>4, <2>5
  <2> QED BY <2>4, <2>5, <2>6, <2>8, <2>9, <2>10 DEF c, n
<1> QED BY <1>6, <1>7


LEMMA SetCaretPositionStep ==
    ASSUME TextInv, ~lost, NEW pos \in Carets, SetCaretPosition(pos)
    PROVE  TextStep
<1> DEFINE s == currentText
           c == CursorAt(s, pos)
<1>1. /\ s \in Seq(Bytes) /\ Len(s) <= MaxBytes
      /\ caret \in Nat \X Nat /\ copy \in Nat \X Nat
      /\ shiftPressed \in BOOLEAN /\ altPressed \in BOOLEAN
      /\ ignoreNextHideKeyboard \in BOOLEAN /\ spoiled \subseteq {"word", "beyond"}
  BY TextTypes DEF TextInv
<1>2. Placed(s, caret, copy)
  BY DEF TextInv
<1>3. /\ currentText' = s /\ caret' = c /\ copy' \in {copy, caret'}
      /\ spoiled' = spoiled \cup Beyond(s, pos) /\ lost' = FallsInside(s, c[1])
      /\ shiftPressed' = shiftPressed /\ altPressed' = altPressed
      /\ ignoreNextHideKeyboard' = ignoreNextHideKeyboard
  BY DEF SetCaretPosition, Collapse, mods
<1>4. Whole(s) /\ pos \in Int
  BY <1>2, InputsAssumption DEF Placed
<1> HIDE DEF s
<1>5. /\ c \in Nat \X Nat /\ c[1] \in 0..Len(s)
      /\ Len(Pre(s, c[1])) <= c[2]
      /\ ~FallsInside(s, c[1]) => Boundary(s, c[1])
      /\ Beyond(s, pos) \subseteq {"beyond"}
      /\ Beyond(s, pos) = {} => Exactly(s, c) /\ Boundary(s, c[1])
  BY <1>1, <1>4, CursorAtIs
<1> HIDE DEF c
<1>6. TextTypeOK'
  <2>1. copy' \in Nat \X Nat /\ caret' \in Nat \X Nat
    BY <1>1, <1>3, <1>5, Zenon
  <2>2. spoiled' \subseteq {"word", "beyond"}
    BY <1>1, <1>3, <1>5
  <2>3. lost' \in BOOLEAN
    BY <1>3 DEF FallsInside
  <2>4. /\ shiftPressed' \in BOOLEAN /\ altPressed' \in BOOLEAN
        /\ ignoreNextHideKeyboard' \in BOOLEAN
    BY <1>1, <1>3, Zenon
  <2>5. currentText' \in Seq(Bytes) /\ Len(currentText') <= MaxBytes
    BY <1>1, <1>3, Zenon
  <2> QED BY <2>1, <2>2, <2>3, <2>4, <2>5, TypesTextThen
<1>7. ASSUME ~lost' PROVE Placed(currentText', caret', copy')
  <2>1. Boundary(s, c[1])
    BY <1>3, <1>5, <1>7
  <2>2. Boundary(s, copy'[1])
    BY <1>2, <1>3, <2>1 DEF Placed
  <2> QED BY <1>3, <1>4, <1>5, <2>1, <2>2 DEF Placed
<1>8. ASSUME spoiled' = {}
      PROVE  ~lost' /\ Exactly(currentText', caret') /\ Exactly(currentText', copy')
  <2>1. spoiled = {} /\ Beyond(s, pos) = {}
    BY <1>3, <1>8
  <2>2. Exactly(s, c) /\ Boundary(s, c[1]) /\ Exactly(s, copy)
    BY <1>5, <2>1 DEF TextInv, s
  <2>3. ~FallsInside(s, c[1])
    BY <2>2 DEF Boundary, FallsInside
  <2> QED BY <1>3, <2>2, <2>3, Zenon
<1>9. Field!Move
  BY <1>1, <1>3, <1>5, MoveIs DEF s
<1> QED BY <1>6, <1>7, <1>8, <1>9 DEF TextInv, TextStep, FieldStep, Field!Next

LEMMA SetStateStep ==
    ASSUME TextInv, ~lost, NEW s \in GameTexts, NEW pos \in Carets, SetState(s, pos)
    PROVE  TextStep
<1> DEFINE c == CursorAt(s, pos)
           d == CursorAt(s, -1)
<1>1. /\ shiftPressed \in BOOLEAN /\ altPressed \in BOOLEAN
      /\ ignoreNextHideKeyboard \in BOOLEAN
  BY TextTypes DEF TextInv
<1>2. /\ s \in Seq(Bytes) /\ Whole(s) /\ Len(s) \in Nat /\ Len(s) <= MaxBytes
      /\ Characters(s) \in Seq(Bytes) /\ Boundary(s, Len(s))
      /\ GetLength(s, Len(s)) = Len(Characters(s)) /\ Pre(s, Len(s)) = Characters(s)
  BY GivenTexts
<1>3. /\ currentText' = s /\ caret' = c /\ (copy' = d \/ copy' = caret')
      /\ spoiled' = Beyond(s, pos) /\ lost' = FallsInside(s, c[1])
      /\ shiftPressed' = shiftPressed /\ altPressed' = altPressed
      /\ ignoreNextHideKeyboard' = ignoreNextHideKeyboard
  BY DEF SetState, mods
<1>4. pos \in Int
  BY InputsAssumption
<1>5. /\ c \in Nat \X Nat /\ c[1] \in 0..Len(s)
      /\ Len(Pre(s, c[1])) <= c[2]
      /\ ~FallsInside(s, c[1]) => Boundary(s, c[1])
      /\ Beyond(s, pos) \subseteq {"beyond"}
      /\ Beyond(s, pos) = {} => Exactly(s, c) /\ Boundary(s, c[1])
  BY <1>2, <1>4, CursorAtIs
<1>6. d = <<Len(s), Len(Characters(s))>>
  BY <1>2 DEF CursorAt
<1>7. d \in Nat \X Nat /\ d[1] = Len(s) /\ d[2] = Len(Pre(s, Len(s)))
  BY <1>2, <1>6
<1> HIDE DEF c, d
<1>8. TextTypeOK'
  <2>1. copy' \in Nat \X Nat /\ caret' \in Nat \X Nat
    BY <1>3, <1>5, <1>7, Zenon
  <2>2. spoiled' \subseteq {"word", "beyond"}
    BY <1>3, <1>5
  <2>3. lost' \in BOOLEAN
    BY <1>3 DEF FallsInside
  <2>4. /\ shiftPressed' \in BOOLEAN /\ altPressed' \in BOOLEAN
        /\ ignoreNextHideKeyboard' \in BOOLEAN
    BY <1>1, <1>3, Zenon
  <2>5. currentText' \in Seq(Bytes) /\ Len(currentText') <= MaxBytes
    BY <1>2, <1>3, Zenon
  <2> QED BY <2>1, <2>2, <2>3, <2>4, <2>5, TypesTextThen
<1>9. ASSUME ~lost' PROVE Placed(currentText', caret', copy')
  <2>1. Boundary(s, c[1])
    BY <1>3, <1>5, <1>9
  <2>2. Boundary(s, copy'[1])
    BY <1>2, <1>3, <1>7, <2>1
  <2> QED BY <1>2, <1>3, <1>5, <2>1, <2>2 DEF Placed
<1>10. ASSUME spoiled' = {}
      PROVE  ~lost' /\ Exactly(currentText', caret') /\ Exactly(currentText', copy')
  <2>1. Exactly(s, c) /\ Boundary(s, c[1])
    BY <1>3, <1>5, <1>10
  <2>2. Exactly(s, d)
    BY <1>7 DEF Exactly
  <2>3. ~FallsInside(s, c[1])
    BY <2>1 DEF Boundary, FallsInside
  <2> QED BY <1>3, <2>1, <2>2, <2>3, Zenon
<1>11. Field!Load
  <2>1. caret'[1] \in 0..Len(s) /\ (copy' = caret' \/ copy'[1] = Len(s))
    BY <1>3, <1>5, <1>7
  <2>2. s \in GameTexts \cup {<<>>}
    OBVIOUS
  <2> QED BY <1>3, <2>1, <2>2, LoadIs
<1> QED BY <1>8, <1>9, <1>10, <1>11 DEF TextInv, TextStep, FieldStep, Field!Next

(* What the game does. *)
LEMMA GameStep ==
    ASSUME TextInv, ~lost, Game
    PROVE  TextStep
<1>0. /\ shiftPressed \in BOOLEAN /\ altPressed \in BOOLEAN
      /\ ignoreNextHideKeyboard \in BOOLEAN
  BY TextTypes DEF TextInv
<1>1. ASSUME NEW s \in GameTexts, ShowKeyboard(s) \/ UpdateTextboxText(s) \/ SetTextBoxBackend(s)
      PROVE  TextStep
  <2>1. s \in GameTexts \cup {<<>>} /\ Update(s)
    BY <1>1 DEF ShowKeyboard, UpdateTextboxText, SetTextBoxBackend
  <2>2. ignoreNextHideKeyboard' \in BOOLEAN
    BY <1>0, <1>1, Zenon DEF ShowKeyboard, UpdateTextboxText, SetTextBoxBackend
  <2> QED BY <2>1, <2>2, UpdateStep
<1>2. CASE HideKeyboard
  <2>1. ignoreNextHideKeyboard' \in BOOLEAN
    BY <1>2, Zenon DEF HideKeyboard
  <2>2. CASE ignoreNextHideKeyboard
    <3>1. UNCHANGED <<currentText, caret, copy, spoiled, lost>>
      BY <1>2, <2>2 DEF HideKeyboard
    <3>2. shiftPressed' = shiftPressed /\ altPressed' = altPressed
      BY <1>2, <2>2 DEF HideKeyboard, mods
    <3> QED BY <1>0, <2>1, <3>1, <3>2, SameText
  <2>3. CASE ~ignoreNextHideKeyboard
    <3>1. <<>> \in GameTexts \cup {<<>>}
      OBVIOUS
    <3>2. Update(<<>>)
      BY <1>2, <2>3 DEF HideKeyboard
    <3> QED BY <2>1, <3>1, <3>2, UpdateStep
  <2> QED BY <2>2, <2>3
<1>3. CASE GetCaretPosition
  <2>1. ignoreNextHideKeyboard' \in BOOLEAN
    BY <1>3, Zenon DEF GetCaretPosition
  <2>2. UNCHANGED <<currentText, caret, copy, spoiled, lost>>
    BY <1>3 DEF GetCaretPosition
  <2>3. shiftPressed' = shiftPressed /\ altPressed' = altPressed
    BY <1>3 DEF GetCaretPosition, mods
  <2> QED BY <1>0, <2>1, <2>2, <2>3, SameText
<1> QED BY <1>1, <1>2, <1>3, SetStateStep, SetCaretPositionStep DEF Game

-----------------------------------------------------------------------------
(* The keys that move the cursor. *)
LEMMA KeyStep ==
    ASSUME TextInv, ~lost, NEW shift \in BOOLEAN, NEW alt \in BOOLEAN, KeyEvent(shift, alt),
           NEW q, NEW u \in Nat, Boundary(currentText, q), Len(Pre(currentText, q)) <= u,
           spoiled = {} => u = Len(Pre(currentText, q)),
           caret' = <<q, u>>, copy' \in {copy, caret'}
    PROVE  TextStep
<1>1. ignoreNextHideKeyboard \in BOOLEAN
  BY TextTypes DEF TextInv
<1>2. shiftPressed' \in BOOLEAN /\ altPressed' \in BOOLEAN /\ ignoreNextHideKeyboard' \in BOOLEAN
  BY <1>1, Zenon DEF KeyEvent
<1>3. UNCHANGED <<currentText, spoiled, lost>>
  BY DEF KeyEvent
<1> QED BY <1>2, <1>3, MovedTo

LEMMA ExactStep ==
    ASSUME TextInv, ~lost, NEW shift \in BOOLEAN, NEW alt \in BOOLEAN, KeyEvent(shift, alt),
           NEW q, Boundary(currentText, q), caret' = Exact(q), copy' \in {copy, caret'}
    PROVE  TextStep
<1>1. currentText \in Seq(Bytes)
  BY TextTypes DEF TextInv
<1>2. Whole(currentText)
  BY DEF TextInv, Placed
<1>3. GetLength(currentText, q) = Len(Pre(currentText, q))
  BY <1>1, <1>2, GetLengthCounts
<1>4. q \in 0..Len(currentText)
  BY DEF Boundary
<1>5. Len(Pre(currentText, q)) \in Nat
  BY <1>1, <1>4, PreType
<1>6. caret' = <<q, Len(Pre(currentText, q))>>
  BY <1>3 DEF Exact
<1>7. Len(Pre(currentText, q)) <= Len(Pre(currentText, q))
  BY <1>5
<1> QED BY <1>5, <1>6, <1>7, KeyStep

LEMMA StillStep ==
    ASSUME TextInv, NEW shift \in BOOLEAN, NEW alt \in BOOLEAN, KeyEvent(shift, alt),
           UNCHANGED <<caret, copy>>
    PROVE  TextStep
<1>1. ignoreNextHideKeyboard \in BOOLEAN
  BY TextTypes DEF TextInv
<1>2. shiftPressed' \in BOOLEAN /\ altPressed' \in BOOLEAN /\ ignoreNextHideKeyboard' \in BOOLEAN
  BY <1>1, Zenon DEF KeyEvent
<1>3. UNCHANGED <<currentText, caret, copy, spoiled, lost>>
  BY DEF KeyEvent
<1> QED BY <1>2, <1>3, SameText

(* What the keys start from. *)
LEMMA PlacedNow ==
    ASSUME TextInv, ~lost
    PROVE  /\ currentText \in Seq(Bytes) /\ Len(currentText) \in Nat /\ Whole(currentText)
           /\ Boundary(currentText, caret[1]) /\ Boundary(currentText, copy[1])
           /\ caret[1] \in 0..Len(currentText) /\ copy[1] \in 0..Len(currentText)
           /\ caret[2] \in Nat /\ Len(Pre(currentText, caret[1])) \in Nat
           /\ Len(Pre(currentText, caret[1])) <= caret[2]
           /\ spoiled = {} => caret[2] = Len(Pre(currentText, caret[1]))
<1>1. currentText \in Seq(Bytes) /\ Len(currentText) \in Nat /\ caret[2] \in Nat
  BY TextTypes DEF TextInv
<1>2. Placed(currentText, caret, copy)
  BY DEF TextInv
<1>3. caret[1] \in 0..Len(currentText) /\ copy[1] \in 0..Len(currentText)
  BY <1>2 DEF Placed, Boundary
<1>4. Len(Pre(currentText, caret[1])) \in Nat
  BY <1>1, <1>3, PreType
<1>5. spoiled = {} => caret[2] = Len(Pre(currentText, caret[1]))
  BY DEF TextInv, Exactly
<1> QED BY <1>1, <1>2, <1>3, <1>4, <1>5 DEF Placed

LEMMA EndSelectionStep ==
    ASSUME TextInv, ~lost, NEW shift \in BOOLEAN, NEW alt \in BOOLEAN,
           NEW p \in {caret[1], copy[1]}, EndSelection(p, shift, alt)
    PROVE  TextStep
<1>1. Boundary(currentText, p)
  BY PlacedNow
<1>2. KeyEvent(shift, alt) /\ caret' = Exact(p) /\ copy' \in {copy, caret'}
  BY DEF EndSelection
<1> QED BY <1>1, <1>2, ExactStep

LEMMA EndsOfSelection ==
    ASSUME NEW p \in Nat, NEW q \in Nat
    PROVE  Max({p, q}) \in {p, q} /\ Min({p, q}) \in {p, q}
<1> DEFINE S == {p, q}
<1>1. S \in SUBSET Nat /\ S # {} /\ p + q \in Nat /\ S \in SUBSET (0..(p + q))
  OBVIOUS
<1> HIDE DEF S
<1>2. Max(S) \in S /\ Min(S) \in S
  BY <1>1, MaxOfBounded, MinOfBounded
<1> QED BY <1>2 DEF S

LEMMA RightStep ==
    ASSUME TextInv, ~lost, NEW shift \in BOOLEAN, NEW alt \in BOOLEAN, Right(shift, alt)
    PROVE  TextStep
<1> DEFINE p == caret[1]
           q == IF IsSpace(p) THEN Forth(p, NonSpaces) ELSE p
           wordEnd == IF q < Size THEN Forth(q, Spaces) ELSE q
<1>1. /\ currentText \in Seq(Bytes) /\ Len(currentText) \in Nat /\ Whole(currentText)
      /\ Boundary(currentText, p) /\ p \in 0..Len(currentText) /\ copy[1] \in 0..Len(currentText)
      /\ caret[2] \in Nat /\ Len(Pre(currentText, p)) \in Nat
      /\ Len(Pre(currentText, p)) <= caret[2]
      /\ spoiled = {} => caret[2] = Len(Pre(currentText, p))
  BY PlacedNow
<1>2. \/ EndSelection(Max({p, copy[1]}), shift, alt)
      \/ /\ KeyEvent(shift, alt)
         /\ p >= Size => UNCHANGED <<caret, copy>>
         /\ ~(p >= Size) => /\ caret' = IF alt THEN Exact(wordEnd)
                                        ELSE <<CharEnd(p + 1), caret[2] + 1>>
                            /\ copy' \in {copy, caret'}
  BY DEF Right, currentTextPosition, currentTextCopyPosition, currentTextPositionUTF, Collapse
<1>3. CASE EndSelection(Max({p, copy[1]}), shift, alt)
  <2>0. p \in Nat /\ copy[1] \in Nat
    BY <1>1
  <2>1. Max({p, copy[1]}) \in {caret[1], copy[1]}
    BY <2>0, EndsOfSelection, Zenon
  <2> QED BY <1>3, <2>1, EndSelectionStep
<1>4. CASE KeyEvent(shift, alt) /\ UNCHANGED <<caret, copy>>
  BY <1>4, StillStep
<1>5. CASE /\ KeyEvent(shift, alt) /\ p < Size /\ alt /\ caret' = Exact(wordEnd)
           /\ copy' \in {copy, caret'}
  <2>1. q \in 0..Len(currentText)
    <3>1. NonSpaces \in SUBSET (0..Len(currentText)) /\ NonSpaces \in SUBSET Nat
      BY <1>1, PlacesType
    <3>2. Forth(p, NonSpaces) \in {Len(currentText)} \cup NonSpaces
      BY <1>1, <3>1, ForthIs
    <3>3. Forth(p, NonSpaces) \in 0..Len(currentText)
      <4>1. Len(currentText) \in 0..Len(currentText)
        BY <1>1
      <4> QED BY <3>1, <3>2, <4>1, Zenon
    <3> QED BY <1>1, <3>3
  <2> HIDE DEF q
  <2>2. Boundary(currentText, wordEnd)
    BY <1>1, <2>1, WordEndIs
  <2> HIDE DEF wordEnd
  <2> QED BY <1>5, <2>2, ExactStep
<1>6. CASE /\ KeyEvent(shift, alt) /\ p < Size /\ caret' = <<CharEnd(p + 1), caret[2] + 1>>
           /\ copy' \in {copy, caret'}
  <2> DEFINE e == p + CharByteSize(currentText[p + 1])
  <2>1. /\ e \in (p + 1)..Len(currentText) /\ OneCharacter(currentText, p, e)
        /\ Boundary(currentText, e) /\ EndIn(currentText, p + 1) = e
    BY <1>1, <1>6, NextPlace DEF Size
  <2> HIDE DEF e, p
  <2>2. e \in 0..Len(currentText)
    BY <1>1, <2>1
  <2>3. Len(Pre(currentText, e)) = Len(Pre(currentText, p)) + 1
    BY <1>1, <2>1, <2>2, OneMore
  <2>4. /\ caret[2] + 1 \in Nat /\ Len(Pre(currentText, e)) <= caret[2] + 1
        /\ spoiled = {} => caret[2] + 1 = Len(Pre(currentText, e))
    <3>1. \A i, j \in Nat : i + 1 \in Nat /\ (i <= j => i + 1 <= j + 1)
      OBVIOUS
    <3>2. caret[2] + 1 \in Nat /\ Len(Pre(currentText, p)) + 1 <= caret[2] + 1
      BY <1>1, <3>1
    <3> QED BY <1>1, <2>3, <3>2
  <2>5. caret' = <<e, caret[2] + 1>>
    BY <1>6, <2>1 DEF CharEnd
  <2> QED BY <1>6, <2>1, <2>4, <2>5, KeyStep
<1>7. p < Size \/ p >= Size
  BY <1>1 DEF Size
<1> HIDE DEF p, q, wordEnd
<1> QED BY <1>2, <1>3, <1>4, <1>5, <1>6, <1>7

LEMMA LeftStep ==
    ASSUME TextInv, ~lost, NEW shift \in BOOLEAN, NEW alt \in BOOLEAN, Left(shift, alt)
    PROVE  TextStep
<1> DEFINE p == caret[1]
           q == IF IsSpace(p - 1) THEN Back(p, 1..p \ AfterSpaces) ELSE p
           wordStart == Back(q, AfterSpaces)
<1>1. /\ currentText \in Seq(Bytes) /\ Len(currentText) \in Nat /\ Whole(currentText)
      /\ Boundary(currentText, p) /\ p \in 0..Len(currentText) /\ copy[1] \in 0..Len(currentText)
      /\ caret[2] \in Nat /\ Len(Pre(currentText, p)) \in Nat
      /\ Len(Pre(currentText, p)) <= caret[2]
      /\ spoiled = {} => caret[2] = Len(Pre(currentText, p))
  BY PlacedNow
<1>2. \/ EndSelection(Min({p, copy[1]}), shift, alt)
      \/ /\ KeyEvent(shift, alt)
         /\ p <= 0 => UNCHANGED <<caret, copy>>
         /\ ~(p <= 0) => /\ caret' = IF alt THEN Exact(wordStart)
                                     ELSE <<CharStart(p - 1), caret[2] - 1>>
                         /\ copy' \in {copy, caret'}
  BY DEF Left, currentTextPosition, currentTextCopyPosition, currentTextPositionUTF, Collapse
<1>3. CASE EndSelection(Min({p, copy[1]}), shift, alt)
  <2>0. p \in Nat /\ copy[1] \in Nat
    BY <1>1
  <2>1. Min({p, copy[1]}) \in {caret[1], copy[1]}
    BY <2>0, EndsOfSelection, Zenon
  <2> QED BY <1>3, <2>1, EndSelectionStep
<1>4. CASE KeyEvent(shift, alt) /\ UNCHANGED <<caret, copy>>
  BY <1>4, StillStep
<1>5. CASE KeyEvent(shift, alt) /\ caret' = Exact(wordStart) /\ copy' \in {copy, caret'}
  <2> HIDE DEF q
  <2>1. Boundary(currentText, wordStart)
    BY <1>1, WordBeginIs
  <2> HIDE DEF wordStart
  <2> QED BY <1>5, <2>1, ExactStep
<1>6. CASE /\ KeyEvent(shift, alt) /\ ~(p <= 0) /\ caret' = <<CharStart(p - 1), caret[2] - 1>>
           /\ copy' \in {copy, caret'}
  <2> DEFINE b == CharStart(p - 1)
  <2> HIDE DEF p
  <2>0. 0 < p
    BY <1>1, <1>6
  <2>1. /\ b \in 0..(p - 1) /\ Boundary(currentText, b) /\ OneCharacter(currentText, b, p)
    BY <1>1, <2>0, CharStartIs
  <2> HIDE DEF b
  <2>2. b \in 0..Len(currentText)
    BY <1>1, <2>1
  <2>3. Len(Pre(currentText, p)) = Len(Pre(currentText, b)) + 1
    BY <1>1, <2>1, <2>2, OneMore
  <2>4. Len(Pre(currentText, b)) \in Nat
    BY <1>1, <2>2, PreType
  <2>5. /\ caret[2] - 1 \in Nat /\ Len(Pre(currentText, b)) <= caret[2] - 1
        /\ spoiled = {} => caret[2] - 1 = Len(Pre(currentText, b))
    BY <1>1, <2>3, <2>4
  <2>6. caret' = <<b, caret[2] - 1>>
    BY <1>6 DEF b
  <2> QED BY <1>6, <2>1, <2>5, <2>6, KeyStep
<1> HIDE DEF p, q, wordStart
<1> QED BY <1>2, <1>3, <1>4, <1>5, <1>6

LEMMA HomeEndStep ==
    ASSUME TextInv, ~lost, NEW shift \in BOOLEAN, NEW alt \in BOOLEAN,
           Home(shift, alt) \/ End(shift, alt)
    PROVE  TextStep
<1>1. currentText \in Seq(Bytes) /\ Len(currentText) \in Nat /\ Whole(currentText)
  BY PlacedNow
<1>2. KeyEvent(shift, alt) /\ copy' \in {copy, caret'}
  BY DEF Home, End, Collapse
<1>3. CASE Home(shift, alt)
  <2>1. caret' = <<0, 0>>
    BY <1>3 DEF Home
  <2>2. Boundary(currentText, 0)
    BY <1>1 DEF Whole
  <2>3. Len(Pre(currentText, 0)) = 0
    BY <1>1, PreZero
  <2>4. 0 \in Nat /\ Len(Pre(currentText, 0)) <= 0
    BY <2>3
  <2> QED BY <1>2, <2>1, <2>2, <2>3, <2>4, KeyStep
<1>4. CASE End(shift, alt)
  <2>1. caret' = Exact(Len(currentText))
    BY <1>4 DEF End, Size
  <2>2. Boundary(currentText, Len(currentText))
    BY <1>1 DEF Boundary
  <2> QED BY <1>2, <2>1, <2>2, ExactStep
<1> QED BY <1>3, <1>4

-----------------------------------------------------------------------------
(* The keys that edit.  What they leave is a whole text with the cursor, and the
   other end of the selection, at c. *)
LEMMA EditedStep ==
    ASSUME TextInv, ~lost, NEW t \in Seq(Bytes), Len(t) <= MaxBytes, Whole(t),
           NEW p \in Nat, NEW u \in Nat, Boundary(t, p), Len(Pre(t, p)) <= u,
           caret' = <<p, u>>, Edited(t), UNCHANGED lost,
           spoiled' \subseteq {"word", "beyond"},
           spoiled' = {} => u = Len(Pre(t, p)),
           FieldStep
    PROVE  TextStep
<1>1. /\ shiftPressed \in BOOLEAN /\ altPressed \in BOOLEAN
      /\ ignoreNextHideKeyboard \in BOOLEAN /\ lost \in BOOLEAN
  BY TextTypes DEF TextInv
<1>2. /\ currentText' = t /\ copy' = caret'
      /\ shiftPressed' = shiftPressed /\ altPressed' = altPressed
      /\ ignoreNextHideKeyboard' = ignoreNextHideKeyboard
  BY DEF Edited, mods
<1>3. caret' \in Nat \X Nat /\ caret'[1] = p /\ caret'[2] = u
  OBVIOUS
<1>4. TextTypeOK'
  <2>1. /\ shiftPressed' \in BOOLEAN /\ altPressed' \in BOOLEAN
        /\ ignoreNextHideKeyboard' \in BOOLEAN /\ lost' \in BOOLEAN
    BY <1>1, <1>2, Zenon
  <2>2. currentText' \in Seq(Bytes) /\ Len(currentText') <= MaxBytes
    BY <1>2, Zenon
  <2>3. copy' \in Nat \X Nat
    BY <1>2, <1>3, Zenon
  <2> QED BY <1>3, <2>1, <2>2, <2>3, TypesTextThen
<1>5. Placed(t, caret', copy')
  BY <1>2, <1>3 DEF Placed
<1>6. spoiled' = {} => Exactly(t, caret') /\ Exactly(t, copy')
  BY <1>2, <1>3 DEF Exactly
<1>7. ~lost'
  OBVIOUS
<1> QED BY <1>2, <1>4, <1>5, <1>6, <1>7 DEF TextInv, TextStep

LEMMA TypeStep ==
    ASSUME TextInv, ~lost, NEW s \in Inputs, Type(s)
    PROVE  TextStep
<1> DEFINE x == currentText
           p == caret[1]
           C == Characters(x)
           k == Len(Pre(x, p))
           R == Characters(s)
           n == Len(R)
           t == With(x, p, s)
           D == SubSeq(C, k + 1, Len(C))
           A == SubSeq(C, 1, k)
<1>1. /\ x \in Seq(Bytes) /\ Len(x) \in Nat /\ Whole(x)
      /\ Boundary(x, p) /\ p \in 0..Len(x)
      /\ caret[2] \in Nat /\ k \in Nat /\ k <= caret[2]
      /\ spoiled = {} => caret[2] = k
  BY PlacedNow
<1>2. /\ s \in Seq(Bytes) /\ Whole(s) /\ Len(s) \in Nat
      /\ R \in Seq(Bytes) /\ n \in Nat \ {0} /\ GetLength(s, Len(s)) = n
  BY TypedTexts
<1>3. /\ Len(x) + Len(s) <= MaxBytes /\ caret' = <<p + Len(s), caret[2] + n>>
      /\ Edited(t) /\ UNCHANGED <<spoiled, lost>>
  BY <1>2 DEF Type, SetCaret, currentTextPosition, currentTextPositionUTF, Size, With
<1>4. spoiled \subseteq {"word", "beyond"}
  BY TextTypes DEF TextInv
<1>5. currentText' = t /\ copy' = caret'
  BY <1>3 DEF Edited
<1>6. C \in Seq(Bytes) /\ Len(C) \in Nat /\ k <= Len(C)
  <2>1. Len(x) \in p..Len(x) /\ Pre(x, Len(x)) = C
    BY <1>1, PreZero
  <2>2. k <= Len(Pre(x, Len(x)))
    <3> HIDE DEF x, p
    <3> QED BY <1>1, <2>1, PreSplit DEF k
  <2>3. C \in Seq(Bytes)
    BY <1>1, CharactersType
  <2> QED BY <2>1, <2>2, <2>3
<1>7. A \in Seq(Bytes) /\ Len(A) = k /\ D \in Seq(Bytes) /\ Len(D) = Len(C) - k
  <2> HIDE DEF C, k
  <2>1. A \in Seq(Bytes) /\ Len(A) = k
    BY <1>1, <1>6
  <2>2. D \in Seq(Bytes) /\ Len(D) = Len(C) - k
    BY <1>1, <1>6
  <2> QED BY <2>1, <2>2
<1> HIDE DEF x, p
<1>8. /\ t \in Seq(Bytes) /\ Len(t) = Len(x) + Len(s) /\ Whole(t)
      /\ Boundary(t, p + Len(s)) /\ Len(Pre(t, p + Len(s))) = k + n
      /\ Characters(t) = A \o R \o D
  <2>1. x \in Seq(Bytes) /\ Whole(x) /\ Boundary(x, p) /\ s \in Seq(Bytes) /\ Whole(s)
    BY <1>1, <1>2
  <2>2. PutTogether(x, p, s, t, k)
    BY <2>1, PutIn
  <2> HIDE DEF t, k
  <2>3. Characters(t) = A \o R \o D
    BY <2>2 DEF PutTogether
  <2>4. /\ t \in Seq(Bytes) /\ Len(t) = Len(x) + Len(s) /\ Whole(t)
        /\ Boundary(t, p + Len(s)) /\ Len(Pre(t, p + Len(s))) = k + n
    BY <2>2 DEF PutTogether
  <2> QED BY <2>3, <2>4
<1> HIDE DEF t
<1>9. /\ Characters(currentText) = C /\ Characters(currentText)' = Characters(t)
      /\ Index(currentTextPosition) = k
      /\ Index(currentTextPosition)' = k + n /\ Index(currentTextCopyPosition)' = k + n
  <2>1. caret'[1] = p + Len(s) /\ copy'[1] = p + Len(s)
    BY <1>3, <1>5
  <2> QED BY <1>5, <1>8, <2>1, FieldNow, FieldThen DEF x, p
<1> HIDE DEF C, k, R, n
<1>10. Field!Put
  <2> DEFINE F == Characters(t)
             M == SubSeq(F, k + 1, k + n)
  <2> HIDE DEF A, D
  <2>1. /\ F \in Seq(Bytes) /\ Len(F) = Len(C) + n
        /\ \A i \in 1..k : F[i] = A[i]
        /\ \A i \in 1..n : F[k + i] = R[i]
    <3> DEFINE G == A \o R
    <3>1. G \in Seq(Bytes) /\ Len(G) = k + n /\ (\A i \in 1..k : G[i] = A[i])
          /\ \A i \in 1..n : G[k + i] = R[i]
      <4>0. Len(R) = n
        BY DEF n
      <4>1. A \in Seq(Bytes) /\ R \in Seq(Bytes) /\ Len(A) = k
        BY <1>2, <1>7
      <4>2. G \in Seq(Bytes) /\ Len(G) = Len(A) + Len(R)
        BY <4>1, ConcatProperties
      <4>3. \A i \in 1..Len(A) : G[i] = A[i]
        BY <4>1, ConcatProperties
      <4>4. \A i \in 1..Len(R) : G[Len(A) + i] = R[i]
        BY <4>1
      <4> HIDE DEF G
      <4> QED BY <4>0, <4>1, <4>2, <4>3, <4>4
    <3> HIDE DEF G
    <3>2. G \o D \in Seq(Bytes) /\ Len(G \o D) = Len(G) + Len(D)
      BY <1>7, <3>1, ConcatProperties
    <3>3. \A i \in 1..Len(G) : (G \o D)[i] = G[i]
      BY <1>7, <3>1, ConcatProperties
    <3>4. F = G \o D
      BY <1>8 DEF G
    <3>5. k + n \in Nat /\ \A i \in 1..n : k + i \in 1..(k + n)
      BY <1>1, <1>2
    <3>6. \A i \in 1..k : i \in 1..(k + n)
      BY <1>1, <1>2
    <3>7. Len(G) + Len(D) = Len(C) + n
      BY <1>1, <1>2, <1>6, <1>7, <3>1
    <3> HIDE DEF F
    <3>8. F \in Seq(Bytes) /\ Len(F) = Len(C) + n
      BY <3>2, <3>4, <3>7
    <3>9. \A i \in 1..k : F[i] = A[i]
      BY <3>1, <3>3, <3>4, <3>6
    <3>10. \A i \in 1..n : F[k + i] = R[i]
      BY <3>1, <3>3, <3>4, <3>5
    <3> QED BY <3>8, <3>9, <3>10
  <2> HIDE DEF F
  <2>2. M \in Seq(Bytes) /\ Len(M) = n /\ \A i \in 1..n : M[i] = F[k + i]
    BY <1>1, <1>2, <1>6, <2>1
  <2> HIDE DEF M
  <2>3. M = R
    <3>0. Len(R) = n
      BY DEF n
    <3> QED BY <1>2, <2>1, <2>2, <3>0, SameSeq
  <2>4. n \in 1..(Len(F) - Len(C))
    BY <1>2, <1>6, <2>1
  <2>5. F = A \o M \o D
    BY <1>8, <2>3 DEF F
  <2>6. F = SubSeq(C, 1, k) \o SubSeq(F, k + 1, k + n) \o SubSeq(C, k + 1, Len(C))
    BY <2>5 DEF A, D, M
  <2>7. Characters(currentText)' = F
    BY <1>9 DEF F
  <2> QED BY <1>9, <2>4, <2>6, <2>7 DEF Field!Put, Field!Before, Field!After
<1>11. FieldStep
  BY <1>10 DEF FieldStep, Field!Next
<1>12. /\ p + Len(s) \in Nat /\ caret[2] + n \in Nat /\ k + n <= caret[2] + n
       /\ spoiled = {} => caret[2] + n = k + n
  <2>1. p \in Nat /\ Len(s) \in Nat /\ caret[2] \in Nat /\ n \in Nat /\ k \in Nat
    BY <1>1, <1>2
  <2>2. \A i, j, l \in Nat : i + l \in Nat /\ (i <= j => i + l <= j + l)
    OBVIOUS
  <2>3. k + n <= caret[2] + n
    BY <1>1, <2>1, <2>2
  <2>4. spoiled = {} => caret[2] + n = k + n
    BY <1>1
  <2> QED BY <2>1, <2>2, <2>3, <2>4
<1>13. Len(t) <= MaxBytes
  BY <1>3, <1>8 DEF x
<1> QED BY <1>3, <1>4, <1>8, <1>11, <1>12, <1>13, EditedStep

(* Where a part was cut out of a whole text. *)
LEMMA CutOut ==
    ASSUME NEW s \in Seq(Bytes), Whole(s), NEW p, NEW q, Boundary(s, p), Boundary(s, q), p < q
    PROVE  LET t == Without(s, p, q)
               C == Characters(s)
               k == Len(Pre(s, p))
               m == Len(Pre(s, q))
           IN  /\ t \in Seq(Bytes) /\ Len(t) <= Len(s) /\ Whole(t) /\ Boundary(t, p)
               /\ Len(Pre(t, p)) = k /\ k \in Nat /\ m \in Nat /\ k < m /\ m <= Len(C)
               /\ C \in Seq(Bytes)
               /\ Characters(t) = SubSeq(C, 1, k) \o SubSeq(C, m + 1, Len(C))
<1> DEFINE C == Characters(s)
           k == Len(Pre(s, p))
           m == Len(Pre(s, q))
           t == Without(s, p, q)
<1>1. /\ p \in 0..Len(s) /\ q \in 0..Len(s) /\ Len(s) \in Nat /\ p <= q /\ p < Len(s)
      /\ Len(s) \in p..Len(s) /\ Len(s) \in q..Len(s)
  BY DEF Boundary
<1>2. t \in Seq(Bytes) /\ Whole(t) /\ Boundary(t, p)
  BY <1>1, TakenOut
<1>3. Len(t) = Len(s) - (q - p)
  BY <1>1, TakenOut
<1>4. Pre(t, p) = Pre(s, p)
  BY <1>1, TakenOut
<1>5. Characters(t) = Pre(s, p) \o SubSeq(C, m + 1, Len(C))
  BY <1>1, TakenOut
<1> HIDE DEF t
<1>6. Len(t) <= Len(s)
  BY <1>1, <1>2, <1>3
<1>7. C \in Seq(Bytes) /\ Pre(s, Len(s)) = C
  BY PreZero, CharactersType
<1>8. k \in Nat /\ m \in Nat
  BY <1>1, PreType
<1>9. Pre(s, p) = SubSeq(C, 1, k) /\ m <= Len(C)
  <2>1. Pre(s, p) = SubSeq(Pre(s, Len(s)), 1, Len(Pre(s, p)))
    BY <1>1, PreSplit
  <2>2. Len(Pre(s, q)) <= Len(Pre(s, Len(s)))
    BY <1>1, PreSplit
  <2> QED BY <1>7, <2>1, <2>2
<1>10. k < m
  <2> DEFINE e == p + CharByteSize(s[p + 1])
  <2>1. /\ e \in (p + 1)..Len(s) /\ OneCharacter(s, p, e)
        /\ \A r \in 0..Len(s) : Boundary(s, r) /\ p < r => e <= r
    BY <1>1, NextPlace
  <2> HIDE DEF e
  <2>2. e \in 0..Len(s) /\ q \in e..Len(s)
    BY <1>1, <2>1
  <2>3. Len(Pre(s, e)) = k + 1
    BY <1>1, <2>1, <2>2, OneMore
  <2>4. Len(Pre(s, e)) <= m
    BY <2>2, PreSplit
  <2> HIDE DEF k, m
  <2> QED BY <1>8, <2>3, <2>4
<1>11. Len(Pre(t, p)) = k
  BY <1>4
<1>12. Characters(t) = SubSeq(C, 1, k) \o SubSeq(C, m + 1, Len(C))
  BY <1>5, <1>9
<1> HIDE DEF C, k, m
<1> QED BY <1>2, <1>6, <1>7, <1>8, <1>9, <1>10, <1>11, <1>12 DEF C, k, m, t

(* What is cut out before the cursor. *)
LEMMA CutIs ==
    ASSUME currentText \in Seq(Bytes), Whole(currentText), Boundary(currentText, caret[1]),
           NEW b, Boundary(currentText, b), b < caret[1],
           currentText' = Without(currentText, b, caret[1]), caret'[1] = b, copy' = caret',
           \/ Len(Pre(currentText, b)) \in {0, Len(Pre(currentText, caret[1])) - 1}
           \/ LET k == Len(Pre(currentText, b))
              IN  Space \in {Characters(currentText)[k], Characters(currentText)[k + 1]}
    PROVE  Field!Cut
<1> DEFINE x == currentText
           p == caret[1]
           C == Characters(x)
           k == Len(Pre(x, b))
           m == Len(Pre(x, p))
           t == Without(x, b, p)
<1>1. /\ x \in Seq(Bytes) /\ Whole(x) /\ Boundary(x, p) /\ Boundary(x, b) /\ b < p
      /\ currentText' = t /\ caret'[1] = b /\ copy'[1] = b
  OBVIOUS
<1>2. \/ k \in {0, m - 1}
      \/ Space \in {C[k], C[k + 1]}
  OBVIOUS
<1>3. /\ Characters(currentText) = C /\ Characters(currentText)' = Characters(t)
      /\ Index(currentTextPosition) = m
      /\ Index(currentTextPosition)' = Len(Pre(t, b))
      /\ Index(currentTextCopyPosition)' = Len(Pre(t, b))
  BY FieldNow, FieldThen
<1> HIDE DEF x, p
<1>4. /\ Len(Pre(t, b)) = k /\ k \in Nat /\ m \in Nat /\ k < m
      /\ Characters(t) = SubSeq(C, 1, k) \o SubSeq(C, m + 1, Len(C))
  <2>1. Len(Pre(t, b)) = k /\ k \in Nat /\ m \in Nat /\ k < m
    BY <1>1, CutOut
  <2>2. Characters(t) = SubSeq(C, 1, k) \o SubSeq(C, m + 1, Len(C))
    BY <1>1, CutOut
  <2> QED BY <2>1, <2>2
<1> HIDE DEF C, k, m, t
<1>5. k \in 0..(m - 1)
  BY <1>4
<1> QED BY <1>2, <1>3, <1>4, <1>5 DEF Field!Cut, Field!Before, Field!After

LEMMA BackspaceStep ==
    ASSUME TextInv, ~lost, Backspace
    PROVE  TextStep
<1> DEFINE x == currentText
           p == caret[1]
           b == CharStart(p - 1)
           t == Without(x, b, p)
           k == Len(Pre(x, b))
<1>1. /\ x \in Seq(Bytes) /\ Len(x) \in Nat /\ Whole(x)
      /\ Boundary(x, p) /\ p \in 0..Len(x)
      /\ caret[2] \in Nat /\ Len(Pre(x, p)) \in Nat /\ Len(Pre(x, p)) <= caret[2]
      /\ spoiled = {} => caret[2] = Len(Pre(x, p))
  BY PlacedNow
<1>2. /\ 0 < p /\ caret' = <<b, caret[2] - 1>> /\ Edited(t) /\ UNCHANGED <<spoiled, lost>>
  BY DEF Backspace, BackspaceTo, SetCaret, Erase, Without, currentTextPosition,
         currentTextPositionUTF, Size
<1>3. spoiled \subseteq {"word", "beyond"} /\ Len(x) <= MaxBytes /\ MaxBytes \in Nat
  BY TextTypes, InputsAssumption DEF TextInv
<1>4. currentText' = t /\ copy' = caret' /\ caret'[1] = b
  BY <1>2 DEF Edited
<1>5. b \in 0..(p - 1) /\ Boundary(x, b) /\ OneCharacter(x, b, p)
  BY <1>1, <1>2, CharStartIs
<1> HIDE DEF b
<1>6. b \in 0..Len(x) /\ b < p /\ b \in Nat
  BY <1>1, <1>5
<1>7. Len(Pre(x, p)) = k + 1
  BY <1>1, <1>5, <1>6, OneMore
<1>8. /\ t \in Seq(Bytes) /\ Len(t) <= Len(x) /\ Whole(t) /\ Boundary(t, b)
      /\ Len(Pre(t, b)) = k /\ k \in Nat
  BY <1>1, <1>5, <1>6, CutOut
<1>9. k \in {0, Len(Pre(x, p)) - 1}
  <2> HIDE DEF k
  <2> QED BY <1>7, <1>8
<1>10. Field!Cut
  BY <1>1, <1>4, <1>5, <1>6, <1>9, CutIs
<1>11. FieldStep
  BY <1>10 DEF FieldStep, Field!Next
<1>12. /\ caret[2] - 1 \in Nat /\ k <= caret[2] - 1
       /\ spoiled = {} => caret[2] - 1 = k
  <2> HIDE DEF k
  <2> QED BY <1>1, <1>7, <1>8
<1>13. Len(t) <= MaxBytes
  <2>1. Len(t) \in Nat
    BY <1>8
  <2> HIDE DEF x, t
  <2> QED BY <1>1, <1>3, <1>8, <2>1
<1> HIDE DEF t, k
<1> QED BY <1>2, <1>3, <1>6, <1>8, <1>11, <1>12, <1>13, EditedStep

LEMMA DeleteStep ==
    ASSUME TextInv, ~lost, Delete
    PROVE  TextStep
<1> DEFINE x == currentText
           p == caret[1]
           e == EndIn(x, p + 1)
           t == Without(x, p, e)
           C == Characters(x)
           k == Len(Pre(x, p))
<1>1. /\ x \in Seq(Bytes) /\ Len(x) \in Nat /\ Whole(x)
      /\ Boundary(x, p) /\ p \in 0..Len(x)
      /\ caret[2] \in Nat /\ k \in Nat /\ k <= caret[2]
      /\ spoiled = {} => caret[2] = k
  BY PlacedNow
<1>2. p < Len(x) /\ caret' = caret /\ Edited(t) /\ UNCHANGED <<spoiled, lost>>
  BY DEF Delete, Erase, CharEnd, Without, currentTextPosition, Size
<1>3. /\ spoiled \subseteq {"word", "beyond"} /\ Len(x) <= MaxBytes
      /\ caret = <<caret[1], caret[2]>>
  BY TextTypes DEF TextInv
<1>4. currentText' = t /\ copy' = caret' /\ caret'[1] = p
  BY <1>2 DEF Edited
<1>5. e \in (p + 1)..Len(x) /\ OneCharacter(x, p, e) /\ Boundary(x, e)
  BY <1>1, <1>2, NextPlace
<1> HIDE DEF e
<1>6. e \in 0..Len(x) /\ p < e /\ p \in Nat
  BY <1>1, <1>5
<1>7. Len(Pre(x, e)) = k + 1
  BY <1>1, <1>5, <1>6, OneMore
<1> HIDE DEF p
<1>8. /\ t \in Seq(Bytes) /\ Len(t) <= Len(x) /\ Whole(t) /\ Boundary(t, p)
      /\ Len(Pre(t, p)) = k /\ Len(Pre(x, e)) <= Len(C) /\ C \in Seq(Bytes)
  BY <1>1, <1>5, <1>6, CutOut
<1>9. Characters(t) = SubSeq(C, 1, k) \o SubSeq(C, Len(Pre(x, e)) + 1, Len(C))
  BY <1>1, <1>5, <1>6, CutOut
<1>10. Field!CutNext
  <2>1. /\ Characters(currentText) = C /\ Characters(currentText)' = Characters(t)
        /\ Index(currentTextPosition) = k
        /\ Index(currentTextPosition)' = k /\ Index(currentTextCopyPosition)' = k
    BY <1>4, <1>8, FieldNow, FieldThen DEF p
  <2> HIDE DEF x, k, C, t
  <2>2. k < Len(C)
    BY <1>1, <1>7, <1>8
  <2>3. Characters(t) = SubSeq(C, 1, k) \o SubSeq(C, k + 1 + 1, Len(C))
    BY <1>7, <1>9
  <2> QED BY <2>1, <2>2, <2>3 DEF Field!CutNext, Field!Before, Field!After
<1>11. FieldStep
  BY <1>10 DEF FieldStep, Field!Next
<1>12. Len(t) <= MaxBytes
  <2>1. Len(t) \in Nat /\ MaxBytes \in Nat
    BY <1>8, InputsAssumption
  <2> HIDE DEF x, t
  <2> QED BY <1>1, <1>3, <1>8, <2>1
<1>13. caret' = <<p, caret[2]>> /\ UNCHANGED lost
  BY <1>2, <1>3 DEF p
<1>14. spoiled' \subseteq {"word", "beyond"} /\ (spoiled' = {} => caret[2] = Len(Pre(t, p)))
  BY <1>1, <1>2, <1>3, <1>8
<1>15. Len(Pre(t, p)) <= caret[2]
  BY <1>1, <1>8
<1> HIDE DEF t, k
<1> QED BY <1>1, <1>2, <1>6, <1>8, <1>11, <1>12, <1>13, <1>14, <1>15, EditedStep

(* The character that a byte begins. *)
LEMMA CharacterAt ==
    ASSUME NEW s \in Seq(Bytes), NEW j \in 0..(Len(s) - 1), s[j + 1] # Cont
    PROVE  /\ Len(Pre(s, j + 1)) = Len(Pre(s, j)) + 1
           /\ Characters(s)[Len(Pre(s, j)) + 1] = s[j + 1]
<1> DEFINE C == Characters(s)
           a == Pre(s, j)
           d == Pre(s, j + 1)
<1>1. /\ j \in 0..Len(s) /\ j + 1 \in 0..Len(s) /\ j + 1 \in 1..Len(s)
      /\ Len(s) \in (j + 1)..Len(s) /\ Len(s) \in Nat
  OBVIOUS
<1>2. a \in Seq(Bytes) /\ s[j + 1] \in Bytes
  BY <1>1, PreType
<1>3. d = Append(a, s[j + 1])
  BY PreStep
<1>4. C \in Seq(Bytes) /\ Pre(s, Len(s)) = C
  BY PreZero, CharactersType
<1>5. d = SubSeq(C, 1, Len(d)) /\ Len(d) <= Len(C)
  <2>1. Pre(s, j + 1) = SubSeq(Pre(s, Len(s)), 1, Len(Pre(s, j + 1)))
    BY <1>1, PreSplit
  <2>2. Len(Pre(s, j + 1)) <= Len(Pre(s, Len(s)))
    BY <1>1, PreSplit
  <2> QED BY <1>4, <2>1, <2>2
<1>6. Len(d) = Len(a) + 1 /\ d[Len(a) + 1] = s[j + 1] /\ Len(a) \in Nat
  <2> HIDE DEF a, d
  <2> QED BY <1>2, <1>3
<1> HIDE DEF C, a, d
<1>7. SubSeq(C, 1, Len(d))[Len(a) + 1] = C[Len(a) + 1]
  <2> DEFINE n == Len(d)
  <2>1. n \in 0..Len(C) /\ Len(a) + 1 \in 1..n
    BY <1>4, <1>5, <1>6
  <2> HIDE DEF n
  <2>2. \A i \in 1..n : SubSeq(C, 1, n)[i] = C[i]
    BY <1>4, <2>1, Prefix
  <2> QED BY <2>1, <2>2 DEF n
<1>8. C[Len(a) + 1] = s[j + 1]
  BY <1>5, <1>6, <1>7
<1> QED BY <1>6, <1>8 DEF C, a, d

LEMMA WordBackspaceStep ==
    ASSUME TextInv, ~lost, WordBackspace
    PROVE  TextStep
<1> DEFINE x == currentText
           p == caret[1]
           w == WordStart
           t == Without(x, w, p)
           C == Characters(x)
           k == Len(Pre(x, w))
<1>1. /\ x \in Seq(Bytes) /\ Len(x) \in Nat /\ Whole(x)
      /\ Boundary(x, p) /\ p \in 0..Len(x)
  BY PlacedNow
<1>2. currentTextPosition = p
  BY DEF currentTextPosition
<1>3. 0 < p
  BY <1>2 DEF WordBackspace
<1>4. /\ w \in 0..(p - 1) /\ Boundary(x, w) /\ CharStart(w) = w
      /\ w = 0 \/ x[w] = Space \/ x[w + 1] = Space
  BY <1>1, <1>2, <1>3, WordStartIs
<1>5. /\ caret' = <<w, w>> /\ Edited(t) /\ UNCHANGED lost
      /\ spoiled' = IF Cont \in ToSet(SubSeq(x, 1, w)) THEN spoiled \cup {"word"} ELSE spoiled
  <2>1. BackspaceTo(WordStart) = WordStart
    BY <1>4 DEF BackspaceTo
  <2>2. Erase(WordStart, currentTextPosition) = t
    BY <1>2 DEF Erase, Without, Size
  <2> QED BY <2>1, <2>2 DEF WordBackspace, SetCaret
<1>6. spoiled \subseteq {"word", "beyond"} /\ Len(x) <= MaxBytes /\ MaxBytes \in Nat
  BY TextTypes, InputsAssumption DEF TextInv
<1> HIDE DEF w
<1>7. currentText' = t /\ copy' = caret' /\ caret'[1] = w
  BY <1>5 DEF Edited
<1>8. w \in 0..Len(x) /\ w < p /\ w \in Nat /\ w < Len(x)
  BY <1>1, <1>4
<1>9. /\ t \in Seq(Bytes) /\ Len(t) <= Len(x) /\ Whole(t) /\ Boundary(t, w)
      /\ Len(Pre(t, w)) = k /\ k \in Nat
  BY <1>1, <1>4, <1>8, CutOut
<1>10. k \in 0..w
  BY <1>1, <1>8, PreType
<1>11. k = 0 \/ Space \in {C[k], C[k + 1]}
  <2>0. Space # Cont
    BY DEF Space, Cont
  <2>1. CASE w = 0
    BY <1>10, <2>1
  <2>2. CASE w # 0 /\ x[w] = Space
    <3> DEFINE j == w - 1
    <3>1. j \in 0..(Len(x) - 1) /\ j + 1 = w /\ j \in 0..Len(x)
      BY <1>1, <1>8, <2>2
    <3> HIDE DEF j, x
    <3>2. Len(Pre(x, j + 1)) = Len(Pre(x, j)) + 1 /\ C[Len(Pre(x, j)) + 1] = x[j + 1]
      BY <1>1, <2>0, <2>2, <3>1, CharacterAt
    <3> QED BY <2>2, <3>1, <3>2
  <2>3. CASE x[w + 1] = Space
    <3>1. w \in 0..(Len(x) - 1)
      BY <1>1, <1>8
    <3> HIDE DEF x
    <3>2. C[k + 1] = x[w + 1]
      BY <1>1, <2>0, <2>3, <3>1, CharacterAt
    <3> QED BY <2>3, <3>2
  <2> QED BY <1>4, <2>1, <2>2, <2>3
<1>12. Field!Cut
  <2>1. k \in {0, Len(Pre(x, p)) - 1} \/ Space \in {C[k], C[k + 1]}
    BY <1>11
  <2> QED BY <1>1, <1>4, <1>7, <1>8, <2>1, CutIs
<1>13. FieldStep
  BY <1>12 DEF FieldStep, Field!Next
<1>14. Len(t) <= MaxBytes
  <2>1. Len(t) \in Nat
    BY <1>9
  <2> HIDE DEF x, t
  <2> QED BY <1>1, <1>6, <1>9, <2>1
<1>15. Len(Pre(t, w)) <= w
  <2> HIDE DEF k
  <2> QED BY <1>8, <1>9, <1>10
<1>16. spoiled' \subseteq {"word", "beyond"}
  BY <1>5, <1>6
<1>17. ASSUME spoiled' = {} PROVE w = Len(Pre(t, w))
  <2>1. Cont \notin ToSet(SubSeq(x, 1, w))
    BY <1>5, <1>17
  <2> HIDE DEF x
  <2>2. k = w
    BY <1>1, <1>8, <2>1, OnlyShort
  <2> QED BY <1>9, <2>2
<1> HIDE DEF t, k
<1> QED BY <1>5, <1>8, <1>9, <1>13, <1>14, <1>15, <1>16, <1>17, EditedStep

(* Where the code would read before the string, the drift has been noted. *)
LEMMA BackspaceUnderflowsStep ==
    ASSUME TextInv, ~lost, BackspaceUnderflows
    PROVE  TextStep
<1>1. /\ lost' /\ caret[2] > 0 /\ caret[1] = 0
      /\ UNCHANGED <<currentText, caret, copy, ignoreNextHideKeyboard, spoiled>>
      /\ shiftPressed' = shiftPressed /\ altPressed' = altPressed
  BY DEF BackspaceUnderflows, currentTextPosition, currentTextPositionUTF, mods
<1>2. spoiled # {}
  <2>1. currentText \in Seq(Bytes) /\ (spoiled = {} => caret[2] = Len(Pre(currentText, caret[1])))
    BY PlacedNow
  <2>2. Len(Pre(currentText, 0)) = 0
    BY <2>1, PreZero
  <2> QED BY <1>1, <2>1, <2>2
<1>3. TextTypeOK'
  <2>1. /\ currentText \in Seq(Bytes) /\ Len(currentText) <= MaxBytes
        /\ caret \in Nat \X Nat /\ copy \in Nat \X Nat
        /\ shiftPressed \in BOOLEAN /\ altPressed \in BOOLEAN
        /\ ignoreNextHideKeyboard \in BOOLEAN /\ spoiled \subseteq {"word", "beyond"}
    BY TextTypes DEF TextInv
  <2>2. /\ currentText' \in Seq(Bytes) /\ Len(currentText') <= MaxBytes
        /\ caret' \in Nat \X Nat /\ copy' \in Nat \X Nat
        /\ shiftPressed' \in BOOLEAN /\ altPressed' \in BOOLEAN
        /\ ignoreNextHideKeyboard' \in BOOLEAN /\ spoiled' \subseteq {"word", "beyond"}
    BY <1>1, <2>1, Zenon
  <2>3. lost' = TRUE
    BY DEF BackspaceUnderflows
  <2>4. lost' \in BOOLEAN
    BY <2>3, Zenon
  <2> QED BY <2>2, <2>4, TypesTextThen
<1>4. spoiled' # {}
  BY <1>1, <1>2
<1> QED BY <1>1, <1>3, <1>4 DEF TextInv, TextStep

(* What the user does. *)
LEMMA UserStep ==
    ASSUME TextInv, ~lost, User
    PROVE  TextStep
<1>1. ASSUME NEW shift \in BOOLEAN, NEW alt \in BOOLEAN, OtherKey(shift, alt)
      PROVE  TextStep
  BY <1>1, StillStep DEF OtherKey
<1>2. ASSUME NEW shift \in BOOLEAN, NEW alt \in BOOLEAN,
             \/ OtherKey(shift, alt)
             \/ Right(shift, alt) \/ Left(shift, alt) \/ Home(shift, alt) \/ End(shift, alt)
      PROVE  TextStep
  BY <1>1, <1>2, RightStep, LeftStep, HomeEndStep
<1>3. CASE \E s \in Inputs : Type(s)
  BY <1>3, TypeStep
<1> QED BY <1>2, <1>3, BackspaceStep, WordBackspaceStep, DeleteStep, BackspaceUnderflowsStep
        DEF User

-----------------------------------------------------------------------------
LEMMA TextStart ==
    ASSUME TextInit
    PROVE  TextInv /\ Field!Init
<1>1. /\ currentText = <<>> /\ caret = <<0, 0>> /\ copy = <<0, 0>>
      /\ spoiled = {} /\ lost = FALSE
      /\ shiftPressed = FALSE /\ altPressed = FALSE /\ ignoreNextHideKeyboard = FALSE
  BY DEF TextInit
<1>2. Whole(<<>>) /\ Boundary(<<>>, 0) /\ <<>> \in Seq(Bytes) /\ Len(<<>>) = 0
  BY EmptyIsWhole
<1>3. Pre(<<>>, 0) = <<>> /\ Characters(<<>>) = <<>>
  BY <1>2, PreZero, NoCharacters
<1>4. MaxBytes \in Nat
  BY InputsAssumption
<1>5. TextTypeOK
  <2>1. /\ shiftPressed \in BOOLEAN /\ altPressed \in BOOLEAN
        /\ ignoreNextHideKeyboard \in BOOLEAN /\ lost \in BOOLEAN
    BY <1>1, Zenon
  <2>2. /\ currentText \in Seq(Bytes) /\ Len(currentText) <= MaxBytes
        /\ caret \in Nat \X Nat /\ copy \in Nat \X Nat /\ spoiled \subseteq {"word", "beyond"}
    BY <1>1, <1>2, <1>4
  <2> QED BY <2>1, <2>2, TypesText
<1>6. Placed(currentText, caret, copy) /\ Exactly(currentText, caret) /\ Exactly(currentText, copy)
  BY <1>1, <1>2, <1>3 DEF Placed, Exactly
<1>7. ~lost
  BY <1>1
<1>8. Field!Init
  <2>1. Index(currentTextPosition) = 0 /\ Index(currentTextCopyPosition) = 0
    BY <1>1, <1>2, <1>3, FieldNow
  <2> QED BY <1>1, <1>3, <2>1 DEF Field!Init
<1> QED BY <1>5, <1>6, <1>7, <1>8 DEF TextInv

LEMMA TextInvInductive ==
    ASSUME TextInv, [TextNext]_textVars
    PROVE  TextStep
<1>1. CASE ~lost /\ (Game \/ User)
  BY <1>1, GameStep, UserStep
<1>2. CASE UNCHANGED textVars
  <2>1. /\ UNCHANGED <<currentText, caret, copy, spoiled, lost>>
        /\ shiftPressed' = shiftPressed /\ altPressed' = altPressed
        /\ ignoreNextHideKeyboard' = ignoreNextHideKeyboard
    BY <1>2 DEF textVars, mods
  <2>2. /\ shiftPressed \in BOOLEAN /\ altPressed \in BOOLEAN
        /\ ignoreNextHideKeyboard \in BOOLEAN
    BY TextTypes DEF TextInv
  <2>3. /\ shiftPressed' \in BOOLEAN /\ altPressed' \in BOOLEAN
        /\ ignoreNextHideKeyboard' \in BOOLEAN
    BY <2>1, <2>2, Zenon
  <2> QED BY <2>1, <2>3, SameText
<1> QED BY <1>1, <1>2 DEF TextNext, Lost

LEMMA TextInvHolds == TextSpec => []TextInv
<1>1. TextInit => TextInv
  BY TextStart
<1>2. TextInv /\ [TextNext]_textVars => TextInv'
  BY TextInvInductive DEF TextStep
<1> QED BY <1>1, <1>2, PTL DEF TextSpec

(* The text stays whole characters and both ends of the selection between two of
   them, whatever is typed, pasted, deleted, loaded or selected
   (text_input_handler.cpp). *)
THEOREM CharactersStayWhole == TextSpec => []NoCharacterIsTorn
<1>1. TextInv => NoCharacterIsTorn
  <2> SUFFICES ASSUME TextInv PROVE NoCharacterIsTorn
    OBVIOUS
  <2>1. TextTypeOK
    BY DEF TextInv
  <2>2. ASSUME ~lost
        PROVE  /\ IsUTF8(currentText)
               /\ \A p \in {currentTextPosition, currentTextCopyPosition} :
                    p = Size \/ (p < Size /\ ~IsCont(p))
    <3>1. /\ currentText \in Seq(Bytes) /\ Len(currentText) \in Nat /\ Whole(currentText)
          /\ Boundary(currentText, caret[1]) /\ Boundary(currentText, copy[1])
      BY <2>2, PlacedNow
    <3>2. IsUTF8(currentText)
      BY <3>1, UTF8IsWhole
    <3>3. \A p : Boundary(currentText, p) => (p = Size \/ (p < Size /\ ~IsCont(p)))
      BY <3>1 DEF Boundary, Size, IsCont, At
    <3> QED BY <3>1, <3>2, <3>3 DEF currentTextPosition, currentTextCopyPosition
  <2> QED BY <2>1, <2>2 DEF NoCharacterIsTorn
<1> QED BY <1>1, TextInvHolds, PTL

(* The caret the game is told is where the editing works, until one of the two
   operations that let them drift apart; and it is never before that place. *)
THEOREM CaretsStayTrue == TextSpec => []CaretsAgree
<1>1. TextInv => CaretsAgree
  <2> SUFFICES ASSUME TextInv PROVE CaretsAgree
    OBVIOUS
  <2>1. /\ Index(currentTextPosition) = Len(Pre(currentText, caret[1]))
        /\ Index(currentTextCopyPosition) = Len(Pre(currentText, copy[1]))
    BY FieldNow
  <2>2. ASSUME spoiled = {}
        PROVE  /\ currentTextPositionUTF = Index(currentTextPosition)
               /\ currentTextCopyPositionUTF = Index(currentTextCopyPosition)
               /\ ~lost
    BY <2>1, <2>2 DEF TextInv, Exactly, currentTextPositionUTF, currentTextCopyPositionUTF
  <2>3. ASSUME ~lost PROVE currentTextPositionUTF >= Index(currentTextPosition)
    <3>1. /\ caret[2] \in Nat /\ Len(Pre(currentText, caret[1])) \in Nat
          /\ Len(Pre(currentText, caret[1])) <= caret[2]
      BY <2>3, PlacedNow
    <3> QED BY <2>1, <3>1 DEF currentTextPositionUTF
  <2> QED BY <2>2, <2>3 DEF CaretsAgree
<1> QED BY <1>1, TextInvHolds, PTL

(* The handler's bytes implement the characters of a text field: until the
   position is lost every operation is one edit, move or load of whole
   characters, or leaves the field as it is. *)
THEOREM RefinesTextField == TextSpec => ImplementsTextField
<1>1. TextInit => Field!Init
  BY TextStart
<1>2. TextInv /\ [TextNext]_textVars =>
        [~lost' => \/ Field!Next
                   \/ UNCHANGED <<Characters(currentText), Index(currentTextPosition),
                                  Index(currentTextCopyPosition)>>]_textVars
  BY TextInvInductive DEF TextStep, FieldStep
<1> QED BY <1>1, <1>2, TextInvHolds, PTL DEF TextSpec, ImplementsTextField
===============================================================================

--------------------------- MODULE VirtualGamepad ---------------------------
(***************************************************************************)
(* The on-screen gamepad (VirtualGamepad.java): touch listeners on the UI  *)
(* thread write the array buttonStates, and the emulation thread copies    *)
(* the same array, element by element, at the start of a frame.            *)
(*                                                                         *)
(* A button may be remapped in the settings; its listener then writes two  *)
(* elements, its own and the remapped one, one after the other.            *)
(***************************************************************************)
EXTENDS Integers

CONSTANT
    NumButtons  \* length of buttonStates (12 in the code)

ASSUME NumButtonsAssumption == NumButtons \in Nat

Buttons == 0 .. NumButtons - 1

VARIABLES
    remapped,      \* getRemappedButton: -1 for a button that is not remapped
    held,          \* the buttons a finger is on
    lost,          \* history: those whose last touch was cancelled
    buttonStates,  \* 1 = pressed, 0 = released
    pending,       \* the button whose listener is between its two writes, or -1
    value,         \* what that listener writes
    cursor,        \* the next element the emulation thread copies
    seen,          \* its copy
    recent         \* history: buttons some touch drove since the copy began

gamepadVars == <<remapped, held, lost, buttonStates, pending, value, cursor, seen, recent>>

\* The elements that the listener of button v writes.
Drives(v) == {v} \cup ({remapped[v]} \ {-1})

Driven(views) == UNION {Drives(v) : v \in views}

\* The views whose listener has seen a press and no release: a cancelled touch
\* is one that it never sees the end of.
Pressing == held \cup lost

\* Those, and the view whose listener is still running.
Engaged == Pressing \cup ({pending} \ {-1})

GamepadTypeOK ==
    /\ remapped \in [Buttons -> Buttons \cup {-1}]
    /\ held \subseteq Buttons
    /\ lost \subseteq Buttons
    /\ buttonStates \in [Buttons -> {0, 1}]
    /\ pending \in Buttons \cup {-1}
    /\ value \in {0, 1}
    /\ cursor \in 0 .. NumButtons
    /\ seen \in [Buttons -> {0, 1}]
    /\ recent \subseteq Buttons

\* Any remapping the settings can store; it cannot change during a game.
GamepadInit ==
    /\ remapped \in [Buttons -> Buttons \cup {-1}]
    /\ held = {}
    /\ lost = {}
    /\ buttonStates = [b \in Buttons |-> 0]
    /\ pending = -1
    /\ value = 0
    /\ cursor = 0
    /\ seen = [b \in Buttons |-> 0]
    /\ recent = {}

-----------------------------------------------------------------------------
\* Mutant of Touch: the element is toggled instead of set.
TouchToggles(v, new) ==
    /\ pending = -1
    /\ held' = IF new = 1 THEN held \cup {v} ELSE held \ {v}
    /\ lost' = lost \ {v}
    /\ buttonStates' = [buttonStates EXCEPT ![v] = 1 - @]
    /\ pending' = v
    /\ value' = new
    /\ recent' = recent \cup Drives(v)
    /\ UNCHANGED <<remapped, cursor, seen>>

\* ACTION_DOWN and ACTION_UP: the listener writes the button's own element.
Touch(v, new) ==
    /\ pending = -1
    /\ held' = IF new = 1 THEN held \cup {v} ELSE held \ {v}
    /\ lost' = lost \ {v}
    /\ buttonStates' = [buttonStates EXCEPT ![v] = new]
    /\ pending' = v
    /\ value' = new
    /\ recent' = recent \cup Drives(v)
    /\ UNCHANGED <<remapped, cursor, seen>>

Down(v) == v \notin held /\ Touch(v, 1)
Up(v)   == v \in held /\ Touch(v, 0)

\* Mutant of Remap: the target is pressed with the button, never released.
RemapOnlyPresses ==
    /\ pending # -1
    /\ buttonStates' = IF remapped[pending] = -1 \/ value = 0 THEN buttonStates
                       ELSE [buttonStates EXCEPT ![remapped[pending]] = 1]
    /\ pending' = -1
    /\ UNCHANGED <<remapped, held, lost, value, cursor, seen, recent>>

\* The same listener goes on to write the remapped element, if there is one.
Remap ==
    /\ pending # -1
    /\ buttonStates' = IF remapped[pending] = -1 THEN buttonStates
                       ELSE [buttonStates EXCEPT ![remapped[pending]] = value]
    /\ pending' = -1
    /\ UNCHANGED <<remapped, held, lost, value, cursor, seen, recent>>

\* ACTION_CANCEL reaches the listener, which has no branch for it.
Cancel(v) ==
    /\ pending = -1
    /\ v \in held
    /\ held' = held \ {v}
    /\ lost' = lost \cup {v}
    /\ UNCHANGED <<remapped, buttonStates, pending, value, cursor, seen, recent>>

\* Mutant of CopyElement: a copy that keeps a press until the next frame.
CopyKeepsPress ==
    /\ cursor < NumButtons
    /\ seen' = [seen EXCEPT ![cursor] = IF @ = 1 THEN 1 ELSE buttonStates[cursor]]
    /\ cursor' = cursor + 1
    /\ UNCHANGED <<remapped, held, lost, buttonStates, pending, value, recent>>

\* nativeSetInput(getButtonStates()) on the emulation thread, no lock held: the
\* native side of the bridge reads the elements one by one.
CopyElement ==
    /\ cursor < NumButtons
    /\ seen' = [seen EXCEPT ![cursor] = buttonStates[cursor]]
    /\ cursor' = cursor + 1
    /\ UNCHANGED <<remapped, held, lost, buttonStates, pending, value, recent>>

NextFrame ==
    /\ cursor = NumButtons
    /\ cursor' = 0
    /\ recent' = Driven(Engaged)
    /\ UNCHANGED <<remapped, held, lost, buttonStates, pending, value, seen>>

GamepadNext ==
    \/ \E v \in Buttons : Down(v) \/ Up(v) \/ Cancel(v)
    \/ Remap \/ CopyElement \/ NextFrame

GamepadSpec == GamepadInit /\ [][GamepadNext]_gamepadVars

-----------------------------------------------------------------------------
(* Properties.                                                             *)

\* A button is pressed only for a touch, on it or on a button remapped to it,
\* whose release the listener has not seen: whatever fingers do in whatever
\* order, the only press that is left behind is that of a cancelled touch.
NoGhostPress == \A b \in Buttons : buttonStates[b] = 1 => b \in Driven(Engaged)

\* The copy races with the listeners, and yet the core sees no button that
\* was not really touched while the copy was made.
SeenWasTouched ==
    \A b \in Buttons : b < cursor /\ seen[b] = 1 => b \in recent

\* No other button is remapped to b.
Unshared(b) == \A u \in Buttons : remapped[u] = b => u = b

\* A button that no other is remapped to is pressed exactly from its own press
\* to its own release, whatever its own remapping and its neighbours' listeners
\* write, and a press that was left behind never hides a new one.
UnsharedIsExact ==
    \A b \in Buttons : Unshared(b) => (buttonStates[b] = 1 <=> b \in Pressing)
=============================================================================

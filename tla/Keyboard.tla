------------------------------ MODULE Keyboard ------------------------------
(***************************************************************************)
(* The PS/2 keyboard driver, drivers/keyboard/src/lib.rs.                  *)
(*                                                                         *)
(* A key is [code, ext]: the set-1 code it sends, and whether the keyboard *)
(* sends the prefix 0xE0 first (the right Ctrl key is Ctrl with a prefix). *)
(* Prefix and code are two bytes, each of which reaches process_scancode   *)
(* by an interrupt or a control request of its own, so that other requests *)
(* come in between.  Every operation runs with the driver borrowed.        *)
(*                                                                         *)
(* Not in the code: `wire', the key event of which only the prefix came;   *)
(* `held', the keys that are down as far as the processed bytes tell; the  *)
(* number n of every event.                                                *)
(***************************************************************************)
EXTENDS Integers, Sequences, FiniteSetsExt

CONSTANTS
    Keys,           \* the keys of the keyboard, [code, ext]
    DefaultSize,    \* max_queue_size of a new driver, 256
    Sizes,          \* queue sizes that are asked for, zero among them
    MaxEvents       \* bound on events

KeyboardAssumption ==
    /\ DefaultSize \in Nat \ {0} /\ Sizes \subseteq Nat /\ MaxEvents \in Nat
    /\ \A k \in Keys : k.ext \in BOOLEAN

VARIABLES status, event_queue, modifiers, extended_scancode, max_queue_size,
          wire, held, produced

vars == <<status, event_queue, modifiers, extended_scancode, max_queue_size,
          wire, held, produced>>

Nothing == "nothing"
Letters == {"A", "Z"}
Digits == {"Key1"}
Blanks == {"Space", "Tab", "Enter", "Backspace"}
ExtendedOnly == {"ArrowUp", "Delete"}

-----------------------------------------------------------------------------
\* codes of the navigation keys mean nothing without the prefix; all others ignore it
scancode_to_keycode(code) ==
    IF code \in ExtendedOnly /\ ~ extended_scancode THEN "Unknown" ELSE code

LetterCase(mods) == IF ("SHIFT" \in mods) # ("CAPS_LOCK" \in mods) THEN "upper" ELSE "lower"

keycode_to_ascii(key, mods) ==
    CASE key \in Letters -> LetterCase(mods)
      [] key \in Digits -> IF "SHIFT" \in mods THEN "symbol" ELSE "digit"
      [] key \in Blanks -> "blank"
      [] OTHER -> Nothing

ModifierOf(key) ==
    CASE key \in {"LeftShift", "RightShift"} -> {"SHIFT"}
      [] key = "LeftCtrl" -> {"CTRL"}
      [] key = "LeftAlt" -> {"ALT"}
      [] OTHER -> {}

\* Mutant: the prefix makes a release look like another key, which clears nothing
update_modifiers_left_only(key, release) ==
    IF release THEN modifiers \ (IF extended_scancode THEN {} ELSE ModifierOf(key))
    ELSE IF key = "CapsLock" THEN SymDiff(modifiers, {"CAPS_LOCK"})
    ELSE modifiers \cup ModifierOf(key)

\* CapsLock toggles on every press, the others are set and cleared
update_modifiers(key, release) ==
    IF release THEN modifiers \ ModifierOf(key)
    ELSE IF key = "CapsLock" THEN SymDiff(modifiers, {"CAPS_LOCK"})
    ELSE modifiers \cup ModifierOf(key)

\* Mutant: a full queue refuses the new event
queue_event_refusing(event) ==
    IF Len(event_queue) >= max_queue_size THEN event_queue ELSE Append(event_queue, event)

\* the queue without its oldest events, at most n left
Latest(queue, n) == IF Len(queue) > n THEN SubSeq(queue, Len(queue) - n + 1, Len(queue)) ELSE queue

\* the oldest events make room
queue_event(event) == Append(Latest(event_queue, max_queue_size - 1), event)

-----------------------------------------------------------------------------
\* PS2KeyboardDriver::new
Init ==
    /\ status = "Uninitialized" /\ event_queue = << >> /\ modifiers = {}
    /\ extended_scancode = FALSE /\ max_queue_size = DefaultSize
    /\ wire = << >> /\ held = {} /\ produced = 0

\* process_scancode(0xE0)
Prefix(k, release) ==
    /\ wire = << >> /\ k.ext
    /\ extended_scancode' = TRUE
    /\ wire' = <<k, release>>
    /\ UNCHANGED <<status, event_queue, modifiers, max_queue_size, held, produced>>

\* process_scancode of any other byte
process_scancode(k, release) ==
    LET key == scancode_to_keycode(k.code)
        mods == update_modifiers(key, release)
    IN  /\ produced < MaxEvents
        /\ modifiers' = mods
        /\ event_queue' = queue_event(
              [release |-> release, key_code |-> key, modifiers |-> mods, n |-> produced + 1,
               ascii_char |-> IF release THEN Nothing ELSE keycode_to_ascii(key, mods)])
        /\ extended_scancode' = FALSE
        /\ produced' = produced + 1
        /\ held' = IF release THEN held \ {k} ELSE held \cup {k}
        /\ UNCHANGED <<status, max_queue_size>>

PlainKey(k, release) ==
    wire = << >> /\ ~ k.ext /\ process_scancode(k, release) /\ UNCHANGED wire

AfterPrefix ==
    wire # << >> /\ process_scancode(wire[1], wire[2]) /\ wire' = << >>

clear_events == event_queue' = << >>

\* also the request Initialize
init ==
    /\ clear_events
    /\ modifiers' = {} /\ extended_scancode' = FALSE /\ status' = "Ready"
    /\ UNCHANGED <<max_queue_size, wire, held, produced>>

\* also the power event PowerDown; the flag of a pending prefix stays
cleanup ==
    /\ clear_events
    /\ modifiers' = {} /\ status' = "Uninitialized"
    /\ UNCHANGED <<extended_scancode, max_queue_size, wire, held, produced>>

suspend ==
    /\ clear_events /\ status' = "Suspended"
    /\ UNCHANGED <<modifiers, extended_scancode, max_queue_size, wire, held, produced>>

resume ==
    /\ status' = "Ready"
    /\ UNCHANGED <<event_queue, modifiers, extended_scancode, max_queue_size,
                   wire, held, produced>>

\* the request Read, and Control 0x01: the queue is empty afterwards
Drain ==
    /\ event_queue # << >> /\ clear_events
    /\ UNCHANGED <<status, modifiers, extended_scancode, max_queue_size, wire, held, produced>>

get_next_event ==
    /\ event_queue # << >> /\ event_queue' = Tail(event_queue)
    /\ UNCHANGED <<status, modifiers, extended_scancode, max_queue_size, wire, held, produced>>

\* Control 0x02; a size of zero is refused
SetQueueSize(size) ==
    /\ size > 0
    /\ max_queue_size' = size
    /\ event_queue' = Latest(event_queue, size)
    /\ UNCHANGED <<status, modifiers, extended_scancode, wire, held, produced>>

Next ==
    \/ \E k \in Keys, release \in BOOLEAN : Prefix(k, release) \/ PlainKey(k, release)
    \/ AfterPrefix
    \/ init \/ cleanup \/ suspend \/ resume
    \/ Drain \/ get_next_event
    \/ \E size \in Sizes : SetQueueSize(size)

Spec == Init /\ [][Next]_vars
-----------------------------------------------------------------------------
\* No modifier is stuck: SHIFT, CTRL and ALT are set only while a key that sets them is down,
\* whichever of the two keys it is, with or without the prefix, across initialisation,
\* suspension and shutdown, and whatever request comes between the two bytes of a key.
NoStuckModifier ==
    \A m \in modifiers \ {"CAPS_LOCK"} : \E k \in held : m \in ModifierOf(k.code)

\* What is queued are the latest events, in order and without a gap, never more than the
\* queue size: events are lost from the old end only, also when the size is reduced.
EventsAreLatest ==
    /\ Len(event_queue) <= max_queue_size
    /\ \A i \in DOMAIN event_queue : event_queue[i].n = produced - Len(event_queue) + i
=============================================================================

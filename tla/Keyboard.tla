------------------------------ MODULE Keyboard ------------------------------
(***************************************************************************)
(* The keyboard driver of src/src/drivers/keyboard/keyboard.c: its         *)
(* interrupt handler turns the press and the release of keys into          *)
(* characters in a ring buffer and into the state of the modifiers; tasks  *)
(* take the characters with keyboard_getchar.                              *)
(*                                                                         *)
(* The handler runs with interrupts off, and so does keyboard_getchar (its *)
(* callers are system calls), except in the yield of its loop, so each is  *)
(* one action.  That Ctrl-C also marks the running task with SIGINT is     *)
(* action CtrlC of module Scheduler.                                       *)
(***************************************************************************)
EXTENDS Integers, Sequences, FiniteSets

CONSTANTS Readers,          \* the tasks that read the terminal
          Letters,          \* keys with a lower and an upper case letter
          CKey,             \* the one that is SIGINT with Ctrl
          Shifts,           \* the two keys with scancodes 0x2A and 0x36
          Controls,         \* the two keys that send 0x1D
          Silent,           \* keys with 0 in both keymaps
          Beyond,           \* keys whose scancodes lie past the keymaps' end
          KEY_BUFFER_SIZE,
          NoChar            \* the zero byte

ASSUME SizeAssumption == KEY_BUFFER_SIZE \in Nat \ {0}
ASSUME CKeyAssumption == CKey \in Letters
ASSUME ShiftsAssumption == Shifts \cap Controls = {}

Characters == Letters \X {"lower", "upper"}

VARIABLES key_buffer, key_read_pos, key_write_pos,
          shift_pressed, caps_lock, ctrl_pressed,
          held,      \* the modifier keys that are down
          crowded,   \* two keys of a kind were down at the same time
          given      \* the last character each reader got

ring == <<key_buffer, key_read_pos, key_write_pos>>
modifiers == <<shift_pressed, caps_lock, ctrl_pressed>>
vars == <<key_buffer, key_read_pos, key_write_pos, shift_pressed, caps_lock,
          ctrl_pressed, held, crowded, given>>

Positions == 0 .. KEY_BUFFER_SIZE - 1

\* keyboard_init; the buffer and ctrl_pressed start as zeros.
Init ==
    /\ key_buffer = [i \in Positions |-> NoChar]
    /\ key_read_pos = 0 /\ key_write_pos = 0
    /\ shift_pressed = FALSE /\ caps_lock = FALSE /\ ctrl_pressed = FALSE
    /\ held = {} /\ crowded = FALSE
    /\ given = [r \in Readers |-> NoChar]

\* Faulty: the position is never wrapped.
AfterUnwrapped(i) == i + 1

After(i) == (i + 1) % KEY_BUFFER_SIZE

-----------------------------------------------------------------------------
(* keyboard_handler_main.                                                  *)

\* The two keymaps for a letter: shift_pressed ^ caps_lock
Shown(k) == <<k, IF shift_pressed # caps_lock THEN "upper" ELSE "lower">>

\* A character of the keymaps: Ctrl-C or text.
Typed(c) ==
    IF ctrl_pressed /\ c[1] = CKey
    THEN UNCHANGED ring
    ELSE /\ key_buffer' = [key_buffer EXCEPT ![key_write_pos] = c]
         /\ key_write_pos' = After(key_write_pos)
         /\ UNCHANGED key_read_pos

PressLetter(k) ==
    /\ Typed(Shown(k))
    /\ UNCHANGED <<modifiers, held, crowded, given>>

\* The keymaps have 59 entries and the scancode up to 127: what the handler
\* reads past their end may be any character, or none.
PressBeyond(k) ==
    /\ \/ \E c \in Characters : Typed(c)
       \/ UNCHANGED ring
    /\ UNCHANGED <<modifiers, held, crowded, given>>

PressSilent(k) == UNCHANGED vars

Hold(k, kind) ==
    /\ held' = held \cup {k}
    /\ crowded' = (crowded \/ \E other \in held \cap kind : other # k)

PressShift(k) ==
    /\ shift_pressed' = TRUE
    /\ Hold(k, Shifts)
    /\ UNCHANGED <<ring, caps_lock, ctrl_pressed, given>>

PressControl(k) ==
    /\ ctrl_pressed' = TRUE
    /\ Hold(k, Controls)
    /\ UNCHANGED <<ring, shift_pressed, caps_lock, given>>

PressCaps ==
    /\ caps_lock' = ~caps_lock
    /\ UNCHANGED <<ring, shift_pressed, ctrl_pressed, held, crowded, given>>

\* Faulty: only the left key (0x2A) is looked at.
ReleaseShiftLeft(k) ==
    /\ k \in held
    /\ held' = held \ {k}
    /\ shift_pressed' = IF k = CHOOSE left \in Shifts : TRUE THEN FALSE ELSE shift_pressed
    /\ UNCHANGED <<ring, caps_lock, ctrl_pressed, crowded, given>>

ReleaseShift(k) ==
    /\ k \in held
    /\ held' = held \ {k}
    /\ shift_pressed' = FALSE
    /\ UNCHANGED <<ring, caps_lock, ctrl_pressed, crowded, given>>

ReleaseControl(k) ==
    /\ k \in held
    /\ held' = held \ {k}
    /\ ctrl_pressed' = FALSE
    /\ UNCHANGED <<ring, shift_pressed, caps_lock, crowded, given>>

-----------------------------------------------------------------------------

\* Faulty: moves on without looking whether there is a character.
GetcharUnchecked(r) ==
    /\ given' = [given EXCEPT ![r] = key_buffer[key_read_pos]]
    /\ key_read_pos' = After(key_read_pos)
    /\ UNCHANGED <<key_buffer, key_write_pos, modifiers, held, crowded>>

\* The round of the loop that finds a character; the others change nothing.
keyboard_getchar(r) ==
    /\ key_read_pos # key_write_pos
    /\ given' = [given EXCEPT ![r] = key_buffer[key_read_pos]]
    /\ key_read_pos' = After(key_read_pos)
    /\ UNCHANGED <<key_buffer, key_write_pos, modifiers, held, crowded>>

Next ==
    \/ \E k \in Letters : PressLetter(k)
    \/ \E k \in Beyond : PressBeyond(k)
    \/ \E k \in Silent : PressSilent(k)
    \/ \E k \in Shifts : PressShift(k) \/ ReleaseShift(k)
    \/ \E k \in Controls : PressControl(k) \/ ReleaseControl(k)
    \/ PressCaps
    \/ \E r \in Readers : keyboard_getchar(r)

Spec == Init /\ [][Next]_vars

-----------------------------------------------------------------------------
(* Properties.                                                             *)

\* Every variable stays within its type.
TypeOK ==
    /\ key_buffer \in [Positions -> Characters \cup {NoChar}]
    /\ key_read_pos \in Positions /\ key_write_pos \in Positions
    /\ shift_pressed \in BOOLEAN /\ caps_lock \in BOOLEAN /\ ctrl_pressed \in BOOLEAN
    /\ held \in SUBSET (Shifts \cup Controls) /\ crowded \in BOOLEAN
    /\ given \in [Readers -> Characters \cup {NoChar}]

\* A modifier is on only while one of its keys is down, and always then unless
\* both keys of a kind were down at once: the release of either counts for both.
ModifiersFollowKeys ==
    /\ shift_pressed => held \cap Shifts # {}
    /\ ctrl_pressed => held \cap Controls # {}
    /\ ~crowded => /\ shift_pressed <=> held \cap Shifts # {}
                   /\ ctrl_pressed <=> held \cap Controls # {}

\* How many characters the positions say are waiting, and which
Waiting == (key_write_pos - key_read_pos) % KEY_BUFFER_SIZE
Queue == [i \in 1 .. Waiting |-> key_buffer[(key_read_pos + i - 1) % KEY_BUFFER_SIZE]]

Ahead == INSTANCE TypeAhead WITH queue <- Queue, Capacity <- KEY_BUFFER_SIZE - 1,
             Nothing <- NoChar

\* Characters are given in the order they were typed, each to one reader and
\* none lost or invented, up to KEY_BUFFER_SIZE - 1 of them; one more, and the
\* whole buffer looks empty (keyboard.c:80-81 do not look at key_read_pos).
ImplementsTypeAhead == Ahead!Spec

=============================================================================

--------------------------- MODULE KeyboardProofs ---------------------------
(***************************************************************************)
(* Theorems about Keyboard, for every size of the buffer, every number of  *)
(* readers and every set of keys.                                          *)
(***************************************************************************)
EXTENDS Keyboard, SequenceLemmas

-----------------------------------------------------------------------------
(* Types and modifiers.                                                    *)

\* The keys of a kind that are down, without crowding at most one.
Alone(kind) == \A j, k \in held \cap kind : j = k

\* The inductive invariant: what the modifiers say of the keys, and that one
\* release leaves none down unless two keys of the kind were down at once.
KeysInv == TypeOK /\ ModifiersFollowKeys /\ (~crowded => Alone(Shifts) /\ Alone(Controls))

\* The initial state satisfies the invariant.
LEMMA InitInv == Init => KeysInv
<1> SUFFICES ASSUME Init PROVE KeysInv
  OBVIOUS
<1>1. TypeOK
  <2>1. 0 \in Positions
    BY SizeAssumption DEF SizeAssumption, Positions
  <2> QED
    BY <2>1 DEF Init, TypeOK
<1> QED
  BY <1>1 DEF Init, KeysInv, ModifiersFollowKeys, Alone

\* The position after one of the buffer is one.
LEMMA AfterInRange ==
    ASSUME NEW i \in Positions
    PROVE  After(i) \in Positions
<1>1. i + 1 \in 0 .. 2 * KEY_BUFFER_SIZE - 1
  BY SizeAssumption DEF SizeAssumption, Positions
<1> QED
  BY <1>1, ModIsTurn, SizeAssumption DEF SizeAssumption, After, Positions

\* Letters are characters, whatever the modifiers.
LEMMA ShownIsCharacter ==
    ASSUME NEW k \in Letters
    PROVE  Shown(k) \in Characters
BY DEF Shown, Characters

\* A typed character keeps the types of the buffer.
LEMMA TypedKeeps ==
    ASSUME TypeOK, NEW c \in Characters, Typed(c)
    PROVE  /\ key_buffer' \in [Positions -> Characters \cup {NoChar}]
           /\ key_read_pos' \in Positions /\ key_write_pos' \in Positions
BY AfterInRange DEF TypeOK, Typed, ring

\* What leaves the keys and the modifiers alone only has to keep the types.
LEMMA OthersKeep ==
    ASSUME KeysInv, TypeOK', UNCHANGED <<shift_pressed, ctrl_pressed, held, crowded>>
    PROVE  KeysInv'
BY DEF KeysInv, ModifiersFollowKeys, Alone

\* The invariant is inductive.
LEMMA StepInv == KeysInv /\ [Next]_vars => KeysInv'
<1> SUFFICES ASSUME KeysInv, [Next]_vars PROVE KeysInv'
  OBVIOUS
<1>1. TypeOK
  BY DEF KeysInv
<1>2. CASE UNCHANGED vars
  BY <1>2 DEF vars, KeysInv, TypeOK, ModifiersFollowKeys, Alone
<1>3. ASSUME NEW k \in Letters, PressLetter(k) PROVE KeysInv'
  <2>1. TypeOK'
    BY <1>1, <1>3, ShownIsCharacter, TypedKeeps DEF PressLetter, TypeOK, modifiers
  <2> QED
    BY <1>3, <2>1, OthersKeep DEF PressLetter, modifiers
<1>4. ASSUME NEW k \in Beyond, PressBeyond(k) PROVE KeysInv'
  <2>1. TypeOK'
    <3>1. CASE \E c \in Characters : Typed(c)
      BY <1>1, <1>4, <3>1, TypedKeeps DEF PressBeyond, TypeOK, modifiers
    <3>2. CASE UNCHANGED ring
      BY <1>1, <1>4, <3>2 DEF PressBeyond, TypeOK, modifiers, ring
    <3> QED
      BY <1>4, <3>1, <3>2 DEF PressBeyond
  <2> QED
    BY <1>4, <2>1, OthersKeep DEF PressBeyond, modifiers
<1>5. ASSUME NEW k \in Shifts, PressShift(k) PROVE KeysInv'
  <2> USE DEF PressShift, Hold
  <2>1. TypeOK'
    BY <1>1, <1>5 DEF TypeOK, ring
  <2>2. held' \cap Shifts # {} /\ held' \cap Controls = held \cap Controls
    BY <1>5, ShiftsAssumption DEF ShiftsAssumption
  <2>3. ModifiersFollowKeys'
    BY <1>5, <2>2 DEF KeysInv, ModifiersFollowKeys, TypeOK
  <2>4. ~crowded' => Alone(Shifts)' /\ Alone(Controls)'
    <3>1. ASSUME ~crowded' PROVE Alone(Shifts)'
      <4>1. \A other \in held \cap Shifts : other = k
        BY <1>5, <3>1
      <4> QED
        BY <1>5, <4>1 DEF Alone
    <3>2. ASSUME ~crowded' PROVE Alone(Controls)'
      BY <1>5, <2>2, <3>2 DEF KeysInv, Alone
    <3> QED
      BY <3>1, <3>2
  <2> QED
    BY <2>1, <2>3, <2>4 DEF KeysInv
<1>6. ASSUME NEW k \in Shifts, ReleaseShift(k) PROVE KeysInv'
  <2> USE DEF ReleaseShift
  <2>1. TypeOK'
    BY <1>1, <1>6 DEF TypeOK, ring
  <2>2. held' \cap Controls = held \cap Controls
    BY <1>6, ShiftsAssumption DEF ShiftsAssumption
  <2>3. ~crowded => held' \cap Shifts = {}
    BY <1>6 DEF KeysInv, Alone
  <2>4. ModifiersFollowKeys'
    BY <1>6, <2>2, <2>3 DEF KeysInv, ModifiersFollowKeys
  <2> QED
    BY <1>6, <2>1, <2>2, <2>4 DEF KeysInv, Alone
<1>7. ASSUME NEW k \in Controls, PressControl(k) PROVE KeysInv'
  <2> USE DEF PressControl, Hold
  <2>1. TypeOK'
    BY <1>1, <1>7 DEF TypeOK, ring
  <2>2. held' \cap Controls # {} /\ held' \cap Shifts = held \cap Shifts
    BY <1>7, ShiftsAssumption DEF ShiftsAssumption
  <2>3. ModifiersFollowKeys'
    BY <1>7, <2>2 DEF KeysInv, ModifiersFollowKeys, TypeOK
  <2>4. ~crowded' => Alone(Shifts)' /\ Alone(Controls)'
    <3>1. ASSUME ~crowded' PROVE Alone(Controls)'
      <4>1. \A other \in held \cap Controls : other = k
        BY <1>7, <3>1
      <4> QED
        BY <1>7, <4>1 DEF Alone
    <3>2. ASSUME ~crowded' PROVE Alone(Shifts)'
      BY <1>7, <2>2, <3>2 DEF KeysInv, Alone
    <3> QED
      BY <3>1, <3>2
  <2> QED
    BY <2>1, <2>3, <2>4 DEF KeysInv
<1>8. ASSUME NEW k \in Controls, ReleaseControl(k) PROVE KeysInv'
  <2> USE DEF ReleaseControl
  <2>1. TypeOK'
    BY <1>1, <1>8 DEF TypeOK, ring
  <2>2. held' \cap Shifts = held \cap Shifts
    BY <1>8, ShiftsAssumption DEF ShiftsAssumption
  <2>3. ~crowded => held' \cap Controls = {}
    BY <1>8 DEF KeysInv, Alone
  <2>4. ModifiersFollowKeys'
    BY <1>8, <2>2, <2>3 DEF KeysInv, ModifiersFollowKeys
  <2> QED
    BY <1>8, <2>1, <2>2, <2>4 DEF KeysInv, Alone
<1>9. CASE PressCaps
  <2>1. TypeOK'
    BY <1>1, <1>9 DEF PressCaps, TypeOK, ring
  <2> QED
    BY <1>9, <2>1, OthersKeep DEF PressCaps
<1>10. ASSUME NEW r \in Readers, keyboard_getchar(r) PROVE KeysInv'
  <2>1. TypeOK'
    BY <1>1, <1>10, AfterInRange DEF keyboard_getchar, TypeOK, modifiers
  <2> QED
    BY <1>10, <2>1, OthersKeep DEF keyboard_getchar, modifiers
<1> QED
  BY <1>2, <1>3, <1>4, <1>5, <1>6, <1>7, <1>8, <1>9, <1>10 DEF Next, PressSilent

\* What the invariant says of every behaviour.
LEMMA AlwaysKeysInv == Spec => []KeysInv
BY InitInv, StepInv, PTL DEF Spec

\* Both positions stay inside the buffer, for any order of keys and readers.
THEOREM TypeCorrect == Spec => []TypeOK
<1>1. KeysInv => TypeOK
  BY DEF KeysInv
<1> QED
  BY <1>1, AlwaysKeysInv, PTL

\* No order of presses and releases, of any number of keys, leaves a modifier
\* on after its last key came up, nor off under a key that is down alone.
THEOREM ModifiersCorrect == Spec => []ModifiersFollowKeys
<1>1. KeysInv => ModifiersFollowKeys
  BY DEF KeysInv
<1> QED
  BY <1>1, AlwaysKeysInv, PTL

-----------------------------------------------------------------------------
(* The buffer implements the characters typed ahead.                       *)

\* How many wait, and which, in the terms of the lemmas about rings.
Ring ==
    /\ Apart(key_read_pos, key_write_pos, Waiting, KEY_BUFFER_SIZE)
    /\ Queue = Segment(key_buffer, key_read_pos, Waiting, KEY_BUFFER_SIZE)
    /\ Len(Queue) = Waiting

\* The types are enough for that.
LEMMA TypedIsRing == TypeOK => Ring
<1> HAVE TypeOK
<1>1. /\ KEY_BUFFER_SIZE \in Nat \ {0}
      /\ key_read_pos \in 0 .. KEY_BUFFER_SIZE - 1
      /\ key_write_pos \in 0 .. KEY_BUFFER_SIZE - 1
  BY SizeAssumption DEF SizeAssumption, TypeOK, Positions
<1>2. Apart(key_read_pos, key_write_pos, Waiting, KEY_BUFFER_SIZE)
  <2>1. Waiting = (key_write_pos - key_read_pos) % KEY_BUFFER_SIZE
    BY DEF Waiting
  <2> QED
    BY <1>1, <2>1, DistanceIsTurn
<1>3. Queue = Segment(key_buffer, key_read_pos, Waiting, KEY_BUFFER_SIZE)
  BY DEF Queue, Segment
<1>4. Len(Queue) = Waiting
  <2>1. Waiting \in 0 .. KEY_BUFFER_SIZE
    BY <1>1, <1>2 DEF Apart
  <2>2. \A x \in 0 .. KEY_BUFFER_SIZE - 1 : key_buffer[x] \in Characters \cup {NoChar}
    BY DEF TypeOK, Positions
  <2>3. Lists(Queue, Characters \cup {NoChar}, key_buffer, key_read_pos, Waiting, KEY_BUFFER_SIZE)
    BY <1>1, <1>3, <2>1, <2>2, SegmentIsSeq
  <2> QED
    BY <2>3 DEF Lists
<1> QED
  BY <1>2, <1>3, <1>4 DEF Ring

\* Also after a step.
LEMMA TypedIsRingNext == TypeOK' => Ring'
BY TypedIsRing, PTL

\* A typed character goes behind the others, or erases them all.
LEMMA TypedIsType ==
    ASSUME TypeOK, TypeOK', NEW c \in Characters, Typed(c), given' = given
    PROVE  Ahead!Type(c) \/ UNCHANGED <<Queue, given>>
<1>1. CASE UNCHANGED ring
  BY <1>1 DEF ring, Queue, Waiting
<1>2. CASE /\ key_buffer' = [key_buffer EXCEPT ![key_write_pos] = c]
           /\ key_write_pos' = After(key_write_pos)
           /\ key_read_pos' = key_read_pos
  <2> PICK S \in Nat \ {0} : S = KEY_BUFFER_SIZE
    BY SizeAssumption DEF SizeAssumption
  <2>1. PICK n \in 0 .. S - 1, r \in 0 .. S - 1, w \in 0 .. S - 1 :
           /\ S = KEY_BUFFER_SIZE /\ n = Waiting /\ r = key_read_pos /\ w = key_write_pos
           /\ w = Turn(r + n, S)
    BY TypedIsRing DEF Apart, Ring, TypeOK, Positions
  <2>2. PICK m \in 0 .. S - 1, v \in 0 .. S - 1 :
           /\ m = Waiting' /\ v = key_write_pos'
           /\ v = Turn(r + m, S)
           /\ Queue' = Segment(key_buffer', r, m, S)
    <3>1. /\ Waiting' \in 0 .. KEY_BUFFER_SIZE - 1
          /\ key_write_pos' = Turn(key_read_pos' + Waiting', KEY_BUFFER_SIZE)
          /\ Queue' = Segment(key_buffer', key_read_pos', Waiting', KEY_BUFFER_SIZE)
          /\ key_write_pos' \in 0 .. KEY_BUFFER_SIZE - 1
      BY TypedIsRingNext DEF Apart, Ring, TypeOK, Positions
    <3> QED
      BY <1>2, <2>1, <3>1
  <2>3. v = Turn(w + 1, S)
    <3>1. v = (w + 1) % S
      BY <1>2, <2>1, <2>2 DEF After
    <3>2. w + 1 \in 0 .. 2 * S - 1
      OBVIOUS
    <3> QED
      BY <3>1, <3>2, ModIsTurn
  <2>4. m = IF n < S - 1 THEN n + 1 ELSE 0
    BY <2>1, <2>2, <2>3, OneMore
  <2>5. Queue = Segment(key_buffer, r, n, S) /\ Len(Queue) = n
    BY <2>1, TypedIsRing DEF Apart, Ring
  <2>6. CASE n < S - 1
    <3>1. Stored(key_buffer', key_buffer, w, c, S)
      BY <1>2, <2>1 DEF Stored, TypeOK, Positions
    <3>2. m = n + 1 /\ w = Turn(r + n, S)
      BY <2>1, <2>4, <2>6
    <3>3. Segment(key_buffer', r, m, S) = Append(Segment(key_buffer, r, n, S), c)
      BY <3>1, <3>2, SegmentAppend
    <3>4. Queue' = Append(Queue, c)
      BY <2>2, <2>5, <3>3
    <3>5. Len(Queue) < KEY_BUFFER_SIZE - 1
      BY <2>1, <2>5, <2>6
    <3> QED
      BY <3>4, <3>5 DEF Ahead!Type
  <2>7. CASE ~(n < S - 1)
    <3>1. Queue' = <<>>
      BY <2>2, <2>4, <2>7 DEF Segment
    <3>2. ~(Len(Queue) < KEY_BUFFER_SIZE - 1)
      BY <2>1, <2>5, <2>7
    <3> QED
      BY <3>1, <3>2 DEF Ahead!Type
  <2> QED
    BY <2>6, <2>7
<1> QED
  BY <1>1, <1>2 DEF Typed

\* A reader takes the oldest character.
LEMMA GetcharIsGive ==
    ASSUME TypeOK, TypeOK', NEW r \in Readers, keyboard_getchar(r)
    PROVE  Ahead!Give(r)
<1> USE DEF keyboard_getchar
<1> PICK S \in Nat \ {0} : S = KEY_BUFFER_SIZE
  BY SizeAssumption DEF SizeAssumption
<1>1. PICK n \in 0 .. S - 1, p \in 0 .. S - 1, w \in 0 .. S - 1 :
         /\ S = KEY_BUFFER_SIZE /\ n = Waiting /\ p = key_read_pos /\ w = key_write_pos
         /\ w = Turn(p + n, S) /\ n # 0
         /\ Queue = Segment(key_buffer, p, n, S)
  BY TypedIsRing DEF Apart, Ring, TypeOK, Positions
<1>2. PICK m \in 0 .. S - 1, q \in 0 .. S - 1 :
         /\ m = Waiting' /\ q = key_read_pos'
         /\ w = Turn(q + m, S)
         /\ Queue' = Segment(key_buffer', q, m, S)
  <2>1. /\ Waiting' \in 0 .. KEY_BUFFER_SIZE - 1
        /\ key_write_pos' = Turn(key_read_pos' + Waiting', KEY_BUFFER_SIZE)
        /\ Queue' = Segment(key_buffer', key_read_pos', Waiting', KEY_BUFFER_SIZE)
        /\ key_read_pos' \in 0 .. KEY_BUFFER_SIZE - 1
    BY TypedIsRingNext DEF Apart, Ring, TypeOK, Positions
  <2> QED
    BY <1>1, <2>1
<1>3. q = (p + 1) % S /\ q = Turn(p + 1, S)
  <2>1. p + 1 \in 0 .. 2 * S - 1
    OBVIOUS
  <2> QED
    BY <1>1, <1>2, <2>1, ModIsTurn DEF After
<1>4. m = n - 1
  <2>1. n \in 1 .. S - 1
    BY <1>1
  <2> QED
    BY <1>1, <1>2, <1>3, <2>1, OneLess
<1>5. n \in 1 .. S
  BY <1>1
<1>6. /\ Queue # <<>> /\ Head(Queue) = key_buffer[p]
      /\ Segment(key_buffer, (p + 1) % S, n - 1, S) = Tail(Queue)
  BY <1>1, <1>5, SegmentTail
<1>7. Queue' = Tail(Queue)
  BY <1>2, <1>3, <1>4, <1>6
<1> QED
  BY <1>1, <1>6, <1>7 DEF Ahead!Give

\* The initial state is one of characters typed ahead.
LEMMA AheadInit == Init => Ahead!Init
<1> SUFFICES ASSUME Init PROVE Ahead!Init
  OBVIOUS
<1>1. TypeOK
  BY InitInv DEF KeysInv
<1>2. Waiting = 0
  BY <1>1, TypedIsRing DEF Apart, Ring, Init
<1>3. Queue = <<>>
  BY <1>2 DEF Queue
<1> QED
  BY <1>3 DEF Init, Ahead!Init

\* Every step types one, gives one, or changes nothing of them.
LEMMA AheadStep == TypeOK /\ TypeOK' /\ [Next]_vars => [Ahead!Next]_<<Queue, given>>
<1> SUFFICES ASSUME TypeOK, TypeOK', [Next]_vars PROVE [Ahead!Next]_<<Queue, given>>
  OBVIOUS
<1>1. CASE UNCHANGED <<ring, given>>
  BY <1>1 DEF ring, Queue, Waiting
<1>2. ASSUME NEW c \in Characters, Typed(c), given' = given
      PROVE  [Ahead!Next]_<<Queue, given>>
  BY <1>2, TypedIsType DEF Ahead!Next
<1>3. ASSUME NEW r \in Readers, keyboard_getchar(r)
      PROVE  [Ahead!Next]_<<Queue, given>>
  BY <1>3, GetcharIsGive DEF Ahead!Next
<1>4. CASE UNCHANGED vars
  BY <1>1, <1>4 DEF vars, ring
<1>5. ASSUME NEW k \in Letters, PressLetter(k) PROVE [Ahead!Next]_<<Queue, given>>
  BY <1>2, <1>5, ShownIsCharacter DEF PressLetter
<1>6. ASSUME NEW k \in Beyond, PressBeyond(k) PROVE [Ahead!Next]_<<Queue, given>>
  BY <1>1, <1>2, <1>6 DEF PressBeyond
<1> QED
  BY <1>1, <1>3, <1>4, <1>5, <1>6
     DEF Next, PressSilent, PressShift, ReleaseShift, PressControl, ReleaseControl, PressCaps

\* Up to KEY_BUFFER_SIZE - 1 characters wait and come out in the order they
\* were typed, each to one reader; the next erases them.  So it is for every
\* size of the buffer, also that of the code, 256.
THEOREM KeyboardImplementsTypeAhead == Spec => ImplementsTypeAhead
<1>1. Spec => Ahead!Spec
  BY TypeCorrect, AheadInit, AheadStep, PTL DEF Spec, Ahead!Spec
<1> QED
  BY <1>1 DEF ImplementsTypeAhead

=============================================================================

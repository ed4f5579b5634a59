----------------------------- MODULE AttractUI -----------------------------
(***************************************************************************)
(* The attract app (crates/attract/src/lib.rs, main.rs): in one mode the   *)
(* reel of boards that waits for Start, in the other the initials wheel    *)
(* after a run.  The app works in frames: a frame gathers the keys since   *)
(* the last one, feeds them and then a timer tick to the state machine,    *)
(* and prints the handoff line and exits if that is Done.  What it draws,  *)
(* and the boards it fetches for that, are left out.                       *)
(***************************************************************************)
EXTENDS Naturals, Sequences, SequencesExt

CONSTANTS
    CHARSET,           \* the wheel, a sequence; the first one pads
    INITIALS_LEN,
    REEL_LEN,
    IDLE_DWELL,        \* in ticks of the clock
    ENTRY_TIMEOUT,
    MaxStall,          \* bound on the time between two frames,
    MaxKeys            \* and on the keys of one

ASSUME AttractUIAssumption ==
    /\ Len(CHARSET) > 0
    /\ {INITIALS_LEN, REEL_LEN, IDLE_DWELL, ENTRY_TIMEOUT, MaxStall} \subseteq Nat \ {0}
    /\ MaxKeys \in Nat

VARIABLES
    mode,              \* "Attract" or "Initials"
    ui,                \* AttractState; `age' is the time since `since' or `last_input'
    prev_ctrl,         \* whether the fire button was down in the last frame
    line,              \* what was printed at exit, until then <<>>
    inputs,            \* the inputs of the last frame
    quiet              \* the time since a frame had inputs, up to ENTRY_TIMEOUT

vars == <<mode, ui, prev_ctrl, line, inputs, quiet>>

Keys == {"Up", "Down", "Backspace", "Start"}
Exited == line # <<>>

Idle(board_idx, age) == [at |-> "Idle", board_idx |-> board_idx, age |-> age]
Entry(chars, cursor_char, age) ==
    [at |-> "Entry", chars |-> chars, cursor_char |-> cursor_char, age |-> age]
DoneWith(payload) == [at |-> "Done", payload |-> payload]

Turn(cursor_char, by) == (cursor_char + by) % Len(CHARSET)
Letter(cursor_char) == CHARSET[cursor_char + 1]
CharIndex(c) == (CHOOSE i \in DOMAIN CHARSET : CHARSET[i] = c) - 1

PadInitials(chars) ==
    [i \in 1..INITIALS_LEN |-> IF i <= Len(chars) THEN chars[i] ELSE CHARSET[1]]

-----------------------------------------------------------------------------
\* step, by state.  Idle is only reached in Attract mode, Entry only in Initials.
\* Mutant: any key keeps the reel on its screen.
StepIdleTouched(s, input) ==
    CASE input = "Tick" /\ s.age >= IDLE_DWELL -> Idle((s.board_idx + 1) % REEL_LEN, 0)
      [] input = "Start" -> IF mode = "Attract" THEN DoneWith(<<>>) ELSE Entry(<<>>, 0, 0)
      [] input \in {"Up", "Down", "Backspace", "Confirm"} -> Idle(s.board_idx, 0)
      [] OTHER -> s

StepIdle(s, input) ==
    CASE input = "Tick" /\ s.age >= IDLE_DWELL -> Idle((s.board_idx + 1) % REEL_LEN, 0)
      [] input = "Start" -> IF mode = "Attract" THEN DoneWith(<<>>) ELSE Entry(<<>>, 0, 0)
      [] OTHER -> s

Backspace(s) ==
    IF s.chars # <<>> THEN Entry(Front(s.chars), CharIndex(Last(s.chars)), 0)
    ELSE IF mode = "Initials" THEN Entry(<<>>, s.cursor_char, 0)
    ELSE Idle(0, 0)

Confirm(s) ==
    LET chars == Append(s.chars, Letter(s.cursor_char))
    IN  IF Len(chars) >= INITIALS_LEN THEN DoneWith(chars) ELSE Entry(chars, s.cursor_char, 0)

\* Mutant: nothing entered, nothing handed off.
TimeoutNeedsLetter(s) ==
    IF s.chars # <<>> THEN DoneWith(PadInitials(s.chars)) ELSE Entry(<<>>, s.cursor_char, 0)

Timeout(s) == IF mode = "Initials" THEN DoneWith(PadInitials(s.chars)) ELSE Idle(0, 0)

StepEntry(s, input) ==
    CASE input = "Tick" ->
             IF s.age < ENTRY_TIMEOUT THEN s ELSE Timeout(s)
      [] input = "Up" -> Entry(s.chars, Turn(s.cursor_char, 1), 0)
      [] input = "Down" -> Entry(s.chars, Turn(s.cursor_char, Len(CHARSET) - 1), 0)
      [] input = "Confirm" -> Confirm(s)
      [] input = "Backspace" -> Backspace(s)
      [] input = "Start" -> Entry(s.chars, s.cursor_char, 0)

Step(s, input) ==
    CASE s.at = "Idle" -> StepIdle(s, input)
      [] s.at = "Entry" -> StepEntry(s, input)
      [] s.at = "Done" -> s

-----------------------------------------------------------------------------
\* collect_inputs: the keys in order, and then the fire button, which is not a key
\* event but a state that is compared with that of the last frame.
Collect(keys, ctrl) == IF ctrl /\ ~prev_ctrl THEN Append(keys, "Confirm") ELSE keys

Handoff(payload) == IF mode = "Attract" THEN <<"ARCADE_START">> ELSE payload

\* Mutant: the timer is looked at before the keys.
UpdateTickFirst(s) == FoldLeft(Step, Step(s, "Tick"), inputs')

\* The keys come first, and then the timer.
Update(s) == Step(FoldLeft(Step, s, inputs'), "Tick")

Older(s, dt) == IF s.at = "Done" THEN s ELSE [s EXCEPT !.age = @ + dt]

\* One frame, dt after the one before.
Frame(dt, keys, ctrl) ==
    /\ ~Exited
    /\ inputs' = Collect(keys, ctrl)
    /\ prev_ctrl' = ctrl
    /\ ui' = Update(Older(ui, dt))
    /\ line' = IF ui'.at = "Done" THEN Handoff(ui'.payload) ELSE <<>>
    /\ quiet' = IF inputs' # <<>> THEN 0
                ELSE IF quiet + dt < ENTRY_TIMEOUT THEN quiet + dt
                ELSE ENTRY_TIMEOUT
    /\ UNCHANGED mode

Init ==
    /\ mode \in {"Attract", "Initials"}
    /\ ui = IF mode = "Attract" THEN Idle(0, 0) ELSE Entry(<<>>, 0, 0)
    /\ prev_ctrl = FALSE
    /\ line = <<>>
    /\ inputs = <<>> /\ quiet = 0

Frames(durations) ==
    \E dt \in durations, ctrl \in BOOLEAN :
        \E keys \in UNION {[1..n -> Keys] : n \in 0..MaxKeys} : Frame(dt, keys, ctrl)

Next == Frames(0..MaxStall)

\* A repaint is requested after every frame, and the clock goes on.
Spec == Init /\ [][Next]_vars /\ WF_vars(Frames(1..MaxStall))

-----------------------------------------------------------------------------
\* How the screen may be left.  The reel: only by Start.  The initials: with the
\* button pressed anew in that very frame, or with no input at all for the whole
\* timeout, and then with every letter that was locked in, in its place: a key in
\* the frame in which the time is up still counts, and a button that is held does
\* not run through the letters.
HandoffEarned ==
    [][Exited' /\ ~Exited =>
         IF mode = "Attract"
         THEN line' = <<"ARCADE_START">> /\ Contains(inputs', "Start")
         ELSE /\ Len(line') = INITIALS_LEN
              /\ \/ prev_ctrl' /\ ~prev_ctrl
                 \/ /\ quiet' >= ENTRY_TIMEOUT
                    /\ IsPrefix(ui.chars, line')
                    /\ \A i \in Len(ui.chars) + 1..INITIALS_LEN : line'[i] = CHARSET[1]]_vars

\* The initials of a run are handed off, once the player lets go of the panel.
HandsOff == mode = "Initials" /\ <>[](inputs = <<>>) => <>Exited

\* The reel comes round to every screen, whatever keys but Start are played with.
ReelCycles ==
    mode = "Attract" =>
        \/ <>Exited
        \/ \A i \in 0..(REEL_LEN - 1) : []<>(ui.at = "Idle" /\ ui.board_idx = i)
=============================================================================

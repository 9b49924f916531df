----------------------------- MODULE HostInput -----------------------------
(***************************************************************************)
(* Input on the host build: the user, SDL's event queue and keyboard       *)
(* state, the controller shift register behind $4016, and the two readers  *)
(* of the event queue.  A ROM that writes $4016 drains the queue from      *)
(* inside an instruction (sdl_poll_events); the front end drains it once   *)
(* per frame, looking for the window's close button (sdl_window_quit).     *)
(***************************************************************************)
EXTENDS Naturals, Sequences

CONSTANTS
    Keys,       \* buttons the user presses in this model
    MaxEvents,  \* bound: events the queue holds before the program reads it
    MaxReads,   \* bound: reads of $4016 recorded after a latch
    FrameRate,  \* modulus of cur_frame
    Accesses    \* how the ROM uses the port: "strobe", "dma", "read"

\* The order of the bits in the shift register, bit 7 first.
ButtonOrder ==
    <<"A", "B", "SELECT", "START", "UP", "DOWN", "LEFT", "RIGHT">>
Buttons == {ButtonOrder[i] : i \in 1 .. 8}

ASSUME InputAssumption ==
    /\ Keys \subseteq Buttons
    /\ MaxEvents \in Nat \ {0}
    /\ MaxReads \in Nat
    /\ FrameRate \in Nat \ {0, 1}
    /\ Accesses \subseteq {"strobe", "dma", "read"}

VARIABLES
    events,     \* SDL's event queue
    held,       \* keys the user is holding down
    controller_shift_register,  \* bit 7 is the head
    is_running,
    cur_frame,
    latched,    \* history: keys held at the last latch
    seen        \* history: the bits the ROM has read since then

hostVars == <<events, held>>
loopVars == <<is_running, cur_frame>>
history == <<latched, seen>>
inputVars == <<hostVars, controller_shift_register, loopVars, history>>

InputTypeOK ==
    /\ events \in Seq({"key", "quit"}) /\ Len(events) <= MaxEvents
    /\ held \subseteq Keys
    /\ controller_shift_register \in [1 .. 8 -> BOOLEAN]
    /\ is_running \in BOOLEAN /\ cur_frame \in 0 .. FrameRate - 1
    /\ latched \subseteq Keys
    /\ seen \in Seq(BOOLEAN)

\* Mutant: the byte is built with A in bit 0.
ButtonByteReversed(pressed) == [i \in 1 .. 8 |-> ButtonOrder[9 - i] \in pressed]

\* The byte sdl_poll_events() builds from the keyboard state.
ButtonByte(pressed) == [i \in 1 .. 8 |-> ButtonOrder[i] \in pressed]

InputInit ==
    /\ events = <<>> /\ held = {}
    /\ controller_shift_register = ButtonByte({})
    /\ is_running = TRUE /\ cur_frame = 0
    /\ latched = {} /\ seen = <<>>

-----------------------------------------------------------------------------
(***************************************************************************)
(* The user (SDL queues an event for each thing the user does).            *)
(***************************************************************************)

PressOrRelease ==
    /\ Len(events) < MaxEvents
    /\ \E k \in Keys : held' = IF k \in held THEN held \ {k} ELSE held \cup {k}
    /\ events' = Append(events, "key")
    /\ UNCHANGED <<controller_shift_register, loopVars, history>>

CloseWindow ==
    /\ Len(events) < MaxEvents
    /\ events' = Append(events, "quit")
    /\ UNCHANGED <<held, controller_shift_register, loopVars, history>>

-----------------------------------------------------------------------------
(***************************************************************************)
(* The ROM, through mem_write_8() and mem_read_8().                        *)
(***************************************************************************)

\* sdl_poll_events(): discard every queued event, then sample the keyboard.
sdl_poll_events ==
    /\ events' = <<>>
    /\ controller_shift_register' = ButtonByte(held)
    /\ latched' = held /\ seen' = <<>>
    /\ UNCHANGED <<held, loopVars>>

\* A write to $4016 latches whatever value is written.
StrobeWrite ==
    /\ is_running /\ "strobe" \in Accesses
    /\ sdl_poll_events

\* A write to $4014 runs the OAM DMA and falls through to the case of $4016.
DmaWrite ==
    /\ is_running /\ "dma" \in Accesses
    /\ sdl_poll_events

\* A read of $4016 returns bit 7 and shifts left.
PortRead ==
    /\ is_running /\ "read" \in Accesses
    /\ controller_shift_register' =
          [i \in 1 .. 8 |-> i < 8 /\ controller_shift_register[i + 1]]
    /\ seen' = IF Len(seen) < MaxReads
               THEN Append(seen, controller_shift_register[1]) ELSE seen
    /\ UNCHANGED <<hostVars, loopVars, latched>>

-----------------------------------------------------------------------------

QuitPending == \E i \in 1 .. Len(events) : events[i] = "quit"

\* Mutant: only the oldest event is looked at.
QuitIsFirst == events # <<>> /\ Head(events) = "quit"

\* The result of sdl_window_quit().
sdl_window_quit == \E i \in 1 .. Len(events) : events[i] = "quit"

\* Mutant: the frame number is not wrapped.
NextFrameUnbounded == cur_frame + 1

NextFrame == (cur_frame + 1) % FrameRate

\* Mutant: the oldest event is looked at and left in the queue.
EndFramePeeks ==
    /\ is_running
    /\ is_running' = ~QuitIsFirst
    /\ cur_frame' = NextFrame
    /\ UNCHANGED <<hostVars, controller_shift_register, history>>

\* The end of a frame: handle_sdl(), whose sdl_window_quit() pops the events up
\* to the first quit, or all of them; then synchronize_frames().
EndFrame ==
    /\ is_running
    /\ IF sdl_window_quit
       THEN \E q \in 1 .. Len(events) :
               /\ events[q] = "quit"
               /\ \A i \in 1 .. q - 1 : events[i] # "quit"
               /\ events' = SubSeq(events, q + 1, Len(events))
       ELSE events' = <<>>
    /\ is_running' = ~sdl_window_quit
    /\ cur_frame' = NextFrame
    /\ UNCHANGED <<held, controller_shift_register, history>>

Rom == StrobeWrite \/ DmaWrite \/ PortRead
InputNext == PressOrRelease \/ CloseWindow \/ Rom \/ EndFrame

\* Frames end again and again (FrameLoop!FramesRecur); neither the user nor
\* the ROM has to do anything.
InputSpec == InputInit /\ [][InputNext]_inputVars /\ WF_inputVars(EndFrame)

-----------------------------------------------------------------------------

\* What a ROM reads after a latch is the keyboard at that latch, A first, and
\* zeros after the eighth bit, whatever the user does between the reads and
\* however far the register has been shifted.
SerialReads ==
    \A i \in 1 .. Len(seen) :
        seen[i] = (i <= 8 /\ ButtonOrder[i] \in latched)

\* sdl-instance.h:28: "sdl_poll_events() checks if the user has pressed a key
\* or requested to quit the window".  A close request ends the program.
QuitHonoured == QuitPending ~> ~is_running

\* Every close request gets a hearing: the program ends, or one of the two
\* readers takes it off the queue.
QuitTaken == QuitPending ~> ~is_running \/ ~QuitPending

Polls == StrobeWrite \/ DmaWrite

\* The front end never lets a frame end with a close request unheard: the
\* only other consumer of the queue is the ROM's poll.
OnlyPollsEatQuit ==
    [][QuitPending /\ ~QuitPending' => ~is_running' \/ Polls]_inputVars
=============================================================================

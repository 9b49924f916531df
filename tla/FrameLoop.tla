----------------------------- MODULE FrameLoop -----------------------------
(***************************************************************************)
(* The scheduler of the emulator: emulator_run() gives the PPU three dots  *)
(* and the CPU one cycle, over and over, until the PPU reports a complete  *)
(* frame; then the front end runs and the next frame begins.  The module   *)
(* keeps everything the two chips tell each other about TIME: the dot and  *)
(* scanline counters, the vblank flag, the single pending-interrupt slot,  *)
(* the CPU's remaining cycles and the cycles an OAM DMA steals.  What the  *)
(* ROM computes is abstracted: at an instruction boundary it may execute   *)
(* any instruction of any legal length that touches at most one I/O        *)
(* register.                                                               *)
(***************************************************************************)
EXTENDS Integers

CONSTANTS
    DotsPerLine,    \* dots in a scanline: 341
    VblankLine,     \* scanline that raises the vblank flag: 241
    PreRenderLine,  \* last scanline of a frame: 261
    FrameRate,      \* NTSC_FRAME_RATE, the modulus of cur_frame: 60
    NmiCycles,      \* cycles handle_nes_interrupt() adds: 7
    DmaCycles,      \* cycles of an OAM DMA begun on an even cycle: 513
    MinInstr,       \* shortest instruction: 2
    MaxInstr,       \* longest instruction: 8
    Registers       \* I/O registers the ROM touches in this model

\* The registers whose access matters to the frame loop.
IORegisters == {"PPUCTRL", "PPUMASK", "PPUSTATUS", "OAMDMA"}

InstrCycles == MinInstr .. MaxInstr

\* Most CPU cycles between two instruction boundaries: an NMI, the longest
\* instruction, and the two DMAs of a read-modify-write of $4014.
MaxBusy == NmiCycles + MaxInstr + 2 * (DmaCycles + 1)

VblankStart == VblankLine * DotsPerLine
PreRenderStart == PreRenderLine * DotsPerLine
FrameDots == (PreRenderLine + 1) * DotsPerLine

ASSUME GeometryAssumption ==
    /\ DotsPerLine \in Nat /\ DotsPerLine >= 6
    /\ VblankLine \in Nat \ {0}
    /\ PreRenderLine \in Nat /\ VblankLine < PreRenderLine
    /\ FrameRate \in Nat \ {0}

ASSUME CpuAssumption ==
    /\ NmiCycles \in Nat
    /\ DmaCycles \in Nat
    /\ MinInstr \in Nat \ {0} /\ MaxInstr \in Nat /\ MinInstr <= MaxInstr
    /\ Registers \subseteq IORegisters

\* Vblank lasts longer than the longest stretch without an instruction
\* boundary: 20 * 341 = 6820 dots against 3 * (7 + 8 + 2 * 514) = 3129, and
\* one dot for an NMI posted by the first of the three PPU calls.
ASSUME VblankLongEnough == VblankStart + 3 * MaxBusy + 1 < PreRenderStart

-----------------------------------------------------------------------------

VARIABLES
    at,                 \* where emulator_run() is
    is_running,         \* Emulator
    cur_frame,
    cur_scanline,       \* PPU
    cur_dot,
    cycle_counter,
    frame_complete,
    vblank,             \*   status.vblank
    enable_nmi,         \*   ctrl.enable_nmi
    render_background,  \*   mask.render_background
    cycles,             \* CPU
    dma_cycles,
    total_cycles,       \*   modulo 2: only its parity is ever read
    pending_interrupt

loopVars == <<is_running, cur_frame>>
beamVars == <<cur_scanline, cur_dot, cycle_counter, frame_complete>>
regVars == <<vblank, enable_nmi, render_background>>
cpuVars == <<cycles, dma_cycles, total_cycles, pending_interrupt>>
vars == <<at, loopVars, beamVars, regVars, cpuVars>>

PpuSlots == {"ppu1", "ppu2", "ppu3"}
Over == {"returned", "exited"}

TypeOK ==
    /\ at \in PpuSlots \cup Over \cup {"cpu", "end"}
    /\ is_running \in BOOLEAN
    /\ cur_frame \in 0 .. FrameRate - 1
    /\ cur_scanline \in 0 .. PreRenderLine
    /\ cur_dot \in 0 .. DotsPerLine - 1
    /\ cycle_counter \in Nat
    /\ frame_complete \in 0 .. 1
    /\ vblank \in BOOLEAN /\ enable_nmi \in BOOLEAN
    /\ render_background \in BOOLEAN
    /\ cycles \in Nat
    /\ dma_cycles \in Nat
    /\ total_cycles \in 0 .. 1
    /\ pending_interrupt \in {"NONE", "NMI"}

\* emulator_init(): ppu_reset(), cpu_init(), then emulator_run() is entered.
Init ==
    /\ at = "ppu1"
    /\ is_running = TRUE
    /\ cur_frame = 0
    /\ cur_scanline = 0 /\ cur_dot = 0 /\ cycle_counter = 0
    /\ frame_complete = 0
    /\ vblank = FALSE /\ enable_nmi = FALSE /\ render_background = FALSE
    /\ cycles = 0 /\ dma_cycles = 0 /\ total_cycles = 0
    /\ pending_interrupt = "NONE"

-----------------------------------------------------------------------------
(***************************************************************************)
(* ppu_run_cycle().                                                        *)
(***************************************************************************)

\* Mutant: the test of the dot is dropped.
EntersVblankAnyDot == cur_scanline = VblankLine

EntersVblank == cur_scanline = VblankLine /\ cur_dot = 1

\* Mutant: the flag is to be cleared one line too far down.
LeavesVblankBelow == cur_scanline = PreRenderLine + 1 /\ cur_dot = 1

LeavesVblank == cur_scanline = PreRenderLine /\ cur_dot = 1

\* The vblank flag, and the NMI of the dot that raises it.
VblankEvents ==
    /\ vblank' = ((vblank \/ EntersVblank) /\ ~LeavesVblank)
    /\ pending_interrupt' = IF EntersVblank /\ enable_nmi
                            THEN "NMI" ELSE pending_interrupt

\* Mutants: a dot is skipped in even frames too, or on every line.
SkipsDotEvenFrames ==
    cur_scanline = PreRenderLine /\ cur_dot = DotsPerLine - 2 /\ render_background
SkipsDotEveryLine ==
    cur_dot = DotsPerLine - 2 /\ cur_frame % 2 = 1 /\ render_background

SkipsDot ==
    /\ cur_scanline = PreRenderLine
    /\ cur_dot = DotsPerLine - 2
    /\ cur_frame % 2 = 1
    /\ render_background

NextDot == cur_dot + (IF SkipsDot THEN 2 ELSE 1)

\* Mutant: the line ends one dot too late.
EndsLineLate == NextDot > DotsPerLine

EndsLine == NextDot >= DotsPerLine
EndsFrame == EndsLine /\ cur_scanline = PreRenderLine

\* The dot and scanline counters; a wrap of both completes the frame.
AdvanceBeam ==
    /\ cur_dot' = IF EndsLine THEN 0 ELSE NextDot
    /\ cur_scanline' = IF EndsFrame THEN 0
                       ELSE IF EndsLine THEN cur_scanline + 1 ELSE cur_scanline
    /\ cycle_counter' = IF EndsFrame THEN 0 ELSE cycle_counter + 1
    /\ frame_complete' = IF EndsFrame THEN 1 ELSE frame_complete

NextSlot == [ppu1 |-> "ppu2", ppu2 |-> "ppu3", ppu3 |-> "cpu"]

ppu_run_cycle ==
    /\ at \in PpuSlots
    /\ at' = NextSlot[at]
    /\ VblankEvents
    /\ AdvanceBeam
    /\ UNCHANGED <<loopVars, enable_nmi, render_background>>
    /\ UNCHANGED <<cycles, dma_cycles, total_cycles>>

-----------------------------------------------------------------------------
(***************************************************************************)
(* cpu_run_cycle().                                                        *)
(***************************************************************************)

\* Mutant: the loop condition asks for a second frame.
AfterCpuTwoFrames == at' = IF frame_complete = 2 THEN "end" ELSE "ppu1"

\* The do-while condition of emulator_run(), read after every CPU cycle.
AfterCpu == at' = IF frame_complete = 1 THEN "end" ELSE "ppu1"

\* An OAM DMA holds the CPU.
DmaWait ==
    /\ at = "cpu" /\ dma_cycles > 0
    /\ dma_cycles' = dma_cycles - 1
    /\ AfterCpu
    /\ UNCHANGED <<loopVars, beamVars, regVars>>
    /\ UNCHANGED <<cycles, total_cycles, pending_interrupt>>

\* The instruction executed in an earlier cycle is still being paid for.
InstructionWait ==
    /\ at = "cpu" /\ dma_cycles = 0 /\ cycles > 0
    /\ cycles' = cycles - 1
    /\ AfterCpu
    /\ UNCHANGED <<loopVars, beamVars, regVars>>
    /\ UNCHANGED <<dma_cycles, total_cycles, pending_interrupt>>

AtInstruction == at = "cpu" /\ dma_cycles = 0 /\ cycles = 0

InterruptCycles == IF pending_interrupt = "NMI" THEN NmiCycles ELSE 0

\* Mutant: the interrupt is taken but stays pending.
ExecuteKeepsNmi(c) ==
    /\ AtInstruction
    /\ cycles' = InterruptCycles + c - 1
    /\ total_cycles' = (total_cycles + InterruptCycles + c) % 2
    /\ AfterCpu
    /\ UNCHANGED <<loopVars, beamVars, pending_interrupt>>

\* Mutant: the cycle that executes the instruction is not counted against it.
ExecuteNotCharged(c) ==
    /\ AtInstruction
    /\ pending_interrupt' = "NONE"
    /\ cycles' = InterruptCycles + c
    /\ total_cycles' = (total_cycles + InterruptCycles + c) % 2
    /\ AfterCpu
    /\ UNCHANGED <<loopVars, beamVars>>

\* What every instruction of c cycles does: take the pending interrupt first
\* (handle_nes_interrupt), then fetch, execute and account the cycles.
Execute(c) ==
    /\ AtInstruction
    /\ pending_interrupt' = "NONE"
    /\ cycles' = InterruptCycles + c - 1
    /\ total_cycles' = (total_cycles + InterruptCycles + c) % 2
    /\ AfterCpu
    /\ UNCHANGED <<loopVars, beamVars>>

\* An instruction that touches none of the four registers.
ExecutePlain ==
    \E c \in InstrCycles :
        /\ Execute(c)
        /\ UNCHANGED <<regVars, dma_cycles>>

\* A write to $2000 (ppu_set_ctrl).
ExecuteCtrlWrite ==
    /\ "PPUCTRL" \in Registers
    /\ \E c \in InstrCycles, on \in BOOLEAN :
        /\ Execute(c)
        /\ enable_nmi' = on
        /\ UNCHANGED <<vblank, render_background, dma_cycles>>

\* A write to $2001.
ExecuteMaskWrite ==
    /\ "PPUMASK" \in Registers
    /\ \E c \in InstrCycles, on \in BOOLEAN :
        /\ Execute(c)
        /\ render_background' = on
        /\ UNCHANGED <<vblank, enable_nmi, dma_cycles>>

\* A read of $2002 (ppu_read_status) clears the flag it returns.
ExecuteStatusRead ==
    /\ "PPUSTATUS" \in Registers
    /\ \E c \in InstrCycles :
        /\ Execute(c)
        /\ vblank' = FALSE
        /\ UNCHANGED <<enable_nmi, render_background, dma_cycles>>

\* One write to $4014, or the two of a read-modify-write instruction; both
\* see the total_cycles of before the instruction.
ExecuteDma ==
    /\ "OAMDMA" \in Registers
    /\ \E c \in InstrCycles, writes \in 1 .. 2 :
        /\ Execute(c)
        /\ dma_cycles' = dma_cycles + writes * (DmaCycles + total_cycles)
        /\ UNCHANGED regVars

\* JAM and other unimplemented opcodes, a write to ROM, a DMA from a page
\* outside RAM: the process calls exit().
ExecuteExit ==
    /\ AtInstruction
    /\ at' = "exited"
    /\ UNCHANGED <<loopVars, beamVars, regVars, cpuVars>>

cpu_run_cycle ==
    \/ DmaWait \/ InstructionWait
    \/ ExecutePlain \/ ExecuteCtrlWrite \/ ExecuteMaskWrite
    \/ ExecuteStatusRead \/ ExecuteDma \/ ExecuteExit

-----------------------------------------------------------------------------

\* The rest of the outer loop's body: handle_sdl() may have seen the window
\* close, synchronize_frames() numbers the next frame.
FinishFrame ==
    /\ at = "end"
    /\ frame_complete' = 0
    /\ total_cycles' = 0
    /\ is_running' \in BOOLEAN
    /\ cur_frame' = (cur_frame + 1) % FrameRate
    /\ at' = IF is_running' THEN "ppu1" ELSE "returned"
    /\ UNCHANGED <<cur_scanline, cur_dot, cycle_counter, regVars>>
    /\ UNCHANGED <<cycles, dma_cycles, pending_interrupt>>

\* The program is over and stays so.
Terminated == at \in Over /\ UNCHANGED vars

Next == ppu_run_cycle \/ cpu_run_cycle \/ FinishFrame \/ Terminated

\* emulator_run() is one thread that never waits for anything.
Spec == Init /\ [][Next]_vars /\ WF_vars(Next)

-----------------------------------------------------------------------------
(***************************************************************************)
(* Properties.                                                             *)
(***************************************************************************)

\* CPU cycles until the next instruction boundary.
Busy == cycles + dma_cycles

\* Cycles owed never accumulate beyond one interrupt, one instruction and the
\* DMAs that instruction starts: cpu_run_cycle() adds to cycles and dma_cycles
\* without resetting them, and the size_t decrements never pass zero.
BusyBounded == Busy < MaxBusy

\* The debug counter cycle_counter is the beam's linear position: skipped
\* dots, line wraps and the reset at the end of a frame keep the three
\* counters of ppu_run_cycle() in step.
PositionInv == cycle_counter = cur_scanline * DotsPerLine + cur_dot

\* One iteration of the outer loop of emulator_run() runs the PPU through
\* exactly one frame: the loop condition is seen within two dots of the wrap,
\* so an iteration starts with the beam at one of the first three dots.
FrameAligned ==
    /\ frame_complete = 1 => at # "ppu1" /\ cycle_counter <= 2
    /\ at = "end" => frame_complete = 1
    /\ at = "ppu1" /\ cycle_counter <= 2 =>
          ~vblank /\ pending_interrupt = "NONE"

\* An NMI the PPU posts at dot 1 of line 241 is taken by the CPU before the
\* pre-render line starts, whatever instruction or DMA is under way.
NmiTakenInVblank ==
    pending_interrupt = "NMI" =>
        /\ VblankStart + 1 < cycle_counter
        /\ cycle_counter < PreRenderStart

\* cpu_set_interrupt() overwrites the one pending slot; it never overwrites
\* an interrupt the CPU has not taken yet.
NmiNotLost ==
    [][EntersVblank /\ enable_nmi /\ ppu_run_cycle
          => pending_interrupt = "NONE"]_vars

\* A frame has 89342 dots, or one less, and is short only if its number is odd
\* and the background is on; the number and the mask are written by other
\* parts of the program while the frame runs.
FrameLength ==
    [][frame_complete < frame_complete' =>
          LET length == cycle_counter + 1
          IN  /\ length \in {FrameDots - 1, FrameDots}
              /\ length = FrameDots - 1 => cur_frame % 2 = 1 /\ render_background
      ]_vars

\* The interrupt is taken: every DMA and every instruction ends.
NmiTaken == pending_interrupt = "NMI" ~> pending_interrupt = "NONE" \/ at \in Over

\* Frames keep being presented until the program is over.
FramesRecur == []<>(at = "end" \/ at \in Over)

\* Refinement: the stage of the frame is read off the beam, and a completed
\* frame is "present" until FinishFrame consumes frame_complete.
BeforeVblank ==
    \/ cur_scanline < VblankLine
    \/ cur_scanline = VblankLine /\ cur_dot <= 1
AfterVblank == cur_scanline = PreRenderLine /\ cur_dot > 1

Stage ==
    IF frame_complete = 1 THEN "present"
    ELSE IF BeforeVblank THEN "render"
    ELSE IF AfterVblank THEN "prerender"
    ELSE "vblank"

Protocol == INSTANCE VblankProtocol WITH
    stage <- Stage, nmi <- pending_interrupt = "NMI",
    flag <- vblank, frame <- cur_frame

\* The frame loop keeps the promises of VblankProtocol.
ImplementsProtocol == Protocol!Promised

\* tests/vbl/readme.txt, 7.nmi_timing: "8) NMI should occur if enabled when
\* VBL already set".  ppu_set_ctrl() posts no interrupt.
NmiOnLateEnable ==
    [][vblank /\ ~enable_nmi /\ vblank' /\ enable_nmi'
          => pending_interrupt' = "NMI"]_vars
=============================================================================

--------------------------- MODULE FrameLoopProofs ---------------------------
(***************************************************************************)
(* Proofs about FrameLoop, for every frame geometry and every cycle count  *)
(* that satisfies its assumptions.  The argument: cycle_counter is the     *)
(* linear position of the beam (PositionInv); while an NMI is pending, the *)
(* dots the beam has passed since line 241 and the cycles the CPU still    *)
(* owes trade three for one, so their weighted sum (NmiDeadline) does not  *)
(* grow; it starts below the end of vblank because Busy is bounded.        *)
(***************************************************************************)
EXTENDS FrameLoop, TLAPS

\* Dots the PPU has run in the current round of emulator_run()'s inner loop.
Offset == CASE at = "ppu1" -> 0
            [] at = "ppu2" -> 1
            [] at = "ppu3" -> 2
            [] OTHER -> 3

\* A completed frame is noticed before the beam has moved three dots.
Noticed ==
    /\ frame_complete = 1 => at # "ppu1"
    /\ frame_complete = 1 /\ at = "ppu2" => cycle_counter = 0
    /\ frame_complete = 1 /\ at = "ppu3" => cycle_counter <= 1
    /\ frame_complete = 1 => cycle_counter <= 2
    /\ at = "end" => frame_complete = 1

NmiDeadline ==
    pending_interrupt = "NMI" =>
        /\ VblankStart + 1 < cycle_counter
        /\ cycle_counter + 3 * Busy <= VblankStart + 3 * MaxBusy - 2 + Offset

VblankWindow == vblank => ~BeforeVblank /\ ~AfterVblank

IInv ==
    /\ TypeOK
    /\ BusyBounded
    /\ PositionInv
    /\ Noticed
    /\ NmiDeadline
    /\ VblankWindow

-----------------------------------------------------------------------------

\* Products of a scanline number and the line length, as the counters of
\* ppu_run_cycle() meet them: one line further, and order.
LEMMA LineArithmetic ==
    ASSUME NEW s \in Nat
    PROVE  /\ s * DotsPerLine \in Nat
           /\ (s + 1) * DotsPerLine = s * DotsPerLine + DotsPerLine
           /\ 0 * DotsPerLine = 0
BY GeometryAssumption

\* Lines further down start later.
LEMMA LineOrder ==
    ASSUME NEW s \in Nat, NEW t \in Nat, s <= t
    PROVE  s * DotsPerLine <= t * DotsPerLine
BY GeometryAssumption

\* The positions vblank and the pre-render line start at, and MaxBusy.
LEMMA BoundsAreNaturals ==
    /\ VblankStart \in Nat /\ VblankStart >= DotsPerLine
    /\ PreRenderStart \in Nat /\ FrameDots = PreRenderStart + DotsPerLine
    /\ MaxBusy \in Nat \ {0}
<1>1. VblankStart \in Nat /\ VblankStart >= DotsPerLine
  BY GeometryAssumption, LineArithmetic, 1 * DotsPerLine = DotsPerLine, LineOrder DEF VblankStart
<1>2. PreRenderStart \in Nat /\ FrameDots = PreRenderStart + DotsPerLine
  BY GeometryAssumption, LineArithmetic DEF PreRenderStart, FrameDots
<1>3. MaxBusy \in Nat \ {0}
  BY CpuAssumption DEF MaxBusy
<1> QED
  BY <1>1, <1>2, <1>3

\* emulator_init() establishes the invariant.
LEMMA InitEstablishes == Init => IInv
<1> SUFFICES ASSUME Init PROVE IInv
  OBVIOUS
<1>1. TypeOK
  <2>1. /\ at \in PpuSlots \cup Over \cup {"cpu", "end"}
        /\ is_running \in BOOLEAN
        /\ vblank \in BOOLEAN /\ enable_nmi \in BOOLEAN
        /\ render_background \in BOOLEAN
        /\ pending_interrupt \in {"NONE", "NMI"}
    BY Zenon DEF Init, PpuSlots, Over
  <2>2. /\ cur_frame \in 0 .. FrameRate - 1
        /\ cur_scanline \in 0 .. PreRenderLine
        /\ cur_dot \in 0 .. DotsPerLine - 1
        /\ cycle_counter \in Nat
        /\ frame_complete \in 0 .. 1
        /\ cycles \in Nat /\ dma_cycles \in Nat
        /\ total_cycles \in 0 .. 1
    BY GeometryAssumption DEF Init
  <2> QED
    BY <2>1, <2>2 DEF TypeOK
<1>2. BusyBounded
  BY BoundsAreNaturals DEF Init, BusyBounded, Busy
<1>3. PositionInv
  BY 0 \in Nat, LineArithmetic DEF Init, PositionInv
<1>4. Noticed
  BY DEF Init, Noticed
<1>5. NmiDeadline
  BY DEF Init, NmiDeadline
<1>6. VblankWindow
  BY DEF Init, VblankWindow
<1> QED
  BY <1>1, <1>2, <1>3, <1>4, <1>5, <1>6 DEF IInv

\* The slot after each of the three PPU calls, and its Offset.
LEMMA SlotAdvance ==
    ASSUME at \in PpuSlots, at' = NextSlot[at]
    PROVE  \/ at = "ppu1" /\ at' = "ppu2" /\ Offset = 0 /\ Offset' = 1
           \/ at = "ppu2" /\ at' = "ppu3" /\ Offset = 1 /\ Offset' = 2
           \/ at = "ppu3" /\ at' = "cpu" /\ Offset = 2 /\ Offset' = 3
<1>1. CASE at = "ppu1"
  <2>1. at' = "ppu2" BY <1>1 DEF NextSlot
  <2> QED BY <1>1, <2>1 DEF Offset
<1>2. CASE at = "ppu2"
  <2>1. at' = "ppu3" BY <1>2 DEF NextSlot
  <2> QED BY <1>2, <2>1 DEF Offset
<1>3. CASE at = "ppu3"
  <2>1. at' = "cpu" BY <1>3 DEF NextSlot
  <2> QED BY <1>3, <2>1 DEF Offset
<1> QED
  BY <1>1, <1>2, <1>3 DEF PpuSlots

\* The arithmetic facts about the beam that the steps of the PPU rest on.
LEMMA BeamFacts ==
    ASSUME TypeOK, PositionInv
    PROVE  /\ cur_scanline \in Nat /\ cur_scanline <= PreRenderLine
           /\ cur_dot \in Nat /\ cur_dot < DotsPerLine
           /\ cycle_counter = cur_scanline * DotsPerLine + cur_dot
           /\ cur_scanline * DotsPerLine \in Nat
           /\ cur_scanline = PreRenderLine => cycle_counter = PreRenderStart + cur_dot
           /\ EntersVblank => cycle_counter = VblankStart + 1
           /\ SkipsDot => EndsFrame
           /\ EndsLine /\ ~EndsFrame => cur_dot = DotsPerLine - 1
<1>1. /\ cur_scanline \in Nat /\ cur_scanline <= PreRenderLine
      /\ cur_dot \in Nat /\ cur_dot < DotsPerLine
  BY GeometryAssumption DEF TypeOK
<1>2. cycle_counter = cur_scanline * DotsPerLine + cur_dot
  BY DEF PositionInv
<1>3. cur_scanline * DotsPerLine \in Nat
  BY <1>1, LineArithmetic
<1>4. cur_scanline = PreRenderLine => cycle_counter = PreRenderStart + cur_dot
  BY <1>2 DEF PreRenderStart
<1>5. EntersVblank => cycle_counter = VblankStart + 1
  BY <1>2 DEF EntersVblank, VblankStart
<1>6. SkipsDot => EndsFrame
  BY <1>1, GeometryAssumption DEF SkipsDot, EndsFrame, EndsLine, NextDot
<1>7. EndsLine /\ ~EndsFrame => cur_dot = DotsPerLine - 1
  BY <1>1, <1>6, GeometryAssumption DEF EndsLine, NextDot
<1> QED
  BY <1>1, <1>2, <1>3, <1>4, <1>5, <1>6, <1>7

\* While an NMI is pending the beam is inside vblank.
LEMMA DeadlineMeansVblank ==
    ASSUME IInv
    PROVE  NmiTakenInVblank
<1>1. Offset \in 0 .. 3
  BY DEF Offset
<1>2. Busy \in Nat /\ cycle_counter \in Nat
  BY DEF IInv, TypeOK, Busy
<1> QED
  BY <1>1, <1>2, BoundsAreNaturals, VblankLongEnough
     DEF IInv, NmiDeadline, NmiTakenInVblank

\* Every dot keeps it: the beam moves on, and an NMI is posted with its whole
\* deadline ahead.
LEMMA PpuKeeps == IInv /\ ppu_run_cycle => IInv'
<1> SUFFICES ASSUME IInv, ppu_run_cycle PROVE IInv'
  OBVIOUS
<1>t. TypeOK /\ PositionInv
  BY DEF IInv
<1>n. NmiTakenInVblank
  BY DeadlineMeansVblank
<1>s. \/ at = "ppu1" /\ at' = "ppu2" /\ Offset = 0 /\ Offset' = 1
      \/ at = "ppu2" /\ at' = "ppu3" /\ Offset = 1 /\ Offset' = 2
      \/ at = "ppu3" /\ at' = "cpu" /\ Offset = 2 /\ Offset' = 3
  BY SlotAdvance DEF ppu_run_cycle
<1>b. /\ cur_scanline \in Nat /\ cur_scanline <= PreRenderLine
      /\ cur_dot \in Nat /\ cur_dot < DotsPerLine
      /\ cycle_counter = cur_scanline * DotsPerLine + cur_dot
      /\ cur_scanline * DotsPerLine \in Nat
      /\ cur_scanline = PreRenderLine => cycle_counter = PreRenderStart + cur_dot
      /\ EntersVblank => cycle_counter = VblankStart + 1
      /\ SkipsDot => EndsFrame
      /\ EndsLine /\ ~EndsFrame => cur_dot = DotsPerLine - 1
  BY <1>t, BeamFacts
<1>a. AdvanceBeam
  BY DEF ppu_run_cycle
<1>1. TypeOK'
  <2>1. /\ cur_dot' \in 0 .. DotsPerLine - 1
        /\ cur_scanline' \in 0 .. PreRenderLine
        /\ cycle_counter' \in Nat
        /\ frame_complete' \in 0 .. 1
    BY <1>a, <1>b, <1>t, GeometryAssumption
       DEF AdvanceBeam, EndsFrame, EndsLine, NextDot, TypeOK
  <2>2. vblank' \in BOOLEAN /\ pending_interrupt' \in {"NONE", "NMI"}
    BY <1>t DEF ppu_run_cycle, VblankEvents, TypeOK
  <2>3. at' \in PpuSlots \cup Over \cup {"cpu", "end"}
    BY <1>s DEF PpuSlots
  <2> QED
    BY <1>t, <2>1, <2>2, <2>3 DEF ppu_run_cycle, loopVars, TypeOK
<1>2. BusyBounded'
  BY DEF IInv, ppu_run_cycle, BusyBounded, Busy
<1>3. PositionInv'
  <2>1. CASE EndsFrame
    <3>1. cycle_counter' = 0 /\ cur_scanline' = 0 /\ cur_dot' = 0
      BY <2>1, <1>a DEF AdvanceBeam, EndsFrame
    <3> QED
      BY <3>1, 0 \in Nat, LineArithmetic DEF PositionInv
  <2>2. CASE EndsLine /\ ~EndsFrame
    <3>1. /\ cycle_counter' = cycle_counter + 1
          /\ cur_scanline' = cur_scanline + 1 /\ cur_dot' = 0
      BY <2>2, <1>a DEF AdvanceBeam
    <3>2. (cur_scanline + 1) * DotsPerLine = cur_scanline * DotsPerLine + DotsPerLine
      BY <1>b, LineArithmetic
    <3>3. (cur_scanline + 1) * DotsPerLine = cycle_counter + 1
      BY <3>2, <2>2, <1>b, GeometryAssumption
    <3>4. cur_scanline' * DotsPerLine = cycle_counter + 1
      BY <3>3, <3>1
    <3> QED
      BY <3>4, <3>1, <1>b DEF PositionInv
  <2>3. CASE ~EndsLine
    <3>1. /\ cycle_counter' = cycle_counter + 1
          /\ cur_scanline' = cur_scanline /\ cur_dot' = cur_dot + 1
      BY <2>3, <1>a, <1>b DEF AdvanceBeam, EndsFrame, NextDot
    <3>2. cur_scanline' * DotsPerLine = cur_scanline * DotsPerLine
      BY <3>1
    <3> QED
      BY <3>1, <3>2, <1>b DEF PositionInv
  <2> QED
    BY <2>1, <2>2, <2>3 DEF EndsFrame
<1>4. Noticed'
  <2>1. \/ cycle_counter' = 0 /\ frame_complete' = 1
        \/ cycle_counter' = cycle_counter + 1 /\ frame_complete' = frame_complete
    BY <1>a DEF AdvanceBeam
  <2>2. cycle_counter \in Nat
    BY <1>t DEF TypeOK
  <2> QED
    BY <1>s, <2>1, <2>2 DEF IInv, Noticed
<1>5. NmiDeadline'
  <2> SUFFICES ASSUME pending_interrupt' = "NMI"
               PROVE  /\ VblankStart + 1 < cycle_counter'
                      /\ cycle_counter' + 3 * Busy'
                            <= VblankStart + 3 * MaxBusy - 2 + Offset'
    BY DEF NmiDeadline
  <2>1. Busy' = Busy /\ Busy \in Nat /\ Busy < MaxBusy
    BY <1>t DEF ppu_run_cycle, Busy, TypeOK, IInv, BusyBounded
  <2>2. CASE EntersVblank /\ enable_nmi
    <3>1. ~EndsFrame
      BY <2>2, GeometryAssumption DEF EntersVblank, EndsFrame
    <3>2. cycle_counter' = VblankStart + 2
      BY <2>2, <3>1, <1>a, <1>b, BoundsAreNaturals DEF AdvanceBeam
    <3> QED
      BY <3>2, <2>1, <1>s, BoundsAreNaturals
  <2>3. CASE ~(EntersVblank /\ enable_nmi)
    <3>1. pending_interrupt = "NMI"
      BY <2>3 DEF ppu_run_cycle, VblankEvents
    <3>2. cur_scanline # PreRenderLine
      BY <3>1, <1>n, <1>b, BoundsAreNaturals DEF NmiTakenInVblank
    <3>3. cycle_counter' = cycle_counter + 1
      BY <3>2, <1>a DEF AdvanceBeam, EndsFrame
    <3>4. cycle_counter \in Nat
      BY <1>t DEF TypeOK
    <3> QED
      BY <3>1, <3>3, <3>4, <2>1, <1>s, BoundsAreNaturals DEF IInv, NmiDeadline
  <2> QED
    BY <2>2, <2>3
<1>6. VblankWindow'
  <2> SUFFICES ASSUME vblank' PROVE ~BeforeVblank' /\ ~AfterVblank'
    BY DEF VblankWindow
  <2>1. (vblank \/ EntersVblank) /\ ~LeavesVblank
    BY DEF ppu_run_cycle, VblankEvents
  <2>2. EntersVblank \/ (~BeforeVblank /\ ~AfterVblank)
    BY <2>1 DEF IInv, VblankWindow
  <2>3. cur_scanline = PreRenderLine => cur_dot = 0
    BY <2>1, <2>2, <1>b, GeometryAssumption DEF EntersVblank, LeavesVblank, AfterVblank
  <2>4. ~EndsFrame
    BY <2>3, <1>b, GeometryAssumption DEF EndsFrame, EndsLine, NextDot
  <2>5. \/ cur_scanline' = cur_scanline /\ cur_dot' = cur_dot + 1
        \/ cur_scanline' = cur_scanline + 1 /\ cur_dot' = 0
    BY <2>4, <1>a, <1>b DEF AdvanceBeam, NextDot
  <2> QED
    BY <2>2, <2>3, <2>5, <1>b, GeometryAssumption
       DEF EntersVblank, BeforeVblank, AfterVblank
<1> QED
  BY <1>1, <1>2, <1>3, <1>4, <1>5, <1>6 DEF IInv

-----------------------------------------------------------------------------

\* Two bounds add up.
LEMMA SumBelow ==
    ASSUME NEW p \in Nat, NEW q \in Nat, NEW r \in Nat, NEW s \in Nat, p < r, q <= s
    PROVE  p + q < r + s
OBVIOUS

\* Paying one cycle makes up for the three dots of a round.
LEMMA RoundPays ==
    ASSUME NEW c \in Nat, NEW b \in Nat, NEW v \in Nat, NEW m \in Nat,
           NEW o \in {0, 3}, c + 3 * b <= v + 3 * m - 2 + 3
    PROVE  c + 3 * (b - 1) <= v + 3 * m - 2 + o
OBVIOUS

\* After a CPU cycle control is back at the first PPU call or, if a frame is
\* complete, at the end of the iteration.
LEMMA CpuReturns ==
    ASSUME IInv, at = "cpu", AfterCpu, UNCHANGED beamVars
    PROVE  /\ at' \in {"ppu1", "end"} /\ Noticed'
           /\ Offset = 3 /\ Offset' \in {0, 3}
           /\ at' = "end" => frame_complete = 1 /\ cycle_counter <= 2
<1>1. at' = IF frame_complete = 1 THEN "end" ELSE "ppu1"
  BY DEF AfterCpu
<1>2. frame_complete' = frame_complete /\ cycle_counter' = cycle_counter
  BY DEF beamVars
<1>3. Noticed'
  BY <1>1, <1>2 DEF IInv, Noticed
<1>4. Offset = 3 /\ Offset' \in {0, 3}
  BY <1>1 DEF Offset
<1> QED
  BY <1>1, <1>3, <1>4 DEF IInv, Noticed

\* A CPU cycle that only waits pays off one of the cycles owed.
LEMMA WaitKeeps ==
    ASSUME IInv, DmaWait \/ InstructionWait
    PROVE  IInv'
<1>t. TypeOK
  BY DEF IInv
<1>u. /\ at = "cpu" /\ AfterCpu
      /\ UNCHANGED <<loopVars, beamVars, regVars, total_cycles, pending_interrupt>>
      /\ cycles' \in Nat /\ dma_cycles' \in Nat
      /\ Busy \in Nat /\ Busy' = Busy - 1
  BY <1>t DEF DmaWait, InstructionWait, Busy, TypeOK
<1>r. /\ at' \in {"ppu1", "end"} /\ Noticed'
      /\ Offset = 3 /\ Offset' \in {0, 3}
      /\ at' = "end" => frame_complete = 1 /\ cycle_counter <= 2
  BY <1>u, CpuReturns
<1>1. TypeOK'
  BY <1>t, <1>u, <1>r DEF TypeOK, PpuSlots, loopVars, beamVars, regVars
<1>2. BusyBounded'
  BY <1>u, BoundsAreNaturals DEF IInv, BusyBounded
<1>3. PositionInv'
  BY <1>u DEF IInv, PositionInv, beamVars
<1>4. NmiDeadline'
  <2>1. /\ cycle_counter' = cycle_counter /\ cycle_counter \in Nat
        /\ pending_interrupt' = pending_interrupt
    BY <1>u, <1>t DEF beamVars, TypeOK
  <2>2. cycle_counter + 3 * Busy <= VblankStart + 3 * MaxBusy - 2 + 3
        => cycle_counter + 3 * (Busy - 1) <= VblankStart + 3 * MaxBusy - 2 + Offset'
    BY <1>u, <1>r, <2>1, BoundsAreNaturals, RoundPays
  <2> QED
    BY <1>u, <1>r, <2>1, <2>2 DEF IInv, NmiDeadline
<1>5. VblankWindow'
  BY <1>u DEF IInv, VblankWindow, BeforeVblank, AfterVblank, beamVars, regVars
<1> QED
  BY <1>1, <1>2, <1>3, <1>4, <1>5, <1>r DEF IInv

\* An instruction takes the pending interrupt, so the deadline is void, and
\* it owes less than MaxBusy cycles afterwards.
LEMMA ExecuteKeeps ==
    ASSUME IInv, NEW c \in InstrCycles, Execute(c),
           enable_nmi' \in BOOLEAN, render_background' \in BOOLEAN,
           vblank' \in BOOLEAN, vblank' => vblank,
           dma_cycles' \in 0 .. 2 * (DmaCycles + 1)
    PROVE  IInv'
<1>t. TypeOK
  BY DEF IInv
<1>u. /\ at = "cpu" /\ AfterCpu /\ UNCHANGED <<loopVars, beamVars>>
      /\ pending_interrupt' = "NONE"
  BY DEF Execute, AtInstruction
<1>r. at' \in {"ppu1", "end"} /\ Noticed'
  BY <1>u, CpuReturns
<1>c. /\ cycles' \in Nat /\ cycles' < NmiCycles + MaxInstr
      /\ total_cycles' \in 0 .. 1
  BY <1>t, CpuAssumption DEF Execute, InterruptCycles, InstrCycles, TypeOK
<1>d. dma_cycles' \in Nat /\ dma_cycles' <= 2 * (DmaCycles + 1)
  BY CpuAssumption
<1>1. TypeOK'
  <2>1. pending_interrupt' \in {"NONE", "NMI"}
    BY <1>u
  <2> QED
    BY <1>t, <1>u, <1>r, <1>c, <1>d, <2>1 DEF TypeOK, PpuSlots, loopVars, beamVars
<1>2. BusyBounded'
  <2>1. cycles' + dma_cycles' < NmiCycles + MaxInstr + 2 * (DmaCycles + 1)
    <3>1. NmiCycles + MaxInstr \in Nat /\ 2 * (DmaCycles + 1) \in Nat
      BY CpuAssumption
    <3> QED
      BY <3>1, <1>c, <1>d, SumBelow
  <2> QED
    BY <2>1 DEF BusyBounded, Busy, MaxBusy
<1>3. PositionInv'
  BY <1>u DEF IInv, PositionInv, beamVars
<1>4. NmiDeadline'
  BY <1>u DEF NmiDeadline
<1>5. VblankWindow'
  BY <1>u DEF IInv, VblankWindow, BeforeVblank, AfterVblank, beamVars
<1> QED
  BY <1>1, <1>2, <1>3, <1>4, <1>5, <1>r DEF IInv

\* Every CPU cycle keeps it: three dots are paid for by one owed cycle, or the
\* NMI is taken.
LEMMA CpuKeeps == IInv /\ cpu_run_cycle => IInv'
<1> SUFFICES ASSUME IInv, cpu_run_cycle PROVE IInv'
  OBVIOUS
<1>t. TypeOK
  BY DEF IInv
<1>z. 0 \in 0 .. 2 * (DmaCycles + 1)
  BY CpuAssumption
<1>1. CASE DmaWait \/ InstructionWait
  BY <1>1, WaitKeeps
<1>2. CASE ExecutePlain
  <2>1. PICK c \in InstrCycles : Execute(c) /\ UNCHANGED <<regVars, dma_cycles>>
    BY <1>2 DEF ExecutePlain
  <2>2. dma_cycles' \in 0 .. 2 * (DmaCycles + 1)
    BY <2>1, <1>z DEF Execute, AtInstruction
  <2> QED
    BY <2>1, <2>2, <1>t, ExecuteKeeps DEF TypeOK, regVars
<1>3. CASE ExecuteCtrlWrite
  <2>1. PICK c \in InstrCycles, on \in BOOLEAN :
            /\ Execute(c) /\ enable_nmi' = on
            /\ UNCHANGED <<vblank, render_background, dma_cycles>>
    BY <1>3 DEF ExecuteCtrlWrite
  <2>2. dma_cycles' \in 0 .. 2 * (DmaCycles + 1)
    BY <2>1, <1>z DEF Execute, AtInstruction
  <2> QED
    BY <2>1, <2>2, <1>t, ExecuteKeeps DEF TypeOK
<1>4. CASE ExecuteMaskWrite
  <2>1. PICK c \in InstrCycles, on \in BOOLEAN :
            /\ Execute(c) /\ render_background' = on
            /\ UNCHANGED <<vblank, enable_nmi, dma_cycles>>
    BY <1>4 DEF ExecuteMaskWrite
  <2>2. dma_cycles' \in 0 .. 2 * (DmaCycles + 1)
    BY <2>1, <1>z DEF Execute, AtInstruction
  <2> QED
    BY <2>1, <2>2, <1>t, ExecuteKeeps DEF TypeOK
<1>5. CASE ExecuteStatusRead
  <2>1. PICK c \in InstrCycles :
            /\ Execute(c) /\ vblank' = FALSE
            /\ UNCHANGED <<enable_nmi, render_background, dma_cycles>>
    BY <1>5 DEF ExecuteStatusRead
  <2>2. dma_cycles' \in 0 .. 2 * (DmaCycles + 1)
    BY <2>1, <1>z DEF Execute, AtInstruction
  <2>3. vblank' \in BOOLEAN /\ (vblank' => vblank)
    BY <2>1
  <2> QED
    BY <2>1, <2>2, <2>3, <1>t, ExecuteKeeps DEF TypeOK
<1>6. CASE ExecuteDma
  <2>1. PICK c \in InstrCycles, writes \in 1 .. 2 :
            /\ Execute(c)
            /\ dma_cycles' = dma_cycles + writes * (DmaCycles + total_cycles)
            /\ UNCHANGED regVars
    BY <1>6 DEF ExecuteDma
  <2>2. writes = 1 \/ writes = 2
    BY <2>1
  <2>3. dma_cycles = 0 /\ total_cycles \in 0 .. 1
    BY <2>1, <1>t DEF Execute, AtInstruction, TypeOK
  <2>4. dma_cycles' \in 0 .. 2 * (DmaCycles + 1)
    BY <2>1, <2>2, <2>3, CpuAssumption
  <2> QED
    BY <2>1, <2>4, <1>t, ExecuteKeeps DEF TypeOK, regVars
<1>7. CASE ExecuteExit
  <2>1. at = "cpu" /\ at' = "exited" /\ Offset = 3 /\ Offset' = 3
    BY <1>7 DEF ExecuteExit, AtInstruction, Offset
  <2>2. UNCHANGED <<loopVars, beamVars, regVars, cpuVars>>
    BY <1>7 DEF ExecuteExit
  <2> QED
    BY <2>1, <2>2 DEF IInv, TypeOK, Over, BusyBounded, Busy, PositionInv, Noticed,
       NmiDeadline, VblankWindow, BeforeVblank, AfterVblank,
       loopVars, beamVars, regVars, cpuVars
<1> QED
  BY <1>1, <1>2, <1>3, <1>4, <1>5, <1>6, <1>7 DEF cpu_run_cycle

\* So does the end of an iteration.
LEMMA FinishKeeps == IInv /\ FinishFrame => IInv'
<1> SUFFICES ASSUME IInv, FinishFrame PROVE IInv'
  OBVIOUS
<1>t. TypeOK
  BY DEF IInv
<1>n. pending_interrupt # "NMI"
  <2>1. frame_complete = 1 /\ cycle_counter <= 2
    BY DEF IInv, Noticed, FinishFrame
  <2> QED
    BY <2>1, DeadlineMeansVblank, <1>t, BoundsAreNaturals, GeometryAssumption
       DEF NmiTakenInVblank, TypeOK
<1>1. TypeOK'
  <2>1. at' \in PpuSlots \cup Over \cup {"cpu", "end"}
    BY DEF FinishFrame, PpuSlots, Over
  <2>2. cur_frame' \in 0 .. FrameRate - 1
    BY <1>t, GeometryAssumption DEF FinishFrame, TypeOK
  <2> QED
    BY <1>t, <2>1, <2>2 DEF FinishFrame, TypeOK, regVars
<1>2. BusyBounded' /\ PositionInv' /\ VblankWindow'
  BY DEF FinishFrame, IInv, BusyBounded, Busy, PositionInv, VblankWindow,
     BeforeVblank, AfterVblank, regVars
<1>3. Noticed'
  BY DEF FinishFrame, Noticed
<1>4. NmiDeadline'
  BY <1>n DEF FinishFrame, NmiDeadline
<1> QED
  BY <1>1, <1>2, <1>3, <1>4 DEF IInv

\* So does a step that changes nothing.
LEMMA StutterKeeps == IInv /\ UNCHANGED vars => IInv'
BY DEF vars, loopVars, beamVars, regVars, cpuVars, IInv, TypeOK, BusyBounded, Busy,
   PositionInv, Noticed, NmiDeadline, Offset, VblankWindow, BeforeVblank, AfterVblank

\* IInv is inductive.
LEMMA NextKeeps == IInv /\ [Next]_vars => IInv'
<1>1. Terminated => UNCHANGED vars
  BY DEF Terminated
<1> QED
  BY <1>1, PpuKeeps, CpuKeeps, FinishKeeps, StutterKeeps DEF Next

-----------------------------------------------------------------------------

\* The inductive invariant holds of every behaviour of the frame loop.
THEOREM Invariance == Spec => []IInv
BY InitEstablishes, NextKeeps, PTL DEF Spec

\* Type correctness of the frame loop's state.
THEOREM TypeCorrect == Spec => []TypeOK
<1>1. IInv => TypeOK
  BY DEF IInv
<1> QED
  BY <1>1, Invariance, PTL

\* cpu_run_cycle() never owes more than one interrupt, one instruction and
\* two DMAs, for every choice of the cycle counts.
THEOREM CyclesBounded == Spec => []BusyBounded
<1>1. IInv => BusyBounded
  BY DEF IInv
<1> QED
  BY <1>1, Invariance, PTL

\* cycle_counter is the linear position of the beam, for every geometry.
THEOREM CounterIsPosition == Spec => []PositionInv
<1>1. IInv => PositionInv
  BY DEF IInv
<1> QED
  BY <1>1, Invariance, PTL

\* Every NMI is taken within the vblank that raised it, for every geometry in
\* which vblank outlasts the longest instruction with its DMAs.
THEOREM NmiTakenInTime == Spec => []NmiTakenInVblank
BY DeadlineMeansVblank, Invariance, PTL

-----------------------------------------------------------------------------

\* The first three dots of a frame are on scanline 0.
LEMMA EarlyBeam ==
    ASSUME IInv, cycle_counter <= 2
    PROVE  cur_scanline = 0
<1>1. /\ cur_scanline \in Nat /\ cur_dot \in Nat
      /\ cycle_counter = cur_scanline * DotsPerLine + cur_dot
  BY BeamFacts DEF IInv
<1>2. CASE cur_scanline >= 1
  <2>1. 1 * DotsPerLine <= cur_scanline * DotsPerLine
    BY <1>1, <1>2, LineOrder
  <2>2. DotsPerLine <= cur_scanline * DotsPerLine
    BY <2>1, GeometryAssumption
  <2>3. cur_scanline * DotsPerLine \in Nat
    BY <1>1, LineArithmetic
  <2> QED
    BY <2>2, <2>3, <1>1, GeometryAssumption
<1> QED
  BY <1>1, <1>2

\* An iteration begins before vblank and without a pending NMI.
LEMMA EarlyMeansQuiet ==
    ASSUME IInv, cycle_counter <= 2
    PROVE  BeforeVblank /\ ~vblank /\ pending_interrupt = "NONE"
<1>1. BeforeVblank
  BY EarlyBeam, GeometryAssumption DEF BeforeVblank
<1>2. ~vblank
  BY <1>1 DEF IInv, VblankWindow
<1>3. pending_interrupt # "NMI"
  BY DeadlineMeansVblank, BoundsAreNaturals, GeometryAssumption
     DEF NmiTakenInVblank, IInv, TypeOK
<1> QED
  BY <1>1, <1>2, <1>3 DEF IInv, TypeOK

\* One frame per iteration of emulator_run()'s outer loop.
THEOREM OneFramePerIteration == Spec => []FrameAligned
<1>1. IInv => FrameAligned
  BY EarlyMeansQuiet DEF FrameAligned, IInv, Noticed
<1> QED
  BY <1>1, Invariance, PTL

\* The PPU never overwrites an interrupt the CPU has not taken.
THEOREM NoInterruptLost == Spec => NmiNotLost
<1>1. IInv /\ EntersVblank => pending_interrupt = "NONE"
  <2> SUFFICES ASSUME IInv, EntersVblank PROVE pending_interrupt # "NMI"
    BY DEF IInv, TypeOK
  <2>1. cycle_counter = VblankStart + 1
    BY BeamFacts DEF IInv
  <2> QED
    BY <2>1, DeadlineMeansVblank, BoundsAreNaturals DEF NmiTakenInVblank
<1>2. IInv /\ [Next]_vars =>
        [EntersVblank /\ enable_nmi /\ ppu_run_cycle => pending_interrupt = "NONE"]_vars
  BY <1>1
<1> QED
  BY <1>2, Invariance, PTL DEF Spec, NmiNotLost

\* Only the PPU completes a frame, at the end of the pre-render line.
LEMMA CompletedByPpu ==
    ASSUME TypeOK, Next, frame_complete < frame_complete'
    PROVE  ppu_run_cycle /\ EndsFrame
<1>1. frame_complete \in 0 .. 1
  BY DEF TypeOK
<1>2. CASE ppu_run_cycle
  BY <1>1, <1>2 DEF ppu_run_cycle, AdvanceBeam
<1>3. CASE cpu_run_cycle
  <2>1. frame_complete' = frame_complete
    BY <1>3 DEF cpu_run_cycle, DmaWait, InstructionWait, ExecutePlain, ExecuteCtrlWrite,
       ExecuteMaskWrite, ExecuteStatusRead, ExecuteDma, ExecuteExit, Execute, beamVars
  <2> QED
    BY <1>1, <2>1
<1>4. CASE FinishFrame
  <2>1. frame_complete' = 0
    BY <1>4 DEF FinishFrame
  <2> QED
    BY <1>1, <2>1
<1>5. CASE Terminated
  <2>1. frame_complete' = frame_complete
    BY <1>5 DEF Terminated, vars, beamVars
  <2> QED
    BY <1>1, <2>1
<1> QED
  BY <1>2, <1>3, <1>4, <1>5 DEF Next

\* A frame is as long as the geometry says, or one dot shorter in an odd frame
\* with the background on, for every geometry.
THEOREM FramesHaveTheirLength == Spec => FrameLength
<1> DEFINE Right == /\ cycle_counter + 1 \in {FrameDots - 1, FrameDots}
                    /\ cycle_counter + 1 = FrameDots - 1 =>
                          cur_frame % 2 = 1 /\ render_background
<1>1. IInv /\ EndsFrame => Right
  <2> SUFFICES ASSUME IInv, EndsFrame PROVE Right
    OBVIOUS
  <2>1. /\ cycle_counter = PreRenderStart + cur_dot
        /\ cur_dot \in Nat /\ cur_dot < DotsPerLine
    BY BeamFacts DEF IInv, EndsFrame
  <2>2. DotsPerLine \in Nat /\ PreRenderStart \in Nat
        /\ FrameDots = PreRenderStart + DotsPerLine
    BY BoundsAreNaturals, GeometryAssumption
  <2>3. CASE SkipsDot
    <3>1. cur_dot = DotsPerLine - 2 /\ cur_frame % 2 = 1 /\ render_background
      BY <2>3 DEF SkipsDot
    <3> QED
      BY <2>1, <2>2, <3>1
  <2>4. CASE ~SkipsDot
    <3>1. cur_dot = DotsPerLine - 1
      BY <2>1, <2>2, <2>4 DEF EndsFrame, EndsLine, NextDot
    <3> QED
      BY <2>1, <2>2, <3>1
  <2> QED
    BY <2>3, <2>4
<1> HIDE DEF Right
<1>2. IInv /\ [Next]_vars => [frame_complete < frame_complete' => Right]_vars
  BY <1>1, CompletedByPpu DEF IInv
<1>3. Spec => [][frame_complete < frame_complete' => Right]_vars
  BY <1>2, Invariance, PTL DEF Spec
<1> QED
  BY <1>3 DEF FrameLength, Right

-----------------------------------------------------------------------------
(***************************************************************************)
(* The frame loop implements VblankProtocol.                               *)
(***************************************************************************)

\* A frame that is just complete is presented with the beam before vblank;
\* later in the frame the flag frame_complete is clear.
LEMMA LateMeansIncomplete ==
    ASSUME IInv, ~BeforeVblank
    PROVE  frame_complete = 0
<1>1. frame_complete # 1
  BY EarlyMeansQuiet DEF IInv, Noticed
<1> QED
  BY <1>1 DEF IInv, TypeOK

\* The flag is set only in the stage of vblank.
LEMMA FlagMeansVblank ==
    ASSUME IInv, vblank
    PROVE  Stage = "vblank"
<1>1. ~BeforeVblank /\ ~AfterVblank
  BY DEF IInv, VblankWindow
<1> QED
  BY <1>1, LateMeansIncomplete DEF Stage

\* An NMI is pending only in the stage of vblank.
LEMMA NmiMeansVblank ==
    ASSUME IInv, pending_interrupt = "NMI"
    PROVE  Stage = "vblank"
<1>b. /\ cur_scanline \in Nat /\ cur_dot \in Nat /\ cur_dot < DotsPerLine
      /\ cycle_counter = cur_scanline * DotsPerLine + cur_dot
      /\ cur_scanline * DotsPerLine \in Nat
      /\ cur_scanline = PreRenderLine => cycle_counter = PreRenderStart + cur_dot
  BY BeamFacts DEF IInv
<1>n. VblankStart + 1 < cycle_counter /\ cycle_counter < PreRenderStart
  BY DeadlineMeansVblank DEF NmiTakenInVblank
<1>1. ~AfterVblank
  BY <1>b, <1>n, BoundsAreNaturals DEF AfterVblank
<1>2. ~BeforeVblank
  <2>1. CASE cur_scanline < VblankLine
    <3>1. (cur_scanline + 1) * DotsPerLine <= VblankLine * DotsPerLine
      BY <2>1, <1>b, GeometryAssumption, LineOrder
    <3>2. cur_scanline * DotsPerLine + DotsPerLine <= VblankStart
      BY <3>1, <1>b, LineArithmetic DEF VblankStart
    <3> QED
      BY <3>2, <1>b, <1>n, GeometryAssumption, BoundsAreNaturals
  <2>2. CASE cur_scanline = VblankLine /\ cur_dot <= 1
    <3>1. cycle_counter = VblankStart + cur_dot
      BY <2>2, <1>b DEF VblankStart
    <3> QED
      BY <3>1, <2>2, <1>b, <1>n, BoundsAreNaturals
  <2> QED
    BY <2>1, <2>2 DEF BeforeVblank
<1> QED
  BY <1>1, <1>2, LateMeansIncomplete DEF Stage

AbstractStep ==
    \/ Protocol!EnterVblank \/ Protocol!ProgramLooks \/ Protocol!LeaveVblank
    \/ Protocol!CompleteFrame \/ Protocol!PresentFrame
    \/ UNCHANGED Protocol!abstractVars

\* A PPU dot enters vblank, leaves it, completes the frame, or changes
\* nothing a game can tell.
LEMMA PpuRefines == IInv /\ ppu_run_cycle => AbstractStep
<1> SUFFICES ASSUME IInv, ppu_run_cycle PROVE AbstractStep
  OBVIOUS
<1>b. /\ cur_scanline \in Nat /\ cur_scanline <= PreRenderLine
      /\ cur_dot \in Nat /\ cur_dot < DotsPerLine
      /\ cur_scanline = PreRenderLine => cycle_counter = PreRenderStart + cur_dot
      /\ SkipsDot => EndsFrame
  BY BeamFacts DEF IInv
<1>a. AdvanceBeam /\ VblankEvents /\ cur_frame' = cur_frame
  BY DEF ppu_run_cycle, loopVars
<1>q. frame_complete = 0 \/ BeforeVblank
  BY LateMeansIncomplete
<1>1. CASE EntersVblank
  <2>1. cycle_counter = VblankStart + 1
    BY <1>1, BeamFacts DEF IInv
  <2>2. frame_complete = 0
    BY <2>1, BoundsAreNaturals, GeometryAssumption DEF IInv, Noticed, TypeOK
  <2>3. /\ cur_scanline' = VblankLine /\ cur_dot' = 2 /\ frame_complete' = 0
    BY <1>1, <1>a, <2>2, GeometryAssumption
       DEF AdvanceBeam, EntersVblank, EndsLine, EndsFrame, NextDot, SkipsDot
  <2>4. Stage = "render" /\ Stage' = "vblank"
    BY <1>1, <2>2, <2>3, GeometryAssumption
       DEF Stage, BeforeVblank, AfterVblank, EntersVblank
  <2>5. ~LeavesVblank
    BY <1>1, GeometryAssumption DEF EntersVblank, LeavesVblank
  <2>6. vblank' = TRUE
    BY <1>a, <1>1, <2>5 DEF VblankEvents
  <2> QED
    BY <1>a, <2>4, <2>6 DEF AbstractStep, Protocol!EnterVblank
<1>2. CASE LeavesVblank
  <2>1. ~BeforeVblank /\ ~AfterVblank
    BY <1>2, GeometryAssumption DEF LeavesVblank, BeforeVblank, AfterVblank
  <2>2. frame_complete = 0
    BY <2>1, <1>q
  <2>3. /\ cur_scanline' = PreRenderLine /\ cur_dot' = 2 /\ frame_complete' = 0
    BY <1>2, <1>a, <2>2, GeometryAssumption
       DEF AdvanceBeam, LeavesVblank, EndsLine, EndsFrame, NextDot, SkipsDot
  <2>4. Stage = "vblank" /\ Stage' = "prerender"
    BY <2>1, <2>2, <2>3, GeometryAssumption DEF Stage, BeforeVblank, AfterVblank
  <2>5. pending_interrupt # "NMI"
    BY <1>2, <1>b, DeadlineMeansVblank, BoundsAreNaturals
       DEF NmiTakenInVblank, LeavesVblank
  <2>6. ~EntersVblank
    BY <1>2, GeometryAssumption DEF EntersVblank, LeavesVblank
  <2>7. vblank' = FALSE /\ pending_interrupt' = pending_interrupt
    BY <1>a, <1>2, <2>6 DEF VblankEvents
  <2> QED
    BY <1>a, <2>4, <2>5, <2>7 DEF AbstractStep, Protocol!LeaveVblank
<1>3. CASE ~EntersVblank /\ ~LeavesVblank
  <2>1. vblank' = vblank /\ pending_interrupt' = pending_interrupt
    BY <1>a, <1>3 DEF VblankEvents, IInv, TypeOK
  <2>2. CASE EndsFrame
    <3>1. cur_dot > 1 /\ cur_scanline = PreRenderLine
      BY <2>2, <1>b, GeometryAssumption DEF EndsFrame, EndsLine, NextDot
    <3>2. ~BeforeVblank /\ AfterVblank
      BY <3>1, <1>b, GeometryAssumption DEF BeforeVblank, AfterVblank
    <3>3. frame_complete' = 1
      BY <2>2, <1>a DEF AdvanceBeam
    <3>4. Stage = "prerender" /\ Stage' = "present"
      BY <3>2, <3>3, <1>q DEF Stage
    <3> QED
      BY <1>a, <2>1, <3>4 DEF AbstractStep, Protocol!CompleteFrame
  <2>3. CASE ~EndsFrame
    <3>1. /\ frame_complete' = frame_complete
          /\ \/ cur_scanline' = cur_scanline /\ cur_dot' = cur_dot + 1
             \/ /\ cur_scanline' = cur_scanline + 1 /\ cur_dot' = 0
                /\ cur_scanline # PreRenderLine /\ cur_dot >= DotsPerLine - 1
      <4>1. NextDot = cur_dot + 1
        BY <2>3, <1>b DEF NextDot
      <4>2. CASE EndsLine
        BY <4>1, <4>2, <2>3, <1>a, <1>b, GeometryAssumption
           DEF AdvanceBeam, EndsFrame, EndsLine
      <4>3. CASE ~EndsLine
        BY <4>1, <4>3, <2>3, <1>a DEF AdvanceBeam
      <4> QED
        BY <4>2, <4>3
    <3>2. (BeforeVblank' <=> BeforeVblank) /\ (AfterVblank' <=> AfterVblank)
      BY <3>1, <1>3, <1>b, GeometryAssumption
         DEF BeforeVblank, AfterVblank, EntersVblank, LeavesVblank
    <3>3. Stage' = Stage
      BY <3>1, <3>2 DEF Stage
    <3> QED
      BY <1>a, <2>1, <3>3 DEF AbstractStep, Protocol!abstractVars
  <2> QED
    BY <2>2, <2>3
<1> QED
  BY <1>1, <1>2, <1>3

\* An instruction takes the NMI or reads the flag inside vblank, or changes
\* nothing the protocol speaks of.
LEMMA ExecuteRefines ==
    ASSUME IInv, UNCHANGED <<loopVars, beamVars>>,
           pending_interrupt' = "NONE", vblank' = vblank \/ vblank' = FALSE
    PROVE  AbstractStep
<1>1. Stage' = Stage /\ cur_frame' = cur_frame
  BY DEF Stage, BeforeVblank, AfterVblank, loopVars, beamVars
<1>2. CASE Stage = "vblank"
  <2>1. vblank' \in {vblank, FALSE} /\ (pending_interrupt' = "NMI") = FALSE
    OBVIOUS
  <2> QED
    BY <1>1, <1>2, <2>1 DEF AbstractStep, Protocol!ProgramLooks
<1>3. CASE Stage # "vblank"
  <2>1. pending_interrupt # "NMI" /\ ~vblank
    BY <1>3, NmiMeansVblank, FlagMeansVblank
  <2>2. vblank' = vblank
    BY <2>1 DEF IInv, TypeOK
  <2> QED
    BY <1>1, <2>1, <2>2 DEF AbstractStep, Protocol!abstractVars
<1> QED
  BY <1>2, <1>3

\* An instruction is a look of the program, or no abstract step at all.
LEMMA CpuRefines == IInv /\ cpu_run_cycle => AbstractStep
<1> SUFFICES ASSUME IInv, cpu_run_cycle PROVE AbstractStep
  OBVIOUS
<1>1. CASE DmaWait \/ InstructionWait \/ ExecuteExit
  BY <1>1 DEF DmaWait, InstructionWait, ExecuteExit, AbstractStep, Protocol!abstractVars,
     Stage, BeforeVblank, AfterVblank, loopVars, beamVars, regVars, cpuVars
<1>2. CASE ExecutePlain \/ ExecuteCtrlWrite \/ ExecuteMaskWrite
           \/ ExecuteStatusRead \/ ExecuteDma
  <2>1. /\ UNCHANGED <<loopVars, beamVars>>
        /\ pending_interrupt' = "NONE"
        /\ vblank' = vblank \/ vblank' = FALSE
    BY <1>2 DEF ExecutePlain, ExecuteCtrlWrite, ExecuteMaskWrite,
       ExecuteStatusRead, ExecuteDma, Execute, regVars
  <2> QED
    BY <2>1, ExecuteRefines
<1> QED
  BY <1>1, <1>2 DEF cpu_run_cycle

\* The end of an iteration presents the frame.
LEMMA FinishRefines == IInv /\ FinishFrame => AbstractStep
<1> SUFFICES ASSUME IInv, FinishFrame PROVE AbstractStep
  OBVIOUS
<1>1. frame_complete = 1 /\ cycle_counter <= 2 /\ frame_complete' = 0
  BY DEF IInv, Noticed, FinishFrame
<1>2. BeforeVblank' <=> BeforeVblank
  BY DEF FinishFrame, BeforeVblank
<1>3. Stage = "present" /\ Stage' = "render"
  BY <1>1, <1>2, EarlyMeansQuiet DEF Stage
<1> QED
  BY <1>3 DEF FinishFrame, regVars, AbstractStep, Protocol!PresentFrame

\* FrameLoop, with its dots, cycles and DMA stalls, implements the promise
\* made to games by VblankProtocol.
THEOREM FrameLoopImplementsProtocol == Spec => ImplementsProtocol
<1>1. Init => Protocol!Start
  BY GeometryAssumption
     DEF Init, Protocol!Start, Stage, BeforeVblank
<1>2. IInv /\ [Next]_vars => AbstractStep
  <2>1. UNCHANGED vars => AbstractStep
    BY DEF vars, loopVars, beamVars, regVars, cpuVars, AbstractStep,
       Protocol!abstractVars, Stage, BeforeVblank, AfterVblank
  <2>2. Terminated => UNCHANGED vars
    BY DEF Terminated
  <2> QED
    BY <2>1, <2>2, PpuRefines, CpuRefines, FinishRefines DEF Next
<1> QED
  BY <1>1, <1>2, Invariance, PTL
     DEF Spec, ImplementsProtocol, Protocol!Promised, AbstractStep
=============================================================================

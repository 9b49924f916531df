------------------------------- MODULE IoPage -------------------------------
(***************************************************************************)
(* The I/O page as mem_write_8() has it: sprite memory and host input with *)
(* the one write that is an operation of both.  A write to $4014 runs the  *)
(* OAM DMA and, the case having no break, goes on into the case of $4016,  *)
(* which drains the event queue and latches the controller anew.           *)
(***************************************************************************)
EXTENDS OamPort, HostInput

ioVars == <<oamVars, inputVars>>

IoInit == OamInit /\ InputInit

User == (PressOrRelease \/ CloseWindow) /\ UNCHANGED oamVars

\* RAM, $2003 and $2004.
OamAccess ==
    /\ is_running
    /\ RamWrite \/ WriteOamAddr \/ WriteOamData
    /\ UNCHANGED inputVars

\* $4016, written or read.
ControllerAccess == (StrobeWrite \/ PortRead) /\ UNCHANGED oamVars

\* $4014: both at once.
WriteDma == ppu_dma /\ DmaWrite

FrameEnds == EndFrame /\ UNCHANGED oamVars

IoNext == User \/ OamAccess \/ ControllerAccess \/ WriteDma \/ FrameEnds

IoSpec == IoInit /\ [][IoNext]_ioVars /\ WF_ioVars(FrameEnds)
=============================================================================

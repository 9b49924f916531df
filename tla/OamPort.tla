------------------------------ MODULE OamPort ------------------------------
(***************************************************************************)
(* Sprite memory as a program reaches it: the address register $2003, the  *)
(* data port $2004, and the DMA of $4014 that replaces all of it from one  *)
(* page of RAM.  OamSize is 256 in the code: only the wrap of the uint8_t  *)
(* oam_addr depends on it.                                                 *)
(***************************************************************************)
EXTENDS Integers

CONSTANTS
    OamSize,    \* bytes of OAM and of a RAM page: 256
    Bytes       \* values the ROM stores

ASSUME OamAssumption ==
    /\ OamSize \in Nat \ {0}
    /\ Bytes \subseteq 0 .. 255 /\ 0 \in Bytes

VARIABLES
    oam,
    oam_addr,
    page        \* the RAM page the ROM prepares for DMA

oamVars == <<oam, oam_addr, page>>

Cells == 0 .. OamSize - 1

OamTypeOK ==
    /\ oam \in [Cells -> Bytes]
    /\ oam_addr \in Cells
    /\ page \in [Cells -> Bytes]

\* ppu_reset() and init_cpu_mem() clear both memories.
OamInit ==
    /\ oam = [i \in Cells |-> 0]
    /\ oam_addr = 0
    /\ page = [i \in Cells |-> 0]

\* The ROM changes the page it will send.
RamWrite ==
    /\ \E i \in Cells, v \in Bytes : page' = [page EXCEPT ![i] = v]
    /\ UNCHANGED <<oam, oam_addr>>

\* A write to $2003.
WriteOamAddr ==
    /\ oam_addr' \in Cells
    /\ UNCHANGED <<oam, page>>

\* Mutant: the address register does not wrap.
WriteOamDataNoWrap ==
    /\ \E v \in Bytes : oam' = [oam EXCEPT ![oam_addr] = v]
    /\ oam_addr' = oam_addr + 1
    /\ UNCHANGED page

\* A write to $2004.
WriteOamData ==
    /\ \E v \in Bytes : oam' = [oam EXCEPT ![oam_addr] = v]
    /\ oam_addr' = (oam_addr + 1) % OamSize
    /\ UNCHANGED page

\* memcpy(target + at, source + from, n).
Copied(target, at, source, from, n) ==
    [i \in Cells |-> IF at <= i /\ i < at + n THEN source[from + (i - at)]
                     ELSE target[i]]

\* Mutant: the second copy starts at the page's first byte again.
ppu_dma_restarts ==
    /\ oam' = Copied(Copied(oam, oam_addr, page, 0, OamSize - oam_addr),
                     0, page, 0, oam_addr)
    /\ UNCHANGED <<oam_addr, page>>

\* A write to $4014 (ppu_dma): two copies, the second for the part that wraps.
\* page is a page of ram[]: of any other the code has no pointer and exits, which
\* FrameLoop and Cpu model.
ppu_dma ==
    /\ LET head == Copied(oam, oam_addr, page, 0, OamSize - oam_addr)
       IN  oam' = IF oam_addr = 0 THEN head
                  ELSE Copied(head, 0, page, OamSize - oam_addr, oam_addr)
    /\ UNCHANGED <<oam_addr, page>>

OamNext == RamWrite \/ WriteOamAddr \/ WriteOamData \/ ppu_dma

OamSpec == OamInit /\ [][OamNext]_oamVars

-----------------------------------------------------------------------------

\* The OAM as seen from oam_addr on, wrapping around.
FromAddr(i) == oam[(oam_addr + i) % OamSize]

\* tests/ppu/readme.txt, sprite_ram 7 and 8: "$4014 DMA copy should start at
\* value in $2003 and wrap" and "leave value in $2003 intact".  The two copies
\* of ppu_dma() place every byte of the page exactly once, in order.
DmaWraps ==
    [][ppu_dma => /\ oam_addr' = oam_addr
                  /\ \A i \in Cells : FromAddr(i)' = page[i]]_oamVars
=============================================================================

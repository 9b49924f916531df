------------------------------- MODULE Mapper -------------------------------
(***************************************************************************)
(* The cartridge: what mapper_init() makes of an iNES header, and NROM's   *)
(* view of the ROM file behind it.  The header does not change while a     *)
(* program runs, so its bytes are constants.                               *)
(***************************************************************************)
EXTENDS Integers

CONSTANTS
    IsNes,          \* the file begins with the four bytes of the magic
    PrgRomSize,     \* prg_rom_size, in banks of 16 KB,
    ChrRomSize,     \* chr_rom_size, in banks of 8 KB,
    Flags6, Flags7  \* and the two flag bytes

ASSUME HeaderAssumption ==
    /\ IsNes \in BOOLEAN
    /\ PrgRomSize \in 0 .. 255 /\ ChrRomSize \in 0 .. 255
    /\ Flags6 \in 0 .. 255 /\ Flags7 \in 0 .. 255

\* mapper_init() tests both low bits of flags_6 first, so a cartridge with
\* vertical mirroring gets four screens, and VERTICAL is never selected.
Mirroring ==
    IF Flags6 % 4 # 0 THEN "FOUR_SCREEN"
    ELSE IF Flags6 % 2 # 0 THEN "VERTICAL"
    ELSE "HORIZONTAL"

\* set_mirroring(): the base of each of the four logical nametables.
NametableMap ==
    CASE Mirroring = "HORIZONTAL"  -> <<0, 0, 2048, 2048>>
      [] Mirroring = "VERTICAL"    -> <<0, 1024, 0, 1024>>
      [] Mirroring = "FOUR_SCREEN" -> <<0, 1024, 2048, 3072>>

\* Where PRG ROM starts in the file: behind the header, and behind the trainer
\* when bit 2 of flags_6 is set.
PrgRom == 16 + IF (Flags6 \div 4) % 2 = 1 THEN 512 ELSE 0

\* Without CHR ROM the pattern tables are chr_ram.
HasChrRom == ChrRomSize > 0

\* mapper_init() returns only for mapper 0; in every other case it exits.
MapperNumber == 16 * (Flags7 \div 16) + Flags6 \div 16
Supported == IsNes /\ MapperNumber = 0

\* nrom_read_prg(): one bank appears twice.
PrgIndex(a) == IF PrgRomSize = 1 THEN a % 16384 ELSE a - 32768
=============================================================================

-------------------------------- MODULE Alu --------------------------------
(***************************************************************************)
(* The arithmetic of execute_instruction(): what each opcode does to the   *)
(* registers, the status register and the memory operand.  A machine state *)
(* is a record: ac, x, y, the operand m at cpu->address (an opcode that    *)
(* writes memory changes m) and sr, the set of the status bits that are 1. *)
(*                                                                         *)
(* Half is the weight of a byte's top bit, 128 in the code.                *)
(***************************************************************************)
EXTENDS Integers

CONSTANT Half

ASSUME HalfAssumption == Half \in {4, 8, 16, 32, 64, 128}

Size == 2 * Half
Byte == 0 .. Size - 1

Flag == {"C", "Z", "I", "D", "B", "U", "V", "N"}

DataState == [ac : Byte, x : Byte, y : Byte, m : Byte, sr : SUBSET Flag]

-----------------------------------------------------------------------------
(* Bits and flags.                                                         *)

HasBit(v, w) == (v \div w) % 2 = 1

\* The byte whose bits are those of which P holds.
Bits(P(_)) ==
    LET bit(w) == IF P(w) THEN w ELSE 0
    IN  bit(1) + bit(2) + bit(4) + bit(8) + bit(16) + bit(32) + bit(64) + bit(128)

BitAnd(a, b) == Bits(LAMBDA w : HasBit(a, w) /\ HasBit(b, w))
BitOr(a, b) == Bits(LAMBDA w : HasBit(a, w) \/ HasBit(b, w))
BitXor(a, b) == Bits(LAMBDA w : HasBit(a, w) # HasBit(b, w))

Negative(v) == v >= Half
Carry(sr) == IF "C" \in sr THEN 1 ELSE 0

set_flag(sr, flag, value) == IF value THEN sr \cup {flag} ELSE sr \ {flag}

set_ZN_flags(sr, v) ==
    set_flag(set_flag(sr, "Z", v = 0), "N", Negative(v))

\* A register or the operand takes a value, and Z and N follow it.
Put(s, reg, v) == [s EXCEPT ![reg] = v, !.sr = set_ZN_flags(@, v)]
WithFlag(s, flag, value) == [s EXCEPT !.sr = set_flag(@, flag, value)]

-----------------------------------------------------------------------------
(* Addition, subtraction and comparison.                                   *)

\* Mutant: overflow ignores the sign of the second operand.
AddLooseOverflow(s, v) ==
    LET r == s.ac + v + Carry(s.sr)
    IN  Put(WithFlag(WithFlag(s, "C", r >= Size),
                     "V", Negative(s.ac) # Negative(r % Size)),
            "ac", r % Size)

\* The sum of ac, a byte and the carry.
Add(s, v) ==
    LET r == s.ac + v + Carry(s.sr)
    IN  Put(WithFlag(WithFlag(s, "C", r >= Size),
                     "V", /\ Negative(s.ac) = Negative(v)
                          /\ Negative(s.ac) # Negative(r % Size)),
            "ac", r % Size)

\* Mutant: the overflow test is that of the addition.
SubtractAddOverflow(s, v) ==
    LET r == s.ac + (Size - 1 - v) + Carry(s.sr)
    IN  Put(WithFlag(WithFlag(s, "C", r >= Size),
                     "V", /\ Negative(s.ac) = Negative(v)
                          /\ Negative(s.ac) # Negative(r % Size)),
            "ac", r % Size)

\* Subtraction adds the complement of the operand; its overflow test compares
\* with the operand itself.
Subtract(s, v) ==
    LET r == s.ac + (Size - 1 - v) + Carry(s.sr)
    IN  Put(WithFlag(WithFlag(s, "C", r >= Size),
                     "V", /\ Negative(s.ac) # Negative(v)
                          /\ Negative(s.ac) # Negative(r % Size)),
            "ac", r % Size)

\* Mutant: equal operands leave the carry clear.
CompareStrict(s, a, v) ==
    [s EXCEPT !.sr = set_flag(set_ZN_flags(@, (a + Size - v) % Size), "C", a > v)]

Compare(s, a, v) ==
    [s EXCEPT !.sr = set_flag(set_ZN_flags(@, (a + Size - v) % Size), "C", a >= v)]

-----------------------------------------------------------------------------
(* Shifts, on ac or on the operand.                                        *)

shift_left(s, reg) ==
    Put(WithFlag(s, "C", Negative(s[reg])), reg, (2 * s[reg]) % Size)

shift_right(s, reg) ==
    Put(WithFlag(s, "C", HasBit(s[reg], 1)), reg, s[reg] \div 2)

rotate_left(s, reg) ==
    Put(WithFlag(s, "C", Negative(s[reg])),
        reg, ((2 * s[reg]) % Size) + Carry(s.sr))

\* Mutant: the new carry is rotated in, not the old one.
rotate_right_new(s, reg) ==
    LET t == WithFlag(s, "C", HasBit(s[reg], 1))
    IN  Put(t, reg, (s[reg] \div 2) + Half * Carry(t.sr))

rotate_right(s, reg) ==
    Put(WithFlag(s, "C", HasBit(s[reg], 1)),
        reg, (s[reg] \div 2) + Half * Carry(s.sr))

-----------------------------------------------------------------------------
(* The legal opcodes on data.  TXS, which sets no flag, is with the stack. *)

ADC(s) == Add(s, s.m)
SBC(s) == Subtract(s, s.m)
AND(s) == Put(s, "ac", BitAnd(s.ac, s.m))
ORA(s) == Put(s, "ac", BitOr(s.ac, s.m))
EOR(s) == Put(s, "ac", BitXor(s.ac, s.m))
BIT(s) ==
    WithFlag(WithFlag(WithFlag(s, "Z", BitAnd(s.ac, s.m) = 0),
                      "N", Negative(s.m)),
             "V", HasBit(s.m, Half \div 2))

CMP(s) == Compare(s, s.ac, s.m)
CPX(s) == Compare(s, s.x, s.m)
CPY(s) == Compare(s, s.y, s.m)

\* Mutant: the register is wider than a byte.
IncrementedNoWrap(s, reg) == Put(s, reg, s[reg] + 1)

Incremented(s, reg) == Put(s, reg, (s[reg] + 1) % Size)
Decremented(s, reg) == Put(s, reg, (s[reg] + Size - 1) % Size)

\* A store changes the operand and no flag.
Store(s, v) == [s EXCEPT !.m = v]

\* The register each load fills, each store saves, and each transfer moves
\* from and to; the flag each opcode clears or sets.
Loaded == [LDA |-> "ac", LDX |-> "x", LDY |-> "y"]
Stored == [STA |-> "ac", STX |-> "x", STY |-> "y"]
Moved == [TAX |-> <<"ac", "x">>, TAY |-> <<"ac", "y">>,
          TXA |-> <<"x", "ac">>, TYA |-> <<"y", "ac">>]
Cleared == [CLC |-> "C", CLD |-> "D", CLI |-> "I", CLV |-> "V"]
Raised == [SEC |-> "C", SED |-> "D", SEI |-> "I"]

-----------------------------------------------------------------------------
(* The illegal opcodes the code implements, each written out there anew.   *)

ALR(s) == LET a == BitAnd(s.ac, s.m) IN shift_right([s EXCEPT !.ac = a], "ac")

ANC(s) ==
    LET a == BitAnd(s.ac, s.m) IN WithFlag(Put(s, "ac", a), "C", Negative(a))

ARR(s) ==
    LET r == rotate_right([s EXCEPT !.ac = BitAnd(s.ac, s.m)], "ac")
    IN  WithFlag(WithFlag(r, "C", HasBit(r.ac, Half \div 2)),
                 "V", HasBit(r.ac, Half \div 2) # HasBit(r.ac, Half \div 4))

DCP(s) ==
    LET v == (s.m + Size - 1) % Size
    IN  [s EXCEPT !.m = v,
                  !.sr = set_ZN_flags(set_flag(@, "C", s.ac >= v),
                                      (s.ac + Size - v) % Size)]

ISB(s) ==
    LET v == (s.m + 1) % Size IN Subtract([s EXCEPT !.m = v], v)

LAX(s) ==
    [s EXCEPT !.ac = s.m, !.x = s.m, !.sr = set_ZN_flags(@, s.m)]

\* Mutant: the rotated value takes the carry the rotation has just produced.
RLANewCarry(s) ==
    LET t == WithFlag(s, "C", Negative(s.m))
        v == ((2 * s.m) % Size) + Carry(t.sr)
    IN  Put([t EXCEPT !.m = v], "ac", BitAnd(s.ac, v))

RLA(s) ==
    LET v == ((2 * s.m) % Size) + Carry(s.sr)
        t == [WithFlag(s, "C", Negative(s.m)) EXCEPT !.m = v]
    IN  Put(t, "ac", BitAnd(s.ac, v))

RRA(s) ==
    LET v == (s.m \div 2) + Half * Carry(s.sr)
    IN  Add([WithFlag(s, "C", HasBit(s.m, 1)) EXCEPT !.m = v], v)

SAX(s) == Store(s, BitAnd(s.ac, s.x))

\* The carry is the borrow of a 16-bit difference.
SBX(s) ==
    LET a == BitAnd(s.ac, s.x)
    IN  WithFlag(Put(s, "x", (a + Size - s.m) % Size), "C", a >= s.m)

SLO(s) ==
    LET v == (2 * s.m) % Size
        t == [WithFlag(s, "C", Negative(s.m)) EXCEPT !.m = v]
    IN  Put(t, "ac", BitOr(s.ac, v))

SRE(s) ==
    LET v == s.m \div 2
        t == [WithFlag(s, "C", HasBit(s.m, 1)) EXCEPT !.m = v]
    IN  Put(t, "ac", BitXor(s.ac, v))

-----------------------------------------------------------------------------

DataOps ==
    {"ADC", "SBC", "AND", "ORA", "EOR", "BIT", "CMP", "CPX", "CPY",
     "ASL", "LSR", "ROL", "ROR", "INC", "DEC", "INX", "INY", "DEX", "DEY",
     "LDA", "LDX", "LDY", "STA", "STX", "STY", "TAX", "TAY", "TXA", "TYA",
     "CLC", "CLD", "CLI", "CLV", "SEC", "SED", "SEI", "NOP",
     "ALR", "ANC", "ARR", "DCP", "ISB", "LAX", "RLA", "RRA", "SAX", "SBX",
     "SLO", "SRE"}

\* Opcodes that write their result back to memory (ASL, LSR, ROL and ROR only
\* when their mode is not ACC).
Modifies == {"ASL", "LSR", "ROL", "ROR", "INC", "DEC", "DCP", "ISB", "RLA",
             "RRA", "SLO", "SRE"}
Stores == {"STA", "STX", "STY", "SAX"}

\* The switch of execute_instruction(); reg is "ac" in the mode ACC, "m" in
\* every other.
Executed(op, s, reg) ==
    CASE op = "ADC" -> ADC(s)
      [] op = "SBC" -> SBC(s)
      [] op = "AND" -> AND(s)
      [] op = "ORA" -> ORA(s)
      [] op = "EOR" -> EOR(s)
      [] op = "BIT" -> BIT(s)
      [] op = "CMP" -> CMP(s)
      [] op = "CPX" -> CPX(s)
      [] op = "CPY" -> CPY(s)
      [] op = "ASL" -> shift_left(s, reg)
      [] op = "LSR" -> shift_right(s, reg)
      [] op = "ROL" -> rotate_left(s, reg)
      [] op = "ROR" -> rotate_right(s, reg)
      [] op = "INC" -> Incremented(s, "m")
      [] op = "DEC" -> Decremented(s, "m")
      [] op = "INX" -> Incremented(s, "x")
      [] op = "INY" -> Incremented(s, "y")
      [] op = "DEX" -> Decremented(s, "x")
      [] op = "DEY" -> Decremented(s, "y")
      [] op \in DOMAIN Loaded -> Put(s, Loaded[op], s.m)
      [] op \in DOMAIN Stored -> Store(s, s[Stored[op]])
      [] op \in DOMAIN Moved -> Put(s, Moved[op][2], s[Moved[op][1]])
      [] op \in DOMAIN Cleared -> WithFlag(s, Cleared[op], FALSE)
      [] op \in DOMAIN Raised -> WithFlag(s, Raised[op], TRUE)
      [] op = "NOP" -> s
      [] op = "ALR" -> ALR(s)
      [] op = "ANC" -> ANC(s)
      [] op = "ARR" -> ARR(s)
      [] op = "DCP" -> DCP(s)
      [] op = "ISB" -> ISB(s)
      [] op = "LAX" -> LAX(s)
      [] op = "RLA" -> RLA(s)
      [] op = "RRA" -> RRA(s)
      [] op = "SAX" -> SAX(s)
      [] op = "SBX" -> SBX(s)
      [] op = "SLO" -> SLO(s)
      [] op = "SRE" -> SRE(s)
=============================================================================

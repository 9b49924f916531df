------------------------------ MODULE DataPath ------------------------------
(***************************************************************************)
(* A ROM that computes: any opcode on data, in any order, on registers and *)
(* one operand that hold anything.  The invariants compare what sequences  *)
(* of opcodes leave in the registers with the arithmetic a programmer      *)
(* means by them, for one byte and for words kept in two.                  *)
(***************************************************************************)
EXTENDS Alu

CONSTANT Opcodes    \* bound: the opcodes the ROM uses

ASSUME OpcodesAssumption == Opcodes \subseteq DataOps

VARIABLE s

DataTypeOK == s \in DataState

\* cpu_init(); the operand is RAM, which init_cpu_mem() clears.
DataInit == s = [ac |-> 0, x |-> 0, y |-> 0, m |-> 0, sr |-> {"I", "U"}]

\* Another address, whose byte may be anything.
Elsewhere == \E v \in Byte : s' = [s EXCEPT !.m = v]

OnOperand == \E op \in Opcodes : s' = Executed(op, s, "m")

OnAccumulator ==
    \E op \in Opcodes \cap {"ASL", "LSR", "ROL", "ROR"} : s' = Executed(op, s, "ac")

DataNext == Elsewhere \/ OnOperand \/ OnAccumulator

DataSpec == DataInit /\ [][DataNext]_s

-----------------------------------------------------------------------------
(* Words: the low bytes in ac and m, the high bytes in x and y.            *)

Word(high, low) == Size * high + low
SignedByte(v) == IF Negative(v) THEN v - Size ELSE v
SignedWord(w) == IF w >= Size * Half THEN w - Size * Size ELSE w
WordRange == 0 - Size * Half .. Size * Half - 1

\* op on the low bytes, then on the high bytes with the carry it left.
LowPart(op) == Executed(op, s, "m")
HighPart(op) ==
    Executed(op, [s EXCEPT !.ac = s.x, !.m = s.y, !.sr = LowPart(op).sr], "m")
WordResult(op) == Word(HighPart(op).ac, LowPart(op).ac)

\* Two ADCs add two words, whatever lies in them: the carry between the bytes
\* and the carry out are those of the sum, and V is set exactly when the
\* signed sum does not fit.
WordsAdd ==
    LET total == Word(s.x, s.ac) + Word(s.y, s.m) + Carry(s.sr)
        signed == SignedWord(Word(s.x, s.ac)) + SignedWord(Word(s.y, s.m))
                    + Carry(s.sr)
    IN  /\ WordResult("ADC") + Size * Size * Carry(HighPart("ADC").sr) = total
        /\ "V" \in HighPart("ADC").sr <=> signed \notin WordRange

\* Two SBCs subtract, with the carry as "no borrow".
WordsSubtract ==
    LET borrow == 1 - Carry(s.sr)
        total == Word(s.x, s.ac) - Word(s.y, s.m) - borrow
        signed == SignedWord(Word(s.x, s.ac)) - SignedWord(Word(s.y, s.m))
                    - borrow
    IN  /\ WordResult("SBC") = total + Size * Size * (1 - Carry(HighPart("SBC").sr))
        /\ "V" \in HighPart("SBC").sr <=> signed \notin WordRange

\* The branches after a comparison order the operands: BCC, BEQ and BCS
\* unsigned after CMP; N xor V signed after SEC and SBC.
ComparisonsOrder ==
    LET flags == CMP(s).sr
        difference == SBC(WithFlag(s, "C", TRUE)).sr
    IN  /\ "C" \in flags <=> s.ac >= s.m
        /\ "Z" \in flags <=> s.ac = s.m
        /\ (("N" \in difference) # ("V" \in difference))
              <=> SignedByte(s.ac) < SignedByte(s.m)

\* ASL low, ROL high doubles a word; LSR high, ROR low halves it; and a
\* rotation one way undoes the other, carry included.
WordsShift ==
    LET low == shift_left(s, "ac")
        high == rotate_left([low EXCEPT !.x = s.x], "x")
        down == rotate_right(shift_right(s, "x"), "ac")
        back == rotate_right(rotate_left(s, "m"), "m")
    IN  /\ Word(high.x, high.ac) + Size * Size * Carry(high.sr)
              = 2 * Word(s.x, s.ac)
        /\ 2 * Word(down.x, down.ac) + Carry(down.sr) = Word(s.x, s.ac)
        /\ back.m = s.m /\ Carry(back.sr) = Carry(s.sr)

\* Each illegal opcode is the legal ones it fuses, to the last flag: ANC takes
\* the carry that an ASL of its result would, SAX stores what an AND of the two
\* registers would give, and ARR, an AND and a ROR, takes C and V from the adder
\* that adds the AND to itself.
IllegalsFuse ==
    LET Then(first, second) ==
            LET t == Executed(first, s, "m") IN Executed(second, t, "m")
    IN  /\ DCP(s) = Then("DEC", "CMP")
        /\ ISB(s) = Then("INC", "SBC")
        /\ RLA(s) = Then("ROL", "AND")
        /\ RRA(s) = Then("ROR", "ADC")
        /\ SLO(s) = Then("ASL", "ORA")
        /\ SRE(s) = Then("LSR", "EOR")
        /\ LAX(s) = Then("LDA", "TAX")
        /\ ALR(s) = LET t == AND(s) IN shift_right(t, "ac")
        /\ LET t == [s EXCEPT !.x = BitAnd(s.ac, s.x)]
               u == CPX(t)
           IN  SBX(s) = Put(u, "x", (t.x + Size - s.m) % Size)
        /\ LET t == AND(s)
           IN  ANC(s) = WithFlag(t, "C", "C" \in shift_left(t, "ac").sr)
        /\ LET t == AND([s EXCEPT !.m = s.x])
           IN  SAX(s) = Store(s, t.ac)
        /\ LET t == AND(s)
               twice == Add(t, t.ac)
               u == rotate_right(t, "ac")
           IN  ARR(s) = WithFlag(WithFlag(u, "C", "C" \in twice.sr),
                                 "V", "V" \in twice.sr)
=============================================================================

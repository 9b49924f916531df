--------------------------- MODULE DataPathProofs ---------------------------
(***************************************************************************)
(* Lemmas about the operators of Alu, and the properties of DataPath, for  *)
(* every word size HalfAssumption allows and every set of opcodes.         *)
(*                                                                         *)
(* A sum of bytes stays below twice Size, so its remainder is a            *)
(* subtraction and the arithmetic is linear; where a product of Size or a  *)
(* bit of a byte matters, the proof goes over the six values               *)
(* HalfAssumption allows.  A record updated in several fields is taken one *)
(* update at a time, each named and then hidden, so that the provers see   *)
(* one field change.  The type invariant is inductive; each of the other   *)
(* properties holds in every state of the type, so it is proved of an      *)
(* arbitrary typed state first.                                            *)
(***************************************************************************)
EXTENDS DataPath, TLAPS

-----------------------------------------------------------------------------
(* Numbers below Size.                                                     *)

\* What the proofs that split on no value of Half need of it.
LEMMA HalfFacts ==
    /\ Half \in Nat /\ Half >= 4 /\ Half \div 2 \in Nat
    /\ Size \in Nat /\ Size = Half + Half
BY HalfAssumption, SMT DEF Size

\* A remainder of a number below twice the divisor.
LEMMA ModOnce ==
    ASSUME NEW n \in Nat, NEW d \in Nat \ {0}, n < d + d
    PROVE  n % d = IF n < d THEN n ELSE n - d
BY SMT

\* The carry is a bit of the status register.
LEMMA CarryBit ==
    ASSUME NEW sr
    PROVE  Carry(sr) \in {0, 1} /\ (Carry(sr) = 1 <=> "C" \in sr)
BY SMT DEF Carry

\* A byte doubled or halved, and the bit that falls off.
LEMMA ShiftedByte ==
    ASSUME NEW v \in Byte, NEW c \in {0, 1}
    PROVE  /\ (2 * v) % Size \in Byte
           /\ ((2 * v) % Size) + c \in Byte
           /\ ((2 * v) % Size) + Size * (IF Negative(v) THEN 1 ELSE 0) = 2 * v
           /\ v \div 2 \in Byte
           /\ (v \div 2) + Half * c \in Byte
           /\ 2 * (v \div 2) + (IF HasBit(v, 1) THEN 1 ELSE 0) = v
           /\ v % Size = v
BY HalfAssumption, SMT DEF Byte, Size, Negative, HasBit

\* A byte incremented, decremented or subtracted from another is a byte.
LEMMA SteppedByte ==
    ASSUME NEW v \in Byte, NEW a \in Byte
    PROVE  /\ (v + 1) % Size \in Byte
           /\ (v + Size - 1) % Size \in Byte
           /\ (a + Size - v) % Size \in Byte
BY HalfAssumption, SMT DEF Byte, Size

\* The conjunction of two bytes is a byte.
LEMMA BitAndByte ==
    ASSUME NEW a \in Byte, NEW b \in Byte
    PROVE  BitAnd(a, b) \in Byte
BY HalfAssumption, SMT DEF BitAnd, Bits, HasBit, Byte, Size

\* So is their disjunction.
LEMMA BitOrByte ==
    ASSUME NEW a \in Byte, NEW b \in Byte
    PROVE  BitOr(a, b) \in Byte
BY HalfAssumption, SMT DEF BitOr, Bits, HasBit, Byte, Size

\* And their difference.
LEMMA BitXorByte ==
    ASSUME NEW a \in Byte, NEW b \in Byte
    PROVE  BitXor(a, b) \in Byte
BY HalfAssumption, SMT DEF BitXor, Bits, HasBit, Byte, Size

-----------------------------------------------------------------------------
(* The status register.                                                    *)

\* set_flag() gives one flag its value and leaves the others.
LEMMA FlagSets ==
    ASSUME NEW sr \in SUBSET Flag, NEW f \in Flag, NEW value \in BOOLEAN
    PROVE  /\ set_flag(sr, f, value) \in SUBSET Flag
           /\ f \in set_flag(sr, f, value) <=> value
           /\ \A g : g # f => (g \in set_flag(sr, f, value) <=> g \in sr)
BY SMT DEF set_flag

\* set_ZN_flags() gives Z and N theirs and leaves C and V.
LEMMA FlagZN ==
    ASSUME NEW sr \in SUBSET Flag, NEW v \in Int
    PROVE  /\ set_ZN_flags(sr, v) \in SUBSET Flag
           /\ "Z" \in set_ZN_flags(sr, v) <=> v = 0
           /\ "N" \in set_ZN_flags(sr, v) <=> v >= Half
           /\ \A g \in {"C", "V"} : g \in set_ZN_flags(sr, v) <=> g \in sr
BY HalfFacts, SMT DEF set_ZN_flags, set_flag, Negative, Flag

\* The second set_ZN_flags() overwrites the first.
LEMMA ZNAgain ==
    ASSUME NEW sr \in SUBSET Flag, NEW v \in Int, NEW w \in Int
    PROVE  set_ZN_flags(set_ZN_flags(sr, v), w) = set_ZN_flags(sr, w)
BY SMT DEF set_ZN_flags, set_flag

\* C and the pair Z, N can be set in either order.
LEMMA ZNAfterC ==
    ASSUME NEW sr \in SUBSET Flag, NEW v \in Int, NEW c \in BOOLEAN
    PROVE  set_ZN_flags(set_flag(sr, "C", c), v) = set_flag(set_ZN_flags(sr, v), "C", c)
BY SMT DEF set_ZN_flags, set_flag

\* So a set_ZN_flags() before a comparison or a shift is lost.
LEMMA ZNBeforeC ==
    ASSUME NEW sr \in SUBSET Flag, NEW v \in Int, NEW w \in Int, NEW c \in BOOLEAN
    PROVE  /\ set_flag(set_ZN_flags(set_ZN_flags(sr, v), w), "C", c)
                = set_ZN_flags(set_flag(sr, "C", c), w)
           /\ set_ZN_flags(set_flag(set_ZN_flags(sr, v), "C", c), w)
                = set_ZN_flags(set_flag(sr, "C", c), w)
           /\ set_flag(set_ZN_flags(sr, w), "C", c)
                = set_ZN_flags(set_flag(sr, "C", c), w)
BY SMT DEF set_ZN_flags, set_flag

\* And one before a sum.
LEMMA ZNBeforeCV ==
    ASSUME NEW sr \in SUBSET Flag, NEW v \in Int, NEW w \in Int,
           NEW c \in BOOLEAN, NEW o \in BOOLEAN
    PROVE  set_ZN_flags(set_flag(set_flag(set_ZN_flags(sr, v), "C", c), "V", o), w)
             = set_ZN_flags(set_flag(set_flag(sr, "C", c), "V", o), w)
BY SMT DEF set_ZN_flags, set_flag

-----------------------------------------------------------------------------
(* Machine states.                                                         *)

\* The fields of a state.
LEMMA RegisterBytes ==
    ASSUME NEW t \in DataState
    PROVE  /\ t.sr \in SUBSET Flag
           /\ t.ac \in Byte /\ t.x \in Byte /\ t.y \in Byte /\ t.m \in Byte
           /\ \A reg \in {"ac", "x", "y", "m"} : t[reg] \in Byte
BY SMT DEF DataState

\* Two states with the same fields are the same state.
LEMMA SameState ==
    ASSUME NEW t \in DataState, NEW u \in DataState,
           t.ac = u.ac, t.x = u.x, t.y = u.y, t.m = u.m, t.sr = u.sr
    PROVE  t = u
BY SMT DEF DataState

\* A register or the operand takes a byte.
LEMMA PlacedState ==
    ASSUME NEW t \in DataState, NEW reg \in {"ac", "x", "y", "m"}, NEW v \in Byte
    PROVE  /\ [t EXCEPT ![reg] = v] \in DataState
           /\ [t EXCEPT ![reg] = v].sr = t.sr
           /\ \A other \in {"ac", "x", "y", "m"} :
                 [t EXCEPT ![reg] = v][other] = IF other = reg THEN v ELSE t[other]
BY SMT DEF DataState

\* The status register is replaced.
LEMMA FlagsState ==
    ASSUME NEW t \in DataState, NEW sr \in SUBSET Flag
    PROVE  /\ [t EXCEPT !.sr = sr] \in DataState
           /\ [t EXCEPT !.sr = sr].sr = sr
BY SMT DEF DataState

\* WithFlag changes the status register alone.
LEMMA WithFlagState ==
    ASSUME NEW t \in DataState, NEW f \in Flag, NEW value \in BOOLEAN
    PROVE  /\ WithFlag(t, f, value) \in DataState
           /\ WithFlag(t, f, value).sr = set_flag(t.sr, f, value)
           /\ \A reg \in {"ac", "x", "y", "m"} : WithFlag(t, f, value)[reg] = t[reg]
<1>1. t.sr \in SUBSET Flag
  BY SMT DEF DataState
<1>2. set_flag(t.sr, f, value) \in SUBSET Flag
  BY <1>1, FlagSets
<1> QED
  BY <1>2, SMT DEF WithFlag, DataState

\* Put changes one register, and the status register with it.
LEMMA PutState ==
    ASSUME NEW t \in DataState, NEW reg \in {"ac", "x", "y", "m"}, NEW v \in Byte
    PROVE  /\ Put(t, reg, v) \in DataState
           /\ Put(t, reg, v).sr = set_ZN_flags(t.sr, v)
           /\ Put(t, reg, v)[reg] = v
           /\ \A other \in {"ac", "x", "y", "m"} \ {reg} : Put(t, reg, v)[other] = t[other]
<1>1. t.sr \in SUBSET Flag /\ v \in Int
  BY HalfFacts, SMT DEF DataState, Byte
<1>2. set_ZN_flags(t.sr, v) \in SUBSET Flag
  BY <1>1, FlagZN
<1> DEFINE w == set_ZN_flags(t.sr, v)
           u == [t EXCEPT ![reg] = v]
<1>3. /\ u \in DataState /\ u.sr = t.sr /\ u[reg] = v
      /\ \A other \in {"ac", "x", "y", "m"} \ {reg} : u[other] = t[other]
  BY SMT DEF DataState
<1>4. Put(t, reg, v) = [u EXCEPT !.sr = w]
  BY <1>3 DEF Put
<1> HIDE DEF u
<1> HIDE DEF w
<1>5. w \in SUBSET Flag
  BY <1>2 DEF w
<1>6. /\ [u EXCEPT !.sr = w] \in DataState
      /\ [u EXCEPT !.sr = w].sr = w
      /\ \A other \in {"ac", "x", "y", "m"} : [u EXCEPT !.sr = w][other] = u[other]
  BY <1>3, <1>5, SMT DEF DataState
<1> QED
  BY <1>3, <1>4, <1>6 DEF w

\* C and V, which a sum sets before Z and N.
LEMMA TwoFlags ==
    ASSUME NEW t \in DataState, NEW c \in BOOLEAN, NEW o \in BOOLEAN
    PROVE  LET u == WithFlag(WithFlag(t, "C", c), "V", o)
           IN  u \in DataState /\ ("C" \in u.sr <=> c) /\ ("V" \in u.sr <=> o)
<1> DEFINE q == WithFlag(t, "C", c)
<1>1. "C" \in Flag /\ "V" \in Flag /\ "C" # "V" /\ t.sr \in SUBSET Flag
  BY DEF Flag, DataState
<1>2. q \in DataState /\ q.sr = set_flag(t.sr, "C", c)
  BY <1>1, WithFlagState
<1>3. q.sr \in SUBSET Flag /\ ("C" \in q.sr <=> c)
  BY <1>1, <1>2, FlagSets
<1> HIDE DEF q
<1>4. /\ WithFlag(q, "V", o) \in DataState
      /\ WithFlag(q, "V", o).sr = set_flag(q.sr, "V", o)
  BY <1>1, <1>2, WithFlagState
<1>5. /\ "V" \in set_flag(q.sr, "V", o) <=> o
      /\ "C" \in set_flag(q.sr, "V", o) <=> "C" \in q.sr
  BY <1>1, <1>3, FlagSets
<1> QED
  BY <1>3, <1>4, <1>5 DEF q

\* A shift sets C, then a byte with its Z and N.
LEMMA ShiftState ==
    ASSUME NEW t \in DataState, NEW reg \in {"ac", "x", "y", "m"},
           NEW c \in BOOLEAN, NEW v \in Byte
    PROVE  LET u == Put(WithFlag(t, "C", c), reg, v)
           IN  /\ u \in DataState /\ u[reg] = v /\ ("C" \in u.sr <=> c)
               /\ \A other \in {"ac", "x", "y", "m"} \ {reg} : u[other] = t[other]
<1> DEFINE q == WithFlag(t, "C", c)
<1>1. t.sr \in SUBSET Flag /\ "C" \in Flag
  BY SMT DEF DataState, Flag
<1>2. /\ q \in DataState /\ q.sr = set_flag(t.sr, "C", c)
      /\ \A other \in {"ac", "x", "y", "m"} : q[other] = t[other]
  BY <1>1, WithFlagState
<1>3. q.sr \in SUBSET Flag /\ ("C" \in q.sr <=> c)
  BY <1>1, <1>2, FlagSets
<1> HIDE DEF q
<1>4. /\ Put(q, reg, v) \in DataState /\ Put(q, reg, v).sr = set_ZN_flags(q.sr, v)
      /\ Put(q, reg, v)[reg] = v
      /\ \A other \in {"ac", "x", "y", "m"} \ {reg} : Put(q, reg, v)[other] = q[other]
  BY <1>2, PutState DEF DataState
<1>5. v \in Int
  BY HalfFacts DEF Byte
<1>6. "C" \in set_ZN_flags(q.sr, v) <=> "C" \in q.sr
  BY <1>3, <1>5, FlagZN
<1> QED
  BY <1>2, <1>3, <1>4, <1>6 DEF q

\* The fused opcodes write C and the operand before ac.
LEMMA FusedState ==
    ASSUME NEW t \in DataState, NEW c \in BOOLEAN, NEW v \in Byte
    PROVE  LET u == [WithFlag(t, "C", c) EXCEPT !.m = v]
           IN  u \in DataState /\ u.ac = t.ac
<1> DEFINE q == WithFlag(t, "C", c)
<1>1. q \in DataState
  BY WithFlagState DEF Flag
<1>2. q.ac = t.ac
  BY WithFlagState DEF Flag
<1> HIDE DEF q
<1>3. [q EXCEPT !.m = v] \in DataState /\ [q EXCEPT !.m = v].ac = q.ac
  BY <1>1, SMT DEF DataState
<1> QED
  BY <1>2, <1>3 DEF q

-----------------------------------------------------------------------------
(* What the operations leave.                                              *)

\* One ADC: the sum with its carry out, and V and N as the code sets them.
LEMMA AddByte ==
    ASSUME NEW t \in DataState, NEW v \in Byte
    PROVE  /\ Add(t, v) \in DataState
           /\ Add(t, v).ac + Size * Carry(Add(t, v).sr) = t.ac + v + Carry(t.sr)
           /\ "V" \in Add(t, v).sr <=>
                 Negative(t.ac) = Negative(v) /\ Negative(t.ac) # Negative(Add(t, v).ac)
           /\ "N" \in Add(t, v).sr <=> Negative(Add(t, v).ac)
<1> DEFINE r == t.ac + v + Carry(t.sr)
           low == r % Size
           c == r >= Size
           o == Negative(t.ac) = Negative(v) /\ Negative(t.ac) # Negative(low)
           u == WithFlag(WithFlag(t, "C", c), "V", o)
<1>1. t.ac \in Byte /\ Carry(t.sr) \in {0, 1} /\ Size \in Nat \ {0}
  BY HalfFacts, CarryBit DEF DataState
<1>2. r \in Nat /\ r < Size + Size
  BY <1>1 DEF Byte
<1>3. low = (IF r < Size THEN r ELSE r - Size) /\ low \in Byte /\ low \in Int
  <2> HIDE DEF r
  <2>1. low = IF r < Size THEN r ELSE r - Size
    BY <1>1, <1>2, ModOnce
  <2> QED
    BY <1>1, <1>2, <2>1 DEF Byte
<1>4. Add(t, v) = Put(u, "ac", low)
  BY DEF Add
<1>5. c \in BOOLEAN /\ o \in BOOLEAN
  BY <1>1, <1>2 DEF Negative
<1>6. /\ u \in DataState /\ ("C" \in u.sr <=> c) /\ ("V" \in u.sr <=> o)
  <2> HIDE DEF c, o
  <2> QED
    BY <1>5, TwoFlags
<1> HIDE DEF u, low
<1>7. /\ Add(t, v) \in DataState /\ Add(t, v).ac = low
      /\ Add(t, v).sr = set_ZN_flags(u.sr, low) /\ u.sr \in SUBSET Flag
  BY <1>3, <1>4, <1>6, PutState DEF DataState
<1>8. /\ "C" \in Add(t, v).sr <=> c
      /\ "V" \in Add(t, v).sr <=> o
      /\ "N" \in Add(t, v).sr <=> low >= Half
  BY <1>3, <1>6, <1>7, FlagZN
<1>9. low + Size * Carry(Add(t, v).sr) = r
  <2> HIDE DEF r
  <2>1. Carry(Add(t, v).sr) = IF r >= Size THEN 1 ELSE 0
    BY <1>8 DEF Carry
  <2> QED
    BY <1>1, <1>2, <1>3, <2>1
<1> QED
  BY <1>7, <1>8, <1>9 DEF Negative

\* One SBC: the sum with the complement of the operand.
LEMMA SubtractByte ==
    ASSUME NEW t \in DataState, NEW v \in Byte
    PROVE  /\ Subtract(t, v) \in DataState
           /\ Subtract(t, v).ac + Size * Carry(Subtract(t, v).sr) = t.ac + (Size - 1 - v) + Carry(t.sr)
           /\ "V" \in Subtract(t, v).sr <=>
                 Negative(t.ac) # Negative(v) /\ Negative(t.ac) # Negative(Subtract(t, v).ac)
           /\ "N" \in Subtract(t, v).sr <=> Negative(Subtract(t, v).ac)
<1> DEFINE r == t.ac + (Size - 1 - v) + Carry(t.sr)
           low == r % Size
           c == r >= Size
           o == Negative(t.ac) # Negative(v) /\ Negative(t.ac) # Negative(low)
           u == WithFlag(WithFlag(t, "C", c), "V", o)
<1>1. t.ac \in Byte /\ Carry(t.sr) \in {0, 1} /\ Size \in Nat \ {0}
  BY HalfFacts, CarryBit DEF DataState
<1>2. r \in Nat /\ r < Size + Size
  BY <1>1 DEF Byte
<1>3. low = (IF r < Size THEN r ELSE r - Size) /\ low \in Byte /\ low \in Int
  <2> HIDE DEF r
  <2>1. low = IF r < Size THEN r ELSE r - Size
    BY <1>1, <1>2, ModOnce
  <2> QED
    BY <1>1, <1>2, <2>1 DEF Byte
<1>4. Subtract(t, v) = Put(u, "ac", low)
  BY DEF Subtract
<1>5. c \in BOOLEAN /\ o \in BOOLEAN
  BY <1>1, <1>2 DEF Negative
<1>6. /\ u \in DataState /\ ("C" \in u.sr <=> c) /\ ("V" \in u.sr <=> o)
  <2> HIDE DEF c, o
  <2> QED
    BY <1>5, TwoFlags
<1> HIDE DEF u, low
<1>7. /\ Subtract(t, v) \in DataState /\ Subtract(t, v).ac = low
      /\ Subtract(t, v).sr = set_ZN_flags(u.sr, low) /\ u.sr \in SUBSET Flag
  BY <1>3, <1>4, <1>6, PutState DEF DataState
<1>8. /\ "C" \in Subtract(t, v).sr <=> c
      /\ "V" \in Subtract(t, v).sr <=> o
      /\ "N" \in Subtract(t, v).sr <=> low >= Half
  BY <1>3, <1>6, <1>7, FlagZN
<1>9. low + Size * Carry(Subtract(t, v).sr) = r
  <2> HIDE DEF r
  <2>1. Carry(Subtract(t, v).sr) = IF r >= Size THEN 1 ELSE 0
    BY <1>8 DEF Carry
  <2> QED
    BY <1>1, <1>2, <1>3, <2>1
<1> QED
  BY <1>7, <1>8, <1>9 DEF Negative

\* A comparison changes the flags alone, and the state keeps its type.
LEMMA CompareState ==
    ASSUME NEW t \in DataState, NEW a \in Byte, NEW v \in Byte
    PROVE  Compare(t, a, v) \in DataState
<1> DEFINE d == (a + Size - v) % Size
           zn == set_ZN_flags(t.sr, d)
           c == a >= v
           sr == set_flag(zn, "C", c)
<1>1. t.sr \in SUBSET Flag /\ c \in BOOLEAN /\ "C" \in Flag
  BY HalfFacts DEF DataState, Byte, Flag
<1>2. d \in Int
  BY SteppedByte, HalfFacts DEF Byte
<1>3. Compare(t, a, v) = [t EXCEPT !.sr = sr]
  BY DEF Compare
<1> HIDE DEF d, c
<1>4. zn \in SUBSET Flag
  BY <1>1, <1>2, FlagZN
<1> HIDE DEF zn
<1>5. sr \in SUBSET Flag
  BY <1>1, <1>4, FlagSets
<1> HIDE DEF sr
<1> QED
  BY <1>3, <1>5, FlagsState

\* The four shifts: the byte and the carry they leave are what they took, doubled or
\* halved, and they touch no other register.
LEMMA Shifts ==
    ASSUME NEW t \in DataState, NEW reg \in {"ac", "x", "y", "m"}
    PROVE  /\ LET u == shift_left(t, reg) IN
              /\ u \in DataState
              /\ u[reg] + Size * Carry(u.sr) = 2 * t[reg]
              /\ \A other \in {"ac", "x", "y", "m"} \ {reg} : u[other] = t[other]
           /\ LET u == rotate_left(t, reg) IN
              /\ u \in DataState
              /\ u[reg] + Size * Carry(u.sr) = 2 * t[reg] + Carry(t.sr)
              /\ \A other \in {"ac", "x", "y", "m"} \ {reg} : u[other] = t[other]
           /\ LET u == shift_right(t, reg) IN
              /\ u \in DataState
              /\ 2 * u[reg] + Carry(u.sr) = t[reg]
              /\ \A other \in {"ac", "x", "y", "m"} \ {reg} : u[other] = t[other]
           /\ LET u == rotate_right(t, reg) IN
              /\ u \in DataState
              /\ 2 * u[reg] + Carry(u.sr) = t[reg] + Size * Carry(t.sr)
              /\ \A other \in {"ac", "x", "y", "m"} \ {reg} : u[other] = t[other]
<1> DEFINE v == t[reg]
           c0 == Carry(t.sr)
           n == Negative(v)
           b == HasBit(v, 1)
           left == (2 * v) % Size
           right == v \div 2
<1>1. v \in Byte /\ c0 \in {0, 1}
  BY RegisterBytes, CarryBit
<1>2. /\ left \in Byte /\ left + c0 \in Byte /\ right \in Byte /\ right + Half * c0 \in Byte
      /\ left + Size * (IF n THEN 1 ELSE 0) = 2 * v
      /\ 2 * right + (IF b THEN 1 ELSE 0) = v
  BY <1>1, ShiftedByte
<1>3. n \in BOOLEAN /\ b \in BOOLEAN
  BY <1>1, HalfFacts DEF Negative, HasBit, Byte
<1>4. /\ shift_left(t, reg) = Put(WithFlag(t, "C", n), reg, left)
      /\ rotate_left(t, reg) = Put(WithFlag(t, "C", n), reg, left + c0)
      /\ shift_right(t, reg) = Put(WithFlag(t, "C", b), reg, right)
      /\ rotate_right(t, reg) = Put(WithFlag(t, "C", b), reg, right + Half * c0)
  BY DEF shift_left, rotate_left, shift_right, rotate_right
<1>5. v \in Int /\ left \in Int /\ right \in Int
  BY <1>1, <1>2, HalfFacts DEF Byte
<1>6. t[reg] = v /\ Carry(t.sr) = c0
  OBVIOUS
<1> HIDE DEF v, c0, n, b, left, right
<1>7. LET u == shift_left(t, reg) IN
      /\ u \in DataState
      /\ u[reg] + Size * Carry(u.sr) = 2 * v
      /\ \A other \in {"ac", "x", "y", "m"} \ {reg} : u[other] = t[other]
  BY <1>2, <1>3, <1>4, ShiftState DEF Carry, DataState
<1>8. LET u == rotate_left(t, reg) IN
      /\ u \in DataState
      /\ u[reg] + Size * Carry(u.sr) = 2 * v + c0
      /\ \A other \in {"ac", "x", "y", "m"} \ {reg} : u[other] = t[other]
  <2> DEFINE u == rotate_left(t, reg)
  <2>1. /\ u \in DataState /\ u[reg] = left + c0 /\ ("C" \in u.sr <=> n)
        /\ \A other \in {"ac", "x", "y", "m"} \ {reg} : u[other] = t[other]
    BY <1>2, <1>3, <1>4, ShiftState DEF DataState
  <2> HIDE DEF u
  <2>2. u[reg] + Size * Carry(u.sr) = 2 * v + c0
    BY <1>1, <1>2, <1>5, <2>1, HalfFacts DEF Carry
  <2> QED
    BY <2>1, <2>2 DEF u
<1>9. LET u == shift_right(t, reg) IN
      /\ u \in DataState
      /\ 2 * u[reg] + Carry(u.sr) = v
      /\ \A other \in {"ac", "x", "y", "m"} \ {reg} : u[other] = t[other]
  BY <1>2, <1>3, <1>4, ShiftState DEF Carry, DataState
<1>10. LET u == rotate_right(t, reg) IN
      /\ u \in DataState
      /\ 2 * u[reg] + Carry(u.sr) = v + Size * c0
      /\ \A other \in {"ac", "x", "y", "m"} \ {reg} : u[other] = t[other]
  <2> DEFINE u == rotate_right(t, reg)
  <2>1. /\ u \in DataState /\ u[reg] = right + Half * c0 /\ ("C" \in u.sr <=> b)
        /\ \A other \in {"ac", "x", "y", "m"} \ {reg} : u[other] = t[other]
    BY <1>2, <1>3, <1>4, ShiftState DEF DataState
  <2> HIDE DEF u
  <2>2. 2 * u[reg] + Carry(u.sr) = v + Size * c0
    BY <1>1, <1>2, <1>5, <2>1, HalfAssumption, SMT DEF Carry, Size
  <2> QED
    BY <2>1, <2>2 DEF u
<1> QED
  BY <1>6, <1>7, <1>8, <1>9, <1>10

\* Under the legal opcodes on one operand the state keeps its type.
LEMMA LegalState ==
    ASSUME NEW t \in DataState
    PROVE  /\ AND(t) \in DataState /\ ORA(t) \in DataState /\ EOR(t) \in DataState
           /\ BIT(t) \in DataState
           /\ CMP(t) \in DataState /\ CPX(t) \in DataState /\ CPY(t) \in DataState
           /\ ADC(t) \in DataState /\ SBC(t) \in DataState
           /\ \A reg \in {"ac", "x", "y", "m"} :
                 Incremented(t, reg) \in DataState /\ Decremented(t, reg) \in DataState
<1>1. /\ t.ac \in Byte /\ t.x \in Byte /\ t.y \in Byte /\ t.m \in Byte
  BY RegisterBytes
<1>2. AND(t) \in DataState /\ ORA(t) \in DataState /\ EOR(t) \in DataState
  BY <1>1, BitAndByte, BitOrByte, BitXorByte, PutState DEF AND, ORA, EOR
<1>3. BIT(t) \in DataState
  <2> DEFINE z == BitAnd(t.ac, t.m) = 0
             n == Negative(t.m)
             o == HasBit(t.m, Half \div 2)
             t1 == WithFlag(t, "Z", z)
             t2 == WithFlag(t1, "N", n)
  <2>1. z \in BOOLEAN /\ n \in BOOLEAN /\ o \in BOOLEAN
    BY <1>1, HalfFacts DEF Negative, HasBit, Byte
  <2>2. BIT(t) = WithFlag(t2, "V", o) /\ {"Z", "N", "V"} \subseteq Flag
    BY DEF BIT, Flag
  <2> HIDE DEF z, n, o
  <2>3. t1 \in DataState
    BY <2>1, <2>2, WithFlagState
  <2> HIDE DEF t1
  <2>4. t2 \in DataState
    BY <2>1, <2>2, <2>3, WithFlagState
  <2> HIDE DEF t2
  <2> QED
    BY <2>1, <2>2, <2>4, WithFlagState
<1>4. CMP(t) \in DataState /\ CPX(t) \in DataState /\ CPY(t) \in DataState
  BY <1>1, CompareState DEF CMP, CPX, CPY
<1>5. ADC(t) \in DataState /\ SBC(t) \in DataState
  BY <1>1, AddByte, SubtractByte DEF ADC, SBC
<1>6. ASSUME NEW reg \in {"ac", "x", "y", "m"}
      PROVE  Incremented(t, reg) \in DataState /\ Decremented(t, reg) \in DataState
  <2>1. (t[reg] + 1) % Size \in Byte /\ (t[reg] + Size - 1) % Size \in Byte
    BY RegisterBytes, SteppedByte
  <2> DEFINE up == (t[reg] + 1) % Size
             down == (t[reg] + Size - 1) % Size
  <2>2. Incremented(t, reg) = Put(t, reg, up) /\ Decremented(t, reg) = Put(t, reg, down)
    BY DEF Incremented, Decremented
  <2> HIDE DEF up, down
  <2>3. up \in Byte /\ down \in Byte
    BY <2>1 DEF up, down
  <2>4. Put(t, reg, up) \in DataState
    BY <2>3, PutState
  <2>5. Put(t, reg, down) \in DataState
    BY <2>3, PutState
  <2> QED
    BY <2>2, <2>4, <2>5
<1> QED
  BY <1>2, <1>3, <1>4, <1>5, <1>6

\* Under the illegal ones too.
LEMMA IllegalState ==
    ASSUME NEW t \in DataState
    PROVE  /\ ALR(t) \in DataState /\ ANC(t) \in DataState /\ ARR(t) \in DataState
           /\ DCP(t) \in DataState /\ ISB(t) \in DataState /\ LAX(t) \in DataState
           /\ RLA(t) \in DataState /\ RRA(t) \in DataState /\ SAX(t) \in DataState
           /\ SBX(t) \in DataState /\ SLO(t) \in DataState /\ SRE(t) \in DataState
<1> DEFINE a == BitAnd(t.ac, t.m)
           masked == [t EXCEPT !.ac = a]
           n == Negative(t.m)
           b == HasBit(t.m, 1)
<1>1. /\ t.ac \in Byte /\ t.x \in Byte /\ t.y \in Byte /\ t.m \in Byte
      /\ t.sr \in SUBSET Flag /\ Carry(t.sr) \in {0, 1}
  BY RegisterBytes, CarryBit
<1>2. n \in BOOLEAN /\ b \in BOOLEAN
  BY <1>1, HalfFacts DEF Negative, HasBit, Byte
<1>3. a \in Byte
  BY <1>1, BitAndByte
<1>4. masked \in DataState
  <2> HIDE DEF a
  <2> QED
    BY <1>3, SMT DEF DataState
<1>5. ALR(t) \in DataState
  <2>1. ALR(t) = shift_right(masked, "ac")
    BY DEF ALR
  <2> HIDE DEF masked
  <2> QED
    BY <2>1, <1>4, Shifts
<1>6. ANC(t) \in DataState
  <2> DEFINE p == Put(t, "ac", a)
             f == Negative(a)
  <2>1. ANC(t) = WithFlag(p, "C", f) /\ "C" \in Flag
    BY DEF ANC, Flag
  <2>2. f \in BOOLEAN
    BY DEF Negative
  <2> HIDE DEF a, f
  <2>3. p \in DataState
    BY <1>3, PutState
  <2> HIDE DEF p
  <2> QED
    BY <2>1, <2>2, <2>3, WithFlagState
<1>7. ARR(t) \in DataState
  <2> DEFINE r == rotate_right(masked, "ac")
             f == HasBit(r.ac, Half \div 2)
             g == HasBit(r.ac, Half \div 2) # HasBit(r.ac, Half \div 4)
             q == WithFlag(r, "C", f)
  <2>1. ARR(t) = WithFlag(q, "V", g) /\ "C" \in Flag /\ "V" \in Flag
    BY DEF ARR, Flag
  <2>2. f \in BOOLEAN /\ g \in BOOLEAN
    BY DEF HasBit
  <2> HIDE DEF masked, f, g
  <2>3. r \in DataState
    BY <1>4, Shifts
  <2> HIDE DEF r
  <2>4. q \in DataState
    BY <2>1, <2>2, <2>3, WithFlagState
  <2> HIDE DEF q
  <2> QED
    BY <2>1, <2>2, <2>4, WithFlagState
<1>8. DCP(t) \in DataState
  <2> DEFINE v == (t.m + Size - 1) % Size
             d == (t.ac + Size - v) % Size
             c == t.ac >= v
             f == set_flag(t.sr, "C", c)
             sr == set_ZN_flags(f, d)
             p == [t EXCEPT !.m = v]
  <2>1. DCP(t) = [p EXCEPT !.sr = sr]
    BY SMT DEF DCP, DataState
  <2>2. v \in Byte
    BY <1>1, SteppedByte
  <2> HIDE DEF v
  <2>3. d \in Int /\ c \in BOOLEAN /\ "C" \in Flag
    BY <1>1, <2>2, SteppedByte, HalfFacts DEF Byte, Flag
  <2> HIDE DEF d, c
  <2>4. f \in SUBSET Flag
    BY <1>1, <2>3, FlagSets
  <2> HIDE DEF f
  <2>5. sr \in SUBSET Flag
    BY <2>3, <2>4, FlagZN
  <2> HIDE DEF sr
  <2>6. p \in DataState
    BY <2>2, PlacedState
  <2> HIDE DEF p
  <2> QED
    BY <2>1, <2>5, <2>6, FlagsState
<1>9. ISB(t) \in DataState
  <2> DEFINE v == (t.m + 1) % Size
             p == [t EXCEPT !.m = v]
  <2>1. ISB(t) = Subtract(p, v)
    BY DEF ISB
  <2>2. v \in Byte
    BY <1>1, SteppedByte
  <2> HIDE DEF v
  <2>3. p \in DataState
    BY <2>2, PlacedState
  <2> HIDE DEF p
  <2> QED
    BY <2>1, <2>2, <2>3, SubtractByte
<1>10. LAX(t) \in DataState
  <2> DEFINE p == [t EXCEPT !.ac = t.m]
             q == [p EXCEPT !.x = t.m]
             sr == set_ZN_flags(t.sr, t.m)
  <2>1. LAX(t) = [q EXCEPT !.sr = sr]
    BY SMT DEF LAX, DataState
  <2>2. sr \in SUBSET Flag
    BY <1>1, FlagZN, HalfFacts DEF Byte
  <2> HIDE DEF sr
  <2>3. p \in DataState
    BY <1>1, PlacedState
  <2> HIDE DEF p
  <2>4. q \in DataState
    BY <1>1, <2>3, PlacedState
  <2> HIDE DEF q
  <2> QED
    BY <2>1, <2>2, <2>4, FlagsState
<1>11. RLA(t) \in DataState /\ SLO(t) \in DataState
  <2> DEFINE v == ((2 * t.m) % Size) + Carry(t.sr)
             w == (2 * t.m) % Size
             p == [WithFlag(t, "C", n) EXCEPT !.m = v]
             q == [WithFlag(t, "C", n) EXCEPT !.m = w]
  <2>1. RLA(t) = Put(p, "ac", BitAnd(t.ac, v)) /\ SLO(t) = Put(q, "ac", BitOr(t.ac, w))
    BY DEF RLA, SLO
  <2>2. v \in Byte /\ w \in Byte
    BY <1>1, ShiftedByte
  <2> HIDE DEF n, v, w
  <2>3. BitAnd(t.ac, v) \in Byte /\ BitOr(t.ac, w) \in Byte
    BY <1>1, <2>2, BitAndByte, BitOrByte
  <2>4. p \in DataState
    BY <1>2, <2>2, FusedState
  <2>5. q \in DataState
    BY <1>2, <2>2, FusedState
  <2> HIDE DEF p, q
  <2> QED
    BY <2>1, <2>3, <2>4, <2>5, PutState
<1>12. RRA(t) \in DataState /\ SRE(t) \in DataState
  <2> DEFINE v == (t.m \div 2) + Half * Carry(t.sr)
             w == t.m \div 2
             p == [WithFlag(t, "C", b) EXCEPT !.m = v]
             q == [WithFlag(t, "C", b) EXCEPT !.m = w]
  <2>1. RRA(t) = Add(p, v) /\ SRE(t) = Put(q, "ac", BitXor(t.ac, w))
    BY DEF RRA, SRE
  <2>2. v \in Byte /\ w \in Byte
    BY <1>1, ShiftedByte
  <2> HIDE DEF b, v, w
  <2>3. BitXor(t.ac, w) \in Byte
    BY <1>1, <2>2, BitXorByte
  <2>4. p \in DataState
    BY <1>2, <2>2, FusedState
  <2>5. q \in DataState
    BY <1>2, <2>2, FusedState
  <2> HIDE DEF p, q
  <2>6. RRA(t) \in DataState
    BY <2>1, <2>2, <2>4, AddByte
  <2> QED
    BY <2>1, <2>3, <2>5, <2>6, PutState
<1>13. SAX(t) \in DataState /\ SBX(t) \in DataState
  <2> DEFINE e == BitAnd(t.ac, t.x)
             d == (e + Size - t.m) % Size
             c == e >= t.m
             p == Put(t, "x", d)
  <2>1. /\ SAX(t) = [t EXCEPT !.m = e]
        /\ SBX(t) = WithFlag(p, "C", c) /\ "C" \in Flag
    BY DEF SAX, Store, SBX, Flag
  <2>2. e \in Byte
    BY <1>1, BitAndByte
  <2> HIDE DEF e
  <2>3. d \in Byte
    BY <1>1, <2>2, SteppedByte
  <2>4. c \in BOOLEAN
    BY <1>1, <2>2, HalfFacts DEF Byte
  <2> HIDE DEF d, c
  <2>5. p \in DataState
    BY <2>3, PutState
  <2> HIDE DEF p
  <2>6. SBX(t) \in DataState
    BY <2>1, <2>4, <2>5, WithFlagState
  <2>7. SAX(t) \in DataState
    BY <2>1, <2>2, PlacedState
  <2> QED
    BY <2>6, <2>7
<1> QED
  BY <1>5, <1>6, <1>7, <1>8, <1>9, <1>10, <1>11, <1>12, <1>13

-----------------------------------------------------------------------------
(* The switch of execute_instruction().                                    *)

\* The arm each opcode takes (the shifts apart, which take a mode).
LEMMA Arms ==
    ASSUME NEW t, NEW reg
    PROVE  /\ Executed("ADC", t, reg) = ADC(t)
           /\ Executed("SBC", t, reg) = SBC(t)
           /\ Executed("AND", t, reg) = AND(t)
           /\ Executed("ORA", t, reg) = ORA(t)
           /\ Executed("EOR", t, reg) = EOR(t)
           /\ Executed("BIT", t, reg) = BIT(t)
           /\ Executed("CMP", t, reg) = CMP(t)
           /\ Executed("CPX", t, reg) = CPX(t)
           /\ Executed("CPY", t, reg) = CPY(t)
           /\ Executed("INC", t, reg) = Incremented(t, "m")
           /\ Executed("INX", t, reg) = Incremented(t, "x")
           /\ Executed("INY", t, reg) = Incremented(t, "y")
           /\ Executed("DEC", t, reg) = Decremented(t, "m")
           /\ Executed("DEX", t, reg) = Decremented(t, "x")
           /\ Executed("DEY", t, reg) = Decremented(t, "y")
           /\ Executed("LDA", t, reg) = Put(t, "ac", t.m)
           /\ Executed("LDX", t, reg) = Put(t, "x", t.m)
           /\ Executed("LDY", t, reg) = Put(t, "y", t.m)
           /\ Executed("STA", t, reg) = Store(t, t.ac)
           /\ Executed("STX", t, reg) = Store(t, t.x)
           /\ Executed("STY", t, reg) = Store(t, t.y)
           /\ Executed("TAX", t, reg) = Put(t, "x", t.ac)
           /\ Executed("TAY", t, reg) = Put(t, "y", t.ac)
           /\ Executed("TXA", t, reg) = Put(t, "ac", t.x)
           /\ Executed("TYA", t, reg) = Put(t, "ac", t.y)
           /\ Executed("CLC", t, reg) = WithFlag(t, "C", FALSE)
           /\ Executed("CLD", t, reg) = WithFlag(t, "D", FALSE)
           /\ Executed("CLI", t, reg) = WithFlag(t, "I", FALSE)
           /\ Executed("CLV", t, reg) = WithFlag(t, "V", FALSE)
           /\ Executed("SEC", t, reg) = WithFlag(t, "C", TRUE)
           /\ Executed("SED", t, reg) = WithFlag(t, "D", TRUE)
           /\ Executed("SEI", t, reg) = WithFlag(t, "I", TRUE)
           /\ Executed("NOP", t, reg) = t
           /\ Executed("ALR", t, reg) = ALR(t)
           /\ Executed("ANC", t, reg) = ANC(t)
           /\ Executed("ARR", t, reg) = ARR(t)
           /\ Executed("DCP", t, reg) = DCP(t)
           /\ Executed("ISB", t, reg) = ISB(t)
           /\ Executed("LAX", t, reg) = LAX(t)
           /\ Executed("RLA", t, reg) = RLA(t)
           /\ Executed("RRA", t, reg) = RRA(t)
           /\ Executed("SAX", t, reg) = SAX(t)
           /\ Executed("SBX", t, reg) = SBX(t)
           /\ Executed("SLO", t, reg) = SLO(t)
           /\ Executed("SRE", t, reg) = SRE(t)
BY SMTT(60) DEF Executed, Loaded, Stored, Moved, Cleared, Raised

\* Under every opcode the state keeps its type.
LEMMA ExecutedState ==
    ASSUME NEW t \in DataState, NEW op \in DataOps, NEW reg \in {"ac", "m"}
    PROVE  Executed(op, t, reg) \in DataState
<1>1. /\ t.ac \in Byte /\ t.x \in Byte /\ t.y \in Byte /\ t.m \in Byte
  BY RegisterBytes
<1>2. /\ Executed("ADC", t, reg) \in DataState /\ Executed("SBC", t, reg) \in DataState
      /\ Executed("AND", t, reg) \in DataState /\ Executed("ORA", t, reg) \in DataState
      /\ Executed("EOR", t, reg) \in DataState /\ Executed("BIT", t, reg) \in DataState
      /\ Executed("CMP", t, reg) \in DataState /\ Executed("CPX", t, reg) \in DataState
      /\ Executed("CPY", t, reg) \in DataState /\ Executed("NOP", t, reg) \in DataState
  BY Arms, LegalState
<1>3. /\ Executed("ASL", t, reg) \in DataState /\ Executed("LSR", t, reg) \in DataState
      /\ Executed("ROL", t, reg) \in DataState /\ Executed("ROR", t, reg) \in DataState
  <2>1. /\ shift_left(t, reg) \in DataState /\ shift_right(t, reg) \in DataState
        /\ rotate_left(t, reg) \in DataState /\ rotate_right(t, reg) \in DataState
    BY Shifts
  <2>2. /\ Executed("ASL", t, reg) = shift_left(t, reg)
        /\ Executed("LSR", t, reg) = shift_right(t, reg)
        /\ Executed("ROL", t, reg) = rotate_left(t, reg)
        /\ Executed("ROR", t, reg) = rotate_right(t, reg)
    BY SMT DEF Executed, Loaded, Stored, Moved, Cleared, Raised
  <2> QED
    BY <2>1, <2>2
<1>4. /\ Executed("INC", t, reg) \in DataState /\ Executed("INX", t, reg) \in DataState
      /\ Executed("INY", t, reg) \in DataState /\ Executed("DEC", t, reg) \in DataState
      /\ Executed("DEX", t, reg) \in DataState /\ Executed("DEY", t, reg) \in DataState
  BY Arms, LegalState
<1>5. /\ Executed("LDA", t, reg) \in DataState /\ Executed("LDX", t, reg) \in DataState
      /\ Executed("LDY", t, reg) \in DataState /\ Executed("TAX", t, reg) \in DataState
      /\ Executed("TAY", t, reg) \in DataState /\ Executed("TXA", t, reg) \in DataState
      /\ Executed("TYA", t, reg) \in DataState
  <2>1. \A r \in {"ac", "x", "y", "m"}, v \in Byte : Put(t, r, v) \in DataState
    BY PutState
  <2> QED
    BY <1>1, <2>1, Arms
<1>6. /\ Executed("STA", t, reg) \in DataState /\ Executed("STX", t, reg) \in DataState
      /\ Executed("STY", t, reg) \in DataState
  <2>1. \A v \in Byte : Store(t, v) \in DataState
    BY PlacedState DEF Store
  <2> QED
    BY <1>1, <2>1, Arms
<1>7. /\ Executed("CLC", t, reg) \in DataState /\ Executed("CLD", t, reg) \in DataState
      /\ Executed("CLI", t, reg) \in DataState /\ Executed("CLV", t, reg) \in DataState
      /\ Executed("SEC", t, reg) \in DataState /\ Executed("SED", t, reg) \in DataState
      /\ Executed("SEI", t, reg) \in DataState
  <2>1. \A f \in Flag, value \in BOOLEAN : WithFlag(t, f, value) \in DataState
    BY WithFlagState
  <2> QED
    BY <2>1, Arms DEF Flag
<1>8. /\ Executed("ALR", t, reg) \in DataState /\ Executed("ANC", t, reg) \in DataState
      /\ Executed("ARR", t, reg) \in DataState /\ Executed("DCP", t, reg) \in DataState
      /\ Executed("ISB", t, reg) \in DataState /\ Executed("LAX", t, reg) \in DataState
      /\ Executed("RLA", t, reg) \in DataState /\ Executed("RRA", t, reg) \in DataState
      /\ Executed("SAX", t, reg) \in DataState /\ Executed("SBX", t, reg) \in DataState
      /\ Executed("SLO", t, reg) \in DataState /\ Executed("SRE", t, reg) \in DataState
  BY Arms, IllegalState
<1> QED
  BY <1>2, <1>3, <1>4, <1>5, <1>6, <1>7, <1>8 DEF DataOps

-----------------------------------------------------------------------------
(* The two writings of a fused operation.                                  *)

\* A shift of the operand, then a logical opcode on ac: the Z and N of the first are lost.
LEMMA FusedPut ==
    ASSUME NEW t \in DataState, NEW c \in BOOLEAN, NEW v \in Byte, NEW w \in Byte
    PROVE  Put([WithFlag(t, "C", c) EXCEPT !.m = v], "ac", w)
             = Put(Put(WithFlag(t, "C", c), "m", v), "ac", w)
<1> DEFINE q == WithFlag(t, "C", c)
           p == [q EXCEPT !.m = v]
           r == Put(q, "m", v)
<1>1. q \in DataState /\ q.sr \in SUBSET Flag
  BY WithFlagState, RegisterBytes DEF Flag
<1> HIDE DEF q
<1>2. /\ p \in DataState /\ p.sr = q.sr
      /\ p.ac = q.ac /\ p.x = q.x /\ p.y = q.y /\ p.m = v
  BY <1>1, SMT DEF DataState
<1>3. /\ r \in DataState /\ r.sr = set_ZN_flags(q.sr, v) /\ r.m = v
      /\ r.ac = q.ac /\ r.x = q.x /\ r.y = q.y
  BY <1>1, PutState DEF DataState
<1> HIDE DEF p, r
<1>4. /\ Put(p, "ac", w) \in DataState /\ Put(p, "ac", w).sr = set_ZN_flags(p.sr, w)
      /\ Put(p, "ac", w).ac = w /\ Put(p, "ac", w).x = p.x
      /\ Put(p, "ac", w).y = p.y /\ Put(p, "ac", w).m = p.m
  BY <1>2, PutState DEF DataState
<1>5. /\ Put(r, "ac", w) \in DataState /\ Put(r, "ac", w).sr = set_ZN_flags(r.sr, w)
      /\ Put(r, "ac", w).ac = w /\ Put(r, "ac", w).x = r.x
      /\ Put(r, "ac", w).y = r.y /\ Put(r, "ac", w).m = r.m
  BY <1>3, PutState DEF DataState
<1>6. set_ZN_flags(p.sr, w) = set_ZN_flags(r.sr, w)
  BY <1>1, <1>2, <1>3, ZNAgain, HalfFacts DEF Byte
<1>7. Put(p, "ac", w) = Put(r, "ac", w)
  BY <1>2, <1>3, <1>4, <1>5, <1>6, SameState
<1> QED
  BY <1>7 DEF p, q, r

\* What the last step of a sum leaves depends on the flags before only in I, D, B and U.
LEMMA SumPut ==
    ASSUME NEW p \in DataState, NEW q \in DataState, NEW v \in Int,
           p.x = q.x, p.y = q.y, p.m = q.m, p.sr = set_ZN_flags(q.sr, v),
           NEW c \in BOOLEAN, NEW o \in BOOLEAN, NEW w \in Byte
    PROVE  Put(WithFlag(WithFlag(p, "C", c), "V", o), "ac", w)
             = Put(WithFlag(WithFlag(q, "C", c), "V", o), "ac", w)
<1> DEFINE Summed(t) == Put(WithFlag(WithFlag(t, "C", c), "V", o), "ac", w)
<1>1. ASSUME NEW t \in DataState
      PROVE  /\ Summed(t) \in DataState
             /\ Summed(t).ac = w /\ Summed(t).x = t.x /\ Summed(t).y = t.y /\ Summed(t).m = t.m
             /\ Summed(t).sr = set_ZN_flags(set_flag(set_flag(t.sr, "C", c), "V", o), w)
  <2> DEFINE t1 == WithFlag(t, "C", c)
             t2 == WithFlag(t1, "V", o)
  <2>1. "C" \in Flag /\ "V" \in Flag
    BY DEF Flag
  <2>2. /\ t1 \in DataState /\ t1.sr = set_flag(t.sr, "C", c)
        /\ t1.x = t.x /\ t1.y = t.y /\ t1.m = t.m
    BY <2>1, WithFlagState
  <2> HIDE DEF t1
  <2>3. /\ t2 \in DataState /\ t2.sr = set_flag(t1.sr, "V", o)
        /\ t2.x = t1.x /\ t2.y = t1.y /\ t2.m = t1.m
    BY <2>1, <2>2, WithFlagState
  <2> HIDE DEF t2
  <2>4. /\ Put(t2, "ac", w) \in DataState /\ Put(t2, "ac", w).sr = set_ZN_flags(t2.sr, w)
        /\ Put(t2, "ac", w).ac = w /\ Put(t2, "ac", w).x = t2.x
        /\ Put(t2, "ac", w).y = t2.y /\ Put(t2, "ac", w).m = t2.m
    BY <2>3, PutState DEF DataState
  <2> QED
    BY <2>2, <2>3, <2>4 DEF t1, t2
<1>2. q.sr \in SUBSET Flag /\ w \in Int
  BY RegisterBytes, HalfFacts DEF Byte
<1>3. set_ZN_flags(set_flag(set_flag(p.sr, "C", c), "V", o), w)
        = set_ZN_flags(set_flag(set_flag(q.sr, "C", c), "V", o), w)
  BY <1>2, ZNBeforeCV
<1> HIDE DEF Summed
<1>4. Summed(p) = Summed(q)
  BY <1>1, <1>3, SameState
<1> QED
  BY <1>4 DEF Summed

\* A sum forgets the Z and N of the operand's own change.
LEMMA SumForgets ==
    ASSUME NEW t \in DataState, NEW v \in Byte
    PROVE  /\ Add(Put(t, "m", v), v) = Add([t EXCEPT !.m = v], v)
           /\ Subtract(Put(t, "m", v), v) = Subtract([t EXCEPT !.m = v], v)
<1> DEFINE p == Put(t, "m", v)
           q == [t EXCEPT !.m = v]
<1>1. /\ p \in DataState /\ p.sr = set_ZN_flags(t.sr, v)
      /\ p.ac = t.ac /\ p.x = t.x /\ p.y = t.y /\ p.m = v
  BY PutState DEF DataState
<1>2. /\ q \in DataState /\ q.sr = t.sr
      /\ q.ac = t.ac /\ q.x = t.x /\ q.y = t.y /\ q.m = v
  BY SMT DEF DataState
<1>3. v \in Int /\ t.sr \in SUBSET Flag /\ t.ac \in Byte /\ Carry(t.sr) \in {0, 1}
  BY RegisterBytes, CarryBit, HalfFacts DEF Byte
<1>4. Carry(p.sr) = Carry(t.sr) /\ Carry(q.sr) = Carry(t.sr)
  BY <1>1, <1>2, <1>3, FlagZN DEF Carry
<1> HIDE DEF p, q
<1>5. Add(p, v) = Add(q, v)
  <2> DEFINE r == t.ac + v + Carry(t.sr)
             low == r % Size
             c == r >= Size
             o == Negative(t.ac) = Negative(v) /\ Negative(t.ac) # Negative(low)
  <2>1. /\ Add(p, v) = Put(WithFlag(WithFlag(p, "C", c), "V", o), "ac", low)
        /\ Add(q, v) = Put(WithFlag(WithFlag(q, "C", c), "V", o), "ac", low)
    BY <1>1, <1>2, <1>4 DEF Add
  <2>2. c \in BOOLEAN /\ o \in BOOLEAN /\ low \in Byte
    BY <1>3, HalfAssumption, SMT DEF Negative, Byte, Size
  <2> HIDE DEF c, o, low
  <2> QED
    BY <1>1, <1>2, <1>3, <2>1, <2>2, SumPut
<1>6. Subtract(p, v) = Subtract(q, v)
  <2> DEFINE r == t.ac + (Size - 1 - v) + Carry(t.sr)
             low == r % Size
             c == r >= Size
             o == Negative(t.ac) # Negative(v) /\ Negative(t.ac) # Negative(low)
  <2>1. /\ Subtract(p, v) = Put(WithFlag(WithFlag(p, "C", c), "V", o), "ac", low)
        /\ Subtract(q, v) = Put(WithFlag(WithFlag(q, "C", c), "V", o), "ac", low)
    BY <1>1, <1>2, <1>4 DEF Subtract
  <2>2. c \in BOOLEAN /\ o \in BOOLEAN /\ low \in Byte
    BY <1>3, HalfAssumption, SMT DEF Negative, Byte, Size
  <2> HIDE DEF c, o, low
  <2> QED
    BY <1>1, <1>2, <1>3, <2>1, <2>2, SumPut
<1> QED
  BY <1>5, <1>6 DEF p, q

-----------------------------------------------------------------------------
(* Types.                                                                  *)

\* Whatever the ROM executes, the registers and the operand hold bytes and the status
\* register holds flags.
THEOREM DataTypes == DataSpec => []DataTypeOK
<1>1. DataInit => DataTypeOK
  BY HalfAssumption, SMT DEF DataInit, DataTypeOK, DataState, Byte, Size, Flag
<1>2. DataTypeOK /\ [DataNext]_s => DataTypeOK'
  <2> SUFFICES ASSUME DataTypeOK, [DataNext]_s
               PROVE  DataTypeOK'
    OBVIOUS
  <2>1. s \in DataState
    BY DEF DataTypeOK
  <2>2. CASE Elsewhere
    <3>1. PICK v \in Byte : s' = [s EXCEPT !.m = v]
      BY <2>2 DEF Elsewhere
    <3> QED
      BY <2>1, <3>1, PlacedState DEF DataTypeOK
  <2>3. CASE OnOperand
    BY <2>1, <2>3, OpcodesAssumption, ExecutedState DEF OnOperand, DataTypeOK
  <2>4. CASE OnAccumulator
    BY <2>1, <2>4, OpcodesAssumption, ExecutedState DEF OnAccumulator, DataTypeOK
  <2>5. CASE UNCHANGED s
    BY <2>5 DEF DataTypeOK
  <2> QED
    BY <2>2, <2>3, <2>4, <2>5 DEF DataNext
<1> QED
  BY <1>1, <1>2, PTL DEF DataSpec

-----------------------------------------------------------------------------
(* Sums of words.                                                          *)

\* The arm of ADC.
LEMMA ExecutedADC ==
    ASSUME NEW t, NEW reg
    PROVE  Executed("ADC", t, reg) = ADC(t)
BY SMT DEF Executed, Loaded, Stored, Moved, Cleared, Raised

\* The arm of SBC.
LEMMA ExecutedSBC ==
    ASSUME NEW t, NEW reg
    PROVE  Executed("SBC", t, reg) = SBC(t)
BY SMT DEF Executed, Loaded, Stored, Moved, Cleared, Raised

\* A sum of signed digits fits in a digit exactly when the sum of words whose high
\* digits they are fits in a word.
LEMMA WordScale ==
    ASSUME NEW k \in Int, NEW l \in Byte
    PROVE  Size * k + l \in WordRange <=> k \in (0 - Half) .. (Half - 1)
BY HalfAssumption, SMT DEF WordRange, Size, Byte

\* The sign of a word is that of its high byte.
LEMMA SignedWordBytes ==
    ASSUME NEW h \in Byte, NEW l \in Byte
    PROVE  /\ SignedWord(Word(h, l)) = Size * SignedByte(h) + l
           /\ SignedByte(h) \in Int
BY HalfAssumption, SMT DEF SignedWord, Word, SignedByte, Negative, Size, Byte

\* The operands of the second step of a two-byte operation.
LEMMA HighOperands ==
    ASSUME s \in DataState, NEW c \in SUBSET Flag
    PROVE  LET t == [s EXCEPT !.ac = s.x, !.m = s.y, !.sr = c]
           IN  t \in DataState /\ t.ac = s.x /\ t.m = s.y /\ t.sr = c
<1> DEFINE p == [s EXCEPT !.ac = s.x]
           q == [p EXCEPT !.m = s.y]
<1>1. p \in DataState /\ p.ac = s.x /\ s.y \in Byte
  BY SMT DEF DataState
<1>2. [s EXCEPT !.ac = s.x, !.m = s.y, !.sr = c] = [q EXCEPT !.sr = c]
  OBVIOUS
<1> HIDE DEF p
<1>3. q \in DataState /\ q.ac = s.x /\ q.m = s.y
  BY <1>1, SMT DEF DataState
<1> HIDE DEF q
<1>4. /\ [q EXCEPT !.sr = c] \in DataState /\ [q EXCEPT !.sr = c].sr = c
      /\ [q EXCEPT !.sr = c].ac = q.ac /\ [q EXCEPT !.sr = c].m = q.m
  BY <1>3, SMT DEF DataState
<1> QED
  BY <1>2, <1>3, <1>4

\* The sum of complements is the difference with a borrow: of words ...
LEMMA BorrowOfWords ==
    ASSUME NEW w \in Int, NEW x \in Int, NEW y \in Int, NEW a \in Int, NEW b \in Int,
           NEW c0 \in {0, 1}, NEW c2 \in {0, 1},
           w + Size * Size * c2
             = Size * (x + (Size - 1 - y)) + (a + (Size - 1 - b) + c0)
    PROVE  w = (Size * x + a) - (Size * y + b) - (1 - c0) + Size * Size * (1 - c2)
BY HalfAssumption, SMT DEF Size

\* ... and of signed high digits.
LEMMA BorrowOfDigits ==
    ASSUME NEW low \in Int, NEW x \in Int, NEW y \in Int, NEW a \in Int, NEW b \in Int,
           NEW c0 \in {0, 1}, NEW c1 \in {0, 1},
           low + Size * c1 = a + (Size - 1 - b) + c0
    PROVE  (Size * x + a) - (Size * y + b) - (1 - c0) = Size * (x - y - 1 + c1) + low
BY HalfAssumption, SMT DEF Size

\* In every state two ADCs add two words.
LEMMA AddWords ==
    ASSUME DataTypeOK
    PROVE  WordsAdd
<1> DEFINE low == Add(s, s.m)
           t == [s EXCEPT !.ac = s.x, !.m = s.y, !.sr = low.sr]
           high == Add(t, s.y)
           c0 == Carry(s.sr)
           c1 == Carry(low.sr)
           c2 == Carry(high.sr)
<1>0. s \in DataState
  BY DEF DataTypeOK
<1>1. s.ac \in Byte /\ s.x \in Byte /\ s.y \in Byte /\ s.m \in Byte /\ s.sr \in SUBSET Flag
  BY <1>0, SMT DEF DataState
<1>2. /\ low \in DataState /\ low.ac \in Byte /\ low.sr \in SUBSET Flag
      /\ low.ac + Size * c1 = s.ac + s.m + c0
  BY <1>0, <1>1, AddByte, SMT DEF DataState
<1>3. t \in DataState /\ t.ac = s.x /\ t.m = s.y /\ t.sr = low.sr
  BY <1>0, <1>2, HighOperands
<1>4. /\ high.ac \in Byte /\ high.ac + Size * c2 = s.x + s.y + c1
      /\ "V" \in high.sr <=> Negative(s.x) = Negative(s.y) /\ Negative(s.x) # Negative(high.ac)
  <2> HIDE DEF t
  <2> QED
    BY <1>1, <1>3, AddByte DEF DataState
<1>5. LowPart("ADC") = low
  BY ExecutedADC DEF LowPart, ADC
<1>6. HighPart("ADC") = high
  BY <1>3, <1>5, ExecutedADC DEF HighPart, ADC
<1>7. c0 \in {0, 1} /\ c1 \in {0, 1} /\ c2 \in {0, 1}
  BY CarryBit
<1> HIDE DEF low, t, high, c0, c1, c2
<1>8. Word(high.ac, low.ac) + Size * Size * c2 = Word(s.x, s.ac) + Word(s.y, s.m) + c0
  <2>1. Word(high.ac, low.ac) + Size * Size * c2
          = Size * (s.x + s.y) + (s.ac + s.m + c0)
    <3> DEFINE h == high.ac
               l == low.ac
               a == s.x + s.y
               b == s.ac + s.m + c0
    <3>1. h \in Nat /\ l \in Nat /\ a \in Int /\ b \in Int
      BY <1>1, <1>2, <1>4, <1>7, HalfFacts DEF Byte
    <3>2. l + Size * c1 = b /\ h + Size * c2 = a + c1
      BY <1>2, <1>4
    <3> HIDE DEF a, b, h, l
    <3>3. Word(h, l) + Size * Size * c2 = Size * a + b
      BY <1>7, <3>1, <3>2, HalfAssumption, SMT DEF Word, Size
    <3> QED
      BY <3>3 DEF a, b, h, l
  <2> QED
    BY <2>1, <1>1, <1>7, HalfFacts DEF Word, Byte
<1>9. "V" \in high.sr <=>
         SignedByte(s.x) + SignedByte(s.y) + c1 \notin (0 - Half) .. (Half - 1)
  BY <1>1, <1>4, <1>7, HalfFacts, SMT DEF SignedByte, Negative, Byte
<1>10. SignedWord(Word(s.x, s.ac)) + SignedWord(Word(s.y, s.m)) + c0
         = Size * (SignedByte(s.x) + SignedByte(s.y) + c1) + low.ac
  <2>1. /\ SignedWord(Word(s.x, s.ac)) = Size * SignedByte(s.x) + s.ac
        /\ SignedWord(Word(s.y, s.m)) = Size * SignedByte(s.y) + s.m
        /\ SignedByte(s.x) \in Int /\ SignedByte(s.y) \in Int
    BY <1>1, SignedWordBytes
  <2> QED
    BY <2>1, <1>1, <1>2, <1>7, HalfFacts, SMT DEF Byte
<1>11. SignedByte(s.x) + SignedByte(s.y) + c1 \in Int
  BY <1>1, <1>7, SignedWordBytes
<1>12. "V" \in high.sr <=>
         SignedWord(Word(s.x, s.ac)) + SignedWord(Word(s.y, s.m)) + c0 \notin WordRange
  BY <1>2, <1>9, <1>10, <1>11, WordScale
<1> QED
  BY <1>5, <1>6, <1>8, <1>12 DEF WordsAdd, WordResult, c0, c1, c2

\* In every state two SBCs subtract them.
LEMMA SubtractWords ==
    ASSUME DataTypeOK
    PROVE  WordsSubtract
<1> DEFINE low == Subtract(s, s.m)
           t == [s EXCEPT !.ac = s.x, !.m = s.y, !.sr = low.sr]
           high == Subtract(t, s.y)
           c0 == Carry(s.sr)
           c1 == Carry(low.sr)
           c2 == Carry(high.sr)
<1>0. s \in DataState
  BY DEF DataTypeOK
<1>1. s.ac \in Byte /\ s.x \in Byte /\ s.y \in Byte /\ s.m \in Byte /\ s.sr \in SUBSET Flag
  BY <1>0, SMT DEF DataState
<1>2. /\ low \in DataState /\ low.ac \in Byte /\ low.sr \in SUBSET Flag
      /\ low.ac + Size * c1 = s.ac + (Size - 1 - s.m) + c0
  BY <1>0, <1>1, SubtractByte, SMT DEF DataState
<1>3. t \in DataState /\ t.ac = s.x /\ t.m = s.y /\ t.sr = low.sr
  BY <1>0, <1>2, HighOperands
<1>4. /\ high.ac \in Byte /\ high.ac + Size * c2 = s.x + (Size - 1 - s.y) + c1
      /\ "V" \in high.sr <=> Negative(s.x) # Negative(s.y) /\ Negative(s.x) # Negative(high.ac)
  <2> HIDE DEF t
  <2> QED
    BY <1>1, <1>3, SubtractByte DEF DataState
<1>5. LowPart("SBC") = low
  BY ExecutedSBC DEF LowPart, SBC
<1>6. HighPart("SBC") = high
  BY <1>3, <1>5, ExecutedSBC DEF HighPart, SBC
<1>7. c0 \in {0, 1} /\ c1 \in {0, 1} /\ c2 \in {0, 1}
  BY CarryBit
<1> HIDE DEF low, t, high, c0, c1, c2
<1>8. Word(high.ac, low.ac)
         = Word(s.x, s.ac) - Word(s.y, s.m) - (1 - c0) + Size * Size * (1 - c2)
  <2>1. Word(high.ac, low.ac) + Size * Size * c2
          = Size * (s.x + (Size - 1 - s.y)) + (s.ac + (Size - 1 - s.m) + c0)
    <3> DEFINE h == high.ac
               l == low.ac
               a == s.x + (Size - 1 - s.y)
               b == s.ac + (Size - 1 - s.m) + c0
    <3>1. h \in Nat /\ l \in Nat /\ a \in Int /\ b \in Int
      BY <1>1, <1>2, <1>4, <1>7, HalfFacts DEF Byte
    <3>2. l + Size * c1 = b /\ h + Size * c2 = a + c1
      BY <1>2, <1>4
    <3> HIDE DEF a, b, h, l
    <3>3. Word(h, l) + Size * Size * c2 = Size * a + b
      BY <1>7, <3>1, <3>2, HalfAssumption, SMT DEF Word, Size
    <3> QED
      BY <3>3 DEF a, b, h, l
  <2>2. s.x \in Int /\ s.y \in Int /\ s.ac \in Int /\ s.m \in Int
        /\ Word(high.ac, low.ac) \in Int
    BY <1>1, <1>2, <1>4, HalfFacts DEF Word, Byte
  <2>3. Word(high.ac, low.ac)
          = (Size * s.x + s.ac) - (Size * s.y + s.m) - (1 - c0) + Size * Size * (1 - c2)
    BY <1>7, <2>1, <2>2, BorrowOfWords
  <2> QED
    BY <2>3 DEF Word
<1>9. "V" \in high.sr <=>
         SignedByte(s.x) - SignedByte(s.y) - 1 + c1 \notin (0 - Half) .. (Half - 1)
  BY <1>1, <1>4, <1>7, HalfFacts, SMT DEF SignedByte, Negative, Byte
<1>10. SignedWord(Word(s.x, s.ac)) - SignedWord(Word(s.y, s.m)) - (1 - c0)
         = Size * (SignedByte(s.x) - SignedByte(s.y) - 1 + c1) + low.ac
  <2>1. /\ SignedWord(Word(s.x, s.ac)) = Size * SignedByte(s.x) + s.ac
        /\ SignedWord(Word(s.y, s.m)) = Size * SignedByte(s.y) + s.m
        /\ SignedByte(s.x) \in Int /\ SignedByte(s.y) \in Int
    BY <1>1, SignedWordBytes
  <2>2. s.ac \in Int /\ s.m \in Int /\ low.ac \in Int
    BY <1>1, <1>2, HalfFacts DEF Byte
  <2>3. (Size * SignedByte(s.x) + s.ac) - (Size * SignedByte(s.y) + s.m) - (1 - c0)
          = Size * (SignedByte(s.x) - SignedByte(s.y) - 1 + c1) + low.ac
    BY <1>2, <1>7, <2>1, <2>2, BorrowOfDigits
  <2> QED
    BY <2>1, <2>3
<1>11. SignedByte(s.x) - SignedByte(s.y) - 1 + c1 \in Int
  BY <1>1, <1>7, SignedWordBytes
<1>12. "V" \in high.sr <=>
         SignedWord(Word(s.x, s.ac)) - SignedWord(Word(s.y, s.m)) - (1 - c0) \notin WordRange
  BY <1>2, <1>9, <1>10, <1>11, WordScale
<1> QED
  BY <1>5, <1>6, <1>8, <1>12 DEF WordsSubtract, WordResult, c0, c1, c2

\* Whatever the ROM has executed before, two ADCs add two words, with the carry and the
\* signed overflow of the sum.
THEOREM Addition == DataSpec => []WordsAdd
BY DataTypes, AddWords, PTL

\* Whatever the ROM has executed before, two SBCs subtract two words, with the borrow and
\* the signed overflow of the difference.
THEOREM Subtraction == DataSpec => []WordsSubtract
BY DataTypes, SubtractWords, PTL

-----------------------------------------------------------------------------
(* Comparisons.                                                            *)

\* In every state the flags after CMP, and after SEC and SBC, order the operands.
LEMMA Compared ==
    ASSUME DataTypeOK
    PROVE  ComparisonsOrder
<1> DEFINE d == (s.ac + Size - s.m) % Size
           zn == set_ZN_flags(s.sr, d)
           t == WithFlag(s, "C", TRUE)
           u == Subtract(t, s.m)
<1>1. s \in DataState /\ s.ac \in Byte /\ s.m \in Byte /\ s.sr \in SUBSET Flag
  BY SMT DEF DataTypeOK, DataState
<1>2. d \in Int /\ (d = 0 <=> s.ac = s.m)
  <2> DEFINE n == s.ac + Size - s.m
  <2>1. n \in Nat /\ n < Size + Size /\ Size \in Nat \ {0}
    BY <1>1, HalfFacts DEF Byte
  <2>2. n % Size = IF n < Size THEN n ELSE n - Size
    <3> HIDE DEF n
    <3> QED
      BY <2>1, ModOnce
  <2> QED
    BY <1>1, <2>1, <2>2, HalfFacts DEF Byte
<1>3. CMP(s).sr = set_flag(zn, "C", s.ac >= s.m)
  BY <1>1, SMT DEF CMP, Compare, DataState
<1>4. /\ "C" \in CMP(s).sr <=> s.ac >= s.m
      /\ "Z" \in CMP(s).sr <=> s.ac = s.m
  <2> DEFINE c == s.ac >= s.m
  <2>1. c \in BOOLEAN /\ "C" \in Flag /\ "Z" # "C"
    BY <1>1, HalfFacts DEF Flag, Byte
  <2> HIDE DEF d
  <2>2. zn \in SUBSET Flag /\ ("Z" \in zn <=> d = 0)
    BY <1>1, <1>2, FlagZN
  <2> HIDE DEF c, zn
  <2>3. /\ "C" \in set_flag(zn, "C", c) <=> c
        /\ "Z" \in set_flag(zn, "C", c) <=> "Z" \in zn
    BY <2>1, <2>2, FlagSets
  <2> QED
    BY <1>2, <1>3, <2>2, <2>3 DEF c
<1>5. /\ t \in DataState /\ t.ac = s.ac /\ t.m = s.m /\ Carry(t.sr) = 1
  <2>1. "C" \in Flag /\ TRUE \in BOOLEAN
    BY DEF Flag
  <2>2. /\ t \in DataState /\ t.sr = set_flag(s.sr, "C", TRUE)
        /\ t.ac = s.ac /\ t.m = s.m
    BY <1>1, <2>1, WithFlagState
  <2>3. "C" \in set_flag(s.sr, "C", TRUE)
    BY <1>1, <2>1, FlagSets
  <2> QED
    BY <2>2, <2>3 DEF Carry
<1>6. SBC(t) = u
  BY <1>5 DEF SBC
<1> HIDE DEF t
<1>7. /\ u.ac \in Byte
      /\ u.ac + Size * Carry(u.sr) = s.ac + (Size - 1 - s.m) + 1
      /\ "V" \in u.sr <=> Negative(s.ac) # Negative(s.m) /\ Negative(s.ac) # Negative(u.ac)
      /\ "N" \in u.sr <=> Negative(u.ac)
  BY <1>1, <1>5, SubtractByte DEF DataState
<1>8. Carry(u.sr) \in {0, 1}
  BY CarryBit
<1> HIDE DEF u
<1>9. (("N" \in u.sr) # ("V" \in u.sr)) <=> SignedByte(s.ac) < SignedByte(s.m)
  BY <1>1, <1>7, <1>8, HalfFacts, SMT DEF SignedByte, Negative, Byte
<1> QED
  BY <1>4, <1>6, <1>9 DEF ComparisonsOrder, t

\* Whatever the ROM has executed before, CMP orders the operands for the unsigned branches,
\* SEC and SBC for the signed ones.
THEOREM Comparison == DataSpec => []ComparisonsOrder
BY DataTypes, Compared, PTL

-----------------------------------------------------------------------------
(* Shifts of words.                                                        *)

\* In every state two shifts double or halve a word.
LEMMA ShiftWords ==
    ASSUME DataTypeOK
    PROVE  WordsShift
<1> DEFINE low == shift_left(s, "ac")
           mid == [low EXCEPT !.x = s.x]
           high == rotate_left(mid, "x")
           first == shift_right(s, "x")
           down == rotate_right(first, "ac")
           turned == rotate_left(s, "m")
           back == rotate_right(turned, "m")
<1>1. s \in DataState /\ s.x \in Byte /\ s.ac \in Byte /\ s.m \in Byte
  BY RegisterBytes DEF DataTypeOK
<1>2. /\ low \in DataState /\ low.ac + Size * Carry(low.sr) = 2 * s.ac
      /\ low.x = s.x
  BY <1>1, Shifts
<1>3. /\ first \in DataState /\ 2 * first.x + Carry(first.sr) = s.x
      /\ first.ac = s.ac
  BY <1>1, Shifts
<1>4. turned \in DataState /\ turned.m + Size * Carry(turned.sr) = 2 * s.m + Carry(s.sr)
  BY <1>1, Shifts
<1> HIDE DEF low, first, turned
<1>5. mid \in DataState /\ mid.x = s.x /\ mid.ac = low.ac /\ mid.sr = low.sr
  BY <1>1, <1>2, SMT DEF DataState
<1> HIDE DEF mid
<1>6. /\ high \in DataState /\ high.x + Size * Carry(high.sr) = 2 * mid.x + Carry(mid.sr)
      /\ high.ac = mid.ac
  BY <1>5, Shifts
<1>7. /\ down \in DataState /\ 2 * down.ac + Carry(down.sr) = first.ac + Size * Carry(first.sr)
      /\ down.x = first.x
  BY <1>3, Shifts
<1>8. back \in DataState /\ 2 * back.m + Carry(back.sr) = turned.m + Size * Carry(turned.sr)
  BY <1>4, Shifts
<1> HIDE DEF high, down, back
<1>9. /\ high.x \in Byte /\ low.ac \in Byte /\ down.x \in Byte /\ down.ac \in Byte /\ back.m \in Byte
      /\ \A t \in {s, low, first, turned, high, down, back} : Carry(t.sr) \in {0, 1}
  BY <1>2, <1>6, <1>7, <1>8, RegisterBytes, CarryBit
<1>10. Word(high.x, high.ac) + Size * Size * Carry(high.sr) = 2 * Word(s.x, s.ac)
  <2> DEFINE c1 == Carry(low.sr)
             c2 == Carry(high.sr)
             h == high.x
             l == low.ac
             x == s.x
             a == s.ac
  <2>1. /\ l + Size * c1 = 2 * a /\ h + Size * c2 = 2 * x + c1
        /\ l \in Int /\ h \in Int /\ x \in Int /\ a \in Int /\ c1 \in {0, 1} /\ c2 \in {0, 1}
    BY <1>1, <1>2, <1>5, <1>6, <1>9, HalfFacts DEF Byte
  <2>2. Word(high.x, high.ac) = Word(h, l) /\ Word(s.x, s.ac) = Word(x, a)
    BY <1>5, <1>6
  <2> HIDE DEF c1, c2, h, l, x, a
  <2>3. Word(h, l) + Size * Size * c2 = 2 * Word(x, a)
    BY <2>1, HalfAssumption, SMT DEF Word, Size
  <2> QED
    BY <2>2, <2>3 DEF c2
<1>11. 2 * Word(down.x, down.ac) + Carry(down.sr) = Word(s.x, s.ac)
  <2> DEFINE c1 == Carry(first.sr)
             c2 == Carry(down.sr)
             h == down.x
             l == down.ac
             x == s.x
             a == s.ac
  <2>1. /\ 2 * h + c1 = x /\ 2 * l + c2 = a + Size * c1
        /\ l \in Int /\ h \in Int /\ x \in Int /\ a \in Int /\ c1 \in {0, 1} /\ c2 \in {0, 1}
    BY <1>1, <1>3, <1>7, <1>9, HalfFacts DEF Byte
  <2>2. Word(down.x, down.ac) = Word(h, l) /\ Word(s.x, s.ac) = Word(x, a)
    OBVIOUS
  <2> HIDE DEF c1, c2, h, l, x, a
  <2>3. 2 * Word(h, l) + c2 = Word(x, a)
    BY <2>1, HalfAssumption, SMT DEF Word, Size
  <2> QED
    BY <2>2, <2>3 DEF c2
<1>12. back.m = s.m /\ Carry(back.sr) = Carry(s.sr)
  <2> DEFINE n == back.m
             m == s.m
             c == Carry(back.sr)
             c0 == Carry(s.sr)
  <2>1. n \in Int /\ m \in Int /\ c \in {0, 1} /\ c0 \in {0, 1}
    BY <1>1, <1>9, HalfFacts DEF Byte
  <2>2. 2 * n + c = 2 * m + c0
    BY <1>4, <1>8
  <2> HIDE DEF n, m, c, c0
  <2>3. n = m /\ c = c0
    BY <2>1, <2>2, SMT
  <2> QED
    BY <2>3 DEF n, m, c, c0
<1> QED
  BY <1>10, <1>11, <1>12 DEF WordsShift, low, mid, high, first, down, turned, back

\* Whatever the ROM has executed before, two shifts double or halve a word, and ROL and ROR
\* undo each other.
THEOREM Shifting == DataSpec => []WordsShift
BY DataTypes, ShiftWords, PTL

-----------------------------------------------------------------------------
(* Fused opcodes.                                                          *)

\* ALR and ARR leave the Z and N of their AND unset, which the shift overwrites.
LEMMA MaskedShift ==
    ASSUME NEW t \in DataState, NEW a \in Byte, NEW c \in BOOLEAN, NEW w \in Byte
    PROVE  Put(WithFlag([t EXCEPT !.ac = a], "C", c), "ac", w)
             = Put(WithFlag(Put(t, "ac", a), "C", c), "ac", w)
<1> DEFINE k == [t EXCEPT !.ac = a]
           u == Put(t, "ac", a)
           k1 == WithFlag(k, "C", c)
           u1 == WithFlag(u, "C", c)
<1>1. /\ t.sr \in SUBSET Flag /\ "C" \in Flag /\ a \in Int /\ w \in Int
  BY RegisterBytes, HalfFacts DEF Flag, Byte
<1>2. /\ u \in DataState /\ u.sr = set_ZN_flags(t.sr, a)
      /\ u.x = t.x /\ u.y = t.y /\ u.m = t.m
  BY PutState DEF DataState
<1>3. k \in DataState /\ k.sr = t.sr /\ k.x = t.x /\ k.y = t.y /\ k.m = t.m
  BY SMT DEF DataState
<1> HIDE DEF k, u
<1>4. /\ k1 \in DataState /\ k1.sr = set_flag(k.sr, "C", c)
      /\ k1.x = k.x /\ k1.y = k.y /\ k1.m = k.m
  BY <1>1, <1>3, WithFlagState
<1>5. /\ u1 \in DataState /\ u1.sr = set_flag(u.sr, "C", c)
      /\ u1.x = u.x /\ u1.y = u.y /\ u1.m = u.m
  BY <1>1, <1>2, WithFlagState
<1> HIDE DEF k1, u1
<1>6. /\ Put(k1, "ac", w) \in DataState /\ Put(k1, "ac", w).sr = set_ZN_flags(k1.sr, w)
      /\ Put(k1, "ac", w).ac = w /\ Put(k1, "ac", w).x = k1.x
      /\ Put(k1, "ac", w).y = k1.y /\ Put(k1, "ac", w).m = k1.m
  BY <1>4, PutState DEF DataState
<1>7. /\ Put(u1, "ac", w) \in DataState /\ Put(u1, "ac", w).sr = set_ZN_flags(u1.sr, w)
      /\ Put(u1, "ac", w).ac = w /\ Put(u1, "ac", w).x = u1.x
      /\ Put(u1, "ac", w).y = u1.y /\ Put(u1, "ac", w).m = u1.m
  BY <1>5, PutState DEF DataState
<1>8. set_ZN_flags(u1.sr, w) = set_ZN_flags(k1.sr, w)
  BY <1>1, <1>2, <1>3, <1>4, <1>5, ZNBeforeC
<1>9. Put(k1, "ac", w) = Put(u1, "ac", w)
  BY <1>2, <1>3, <1>4, <1>5, <1>6, <1>7, <1>8, SameState
<1> QED
  BY <1>9 DEF k1, u1, k, u

\* The two bits of a rotated byte that ARR looks at are those that tell
\* whether the byte, doubled, overflows.
LEMMA RotatedBits ==
    ASSUME NEW a \in Byte, NEW d \in Byte,
           NEW c \in {0, 1}, NEW e \in {0, 1}, NEW f \in {0, 1},
           d + Size * e = a + a + c
    PROVE  LET w == (a \div 2) + Half * f
           IN  /\ HasBit(w, Half \div 2) <=> e = 1
               /\ (HasBit(w, Half \div 2) # HasBit(w, Half \div 4))
                     <=> Negative(a) # Negative(d)
BY HalfAssumption, SMTT(60) DEF Byte, Size, HasBit, Negative

\* In every state each illegal opcode does what its legal ones do.
LEMMA FusedOpcodes ==
    ASSUME DataTypeOK
    PROVE  IllegalsFuse
<1> DEFINE n == Negative(s.m)
           b == HasBit(s.m, 1)
           a == BitAnd(s.ac, s.m)
<1>1. /\ s \in DataState /\ s.sr \in SUBSET Flag /\ Carry(s.sr) \in {0, 1}
      /\ s.ac \in Byte /\ s.x \in Byte /\ s.y \in Byte /\ s.m \in Byte
  BY RegisterBytes, CarryBit DEF DataTypeOK
<1>2. n \in BOOLEAN /\ b \in BOOLEAN /\ a \in Byte
  <2>1. a \in Byte
    BY <1>1, BitAndByte
  <2>2. n \in BOOLEAN /\ b \in BOOLEAN
    BY DEF Negative, HasBit
  <2> QED
    BY <2>1, <2>2
<1>3. DCP(s) = CMP(Decremented(s, "m"))
  <2> DEFINE v == (s.m + Size - 1) % Size
             d == (s.ac + Size - v) % Size
             c == s.ac >= v
             sr == set_ZN_flags(set_flag(s.sr, "C", c), d)
             r == Put(s, "m", v)
  <2>1. v \in Byte
    BY <1>1, SteppedByte
  <2>2. d \in Int /\ v \in Int /\ c \in BOOLEAN
    <3> HIDE DEF v
    <3> QED
      BY <1>1, <2>1, SteppedByte, HalfFacts DEF Byte
  <2>3. DCP(s) = [s EXCEPT !.m = v, !.sr = sr]
    BY <1>1, SMT DEF DCP, DataState
  <2>4. Decremented(s, "m") = r
    BY DEF Decremented
  <2>5. /\ r \in DataState /\ r.sr = set_ZN_flags(s.sr, v) /\ r.m = v
        /\ r.ac = s.ac /\ r.x = s.x /\ r.y = s.y
    <3> HIDE DEF v
    <3> QED
      BY <1>1, <2>1, PutState DEF DataState
  <2>6. CMP(r) = [r EXCEPT !.sr = set_flag(set_ZN_flags(r.sr, d), "C", c)]
    <3> HIDE DEF r
    <3> QED
      BY <2>5, SMT DEF CMP, Compare, DataState
  <2> HIDE DEF v, d, c, r
  <2>7. set_flag(set_ZN_flags(r.sr, d), "C", c) = sr
    BY <1>1, <2>2, <2>5, ZNBeforeC
  <2> HIDE DEF sr
  <2>8. /\ DCP(s).ac = s.ac /\ DCP(s).x = s.x /\ DCP(s).y = s.y
        /\ DCP(s).m = v /\ DCP(s).sr = sr
    BY <1>1, <2>3, SMT DEF DataState
  <2>9. /\ CMP(r).ac = r.ac /\ CMP(r).x = r.x /\ CMP(r).y = r.y
        /\ CMP(r).m = r.m /\ CMP(r).sr = sr
    BY <2>5, <2>6, <2>7, SMT DEF DataState
  <2>10. DCP(s) \in DataState /\ CMP(r) \in DataState
    BY <1>1, <2>5, IllegalState, LegalState
  <2>11. DCP(s) = CMP(r)
    BY <2>5, <2>8, <2>9, <2>10, SameState
  <2> QED
    BY <2>4, <2>11
<1>4. ISB(s) = SBC(Incremented(s, "m"))
  <2> DEFINE v == (s.m + 1) % Size
             r == Put(s, "m", v)
  <2>1. v \in Byte
    BY <1>1, SteppedByte
  <2>2. ISB(s) = Subtract([s EXCEPT !.m = v], v) /\ Incremented(s, "m") = r
    BY DEF ISB, Incremented
  <2> HIDE DEF v
  <2>3. r.m = v
    BY <1>1, <2>1, PutState
  <2>4. Subtract(r, v) = Subtract([s EXCEPT !.m = v], v)
    BY <1>1, <2>1, SumForgets
  <2> HIDE DEF r
  <2> QED
    BY <2>2, <2>3, <2>4 DEF SBC
<1>5. ASSUME NEW c \in BOOLEAN, NEW v \in Byte
      PROVE  LET r == Put(WithFlag(s, "C", c), "m", v)
             IN  /\ r \in DataState /\ r.m = v /\ r.ac = s.ac
                 /\ \A w \in Byte :
                      Put([WithFlag(s, "C", c) EXCEPT !.m = v], "ac", w) = Put(r, "ac", w)
                 /\ Add([WithFlag(s, "C", c) EXCEPT !.m = v], v) = Add(r, v)
  <2> DEFINE q == WithFlag(s, "C", c)
             r == Put(q, "m", v)
  <2>1. r \in DataState /\ r.m = v /\ r.ac = s.ac
    BY <1>1, ShiftState
  <2>2. \A w \in Byte : Put([q EXCEPT !.m = v], "ac", w) = Put(r, "ac", w)
    BY <1>1, FusedPut
  <2>3. q \in DataState
    BY <1>1, WithFlagState DEF Flag
  <2> HIDE DEF q
  <2>4. Add([q EXCEPT !.m = v], v) = Add(r, v)
    BY <2>3, SumForgets
  <2> HIDE DEF r
  <2> QED
    BY <2>1, <2>2, <2>4 DEF q, r
<1>6. RLA(s) = AND(rotate_left(s, "m")) /\ SLO(s) = ORA(shift_left(s, "m"))
  <2> DEFINE v == ((2 * s.m) % Size) + Carry(s.sr)
             w == (2 * s.m) % Size
             p == Put(WithFlag(s, "C", n), "m", v)
             q == Put(WithFlag(s, "C", n), "m", w)
  <2>1. v \in Byte /\ w \in Byte
    BY <1>1, ShiftedByte
  <2>2. /\ RLA(s) = Put([WithFlag(s, "C", n) EXCEPT !.m = v], "ac", BitAnd(s.ac, v))
        /\ SLO(s) = Put([WithFlag(s, "C", n) EXCEPT !.m = w], "ac", BitOr(s.ac, w))
        /\ rotate_left(s, "m") = p /\ shift_left(s, "m") = q
    BY DEF RLA, SLO, rotate_left, shift_left
  <2> HIDE DEF v, w, n
  <2>3. BitAnd(s.ac, v) \in Byte /\ BitOr(s.ac, w) \in Byte
    BY <1>1, <2>1, BitAndByte, BitOrByte
  <2>4. /\ p.m = v /\ p.ac = s.ac
        /\ Put([WithFlag(s, "C", n) EXCEPT !.m = v], "ac", BitAnd(s.ac, v))
             = Put(p, "ac", BitAnd(s.ac, v))
    BY <1>2, <1>5, <2>1, <2>3
  <2>5. /\ q.m = w /\ q.ac = s.ac
        /\ Put([WithFlag(s, "C", n) EXCEPT !.m = w], "ac", BitOr(s.ac, w))
             = Put(q, "ac", BitOr(s.ac, w))
    BY <1>2, <1>5, <2>1, <2>3
  <2> HIDE DEF p, q
  <2> QED
    BY <2>2, <2>4, <2>5 DEF AND, ORA
<1>7. RRA(s) = ADC(rotate_right(s, "m")) /\ SRE(s) = EOR(shift_right(s, "m"))
  <2> DEFINE v == (s.m \div 2) + Half * Carry(s.sr)
             w == s.m \div 2
             p == Put(WithFlag(s, "C", b), "m", v)
             q == Put(WithFlag(s, "C", b), "m", w)
  <2>1. v \in Byte /\ w \in Byte
    BY <1>1, ShiftedByte
  <2>2. /\ RRA(s) = Add([WithFlag(s, "C", b) EXCEPT !.m = v], v)
        /\ SRE(s) = Put([WithFlag(s, "C", b) EXCEPT !.m = w], "ac", BitXor(s.ac, w))
        /\ rotate_right(s, "m") = p /\ shift_right(s, "m") = q
    BY DEF RRA, SRE, rotate_right, shift_right
  <2> HIDE DEF v, w, b
  <2>3. BitXor(s.ac, w) \in Byte
    BY <1>1, <2>1, BitXorByte
  <2>4. p.m = v /\ Add([WithFlag(s, "C", b) EXCEPT !.m = v], v) = Add(p, v)
    BY <1>2, <1>5, <2>1
  <2>5. /\ q.m = w /\ q.ac = s.ac
        /\ Put([WithFlag(s, "C", b) EXCEPT !.m = w], "ac", BitXor(s.ac, w))
             = Put(q, "ac", BitXor(s.ac, w))
    BY <1>2, <1>5, <2>1, <2>3
  <2> HIDE DEF p, q
  <2> QED
    BY <2>2, <2>4, <2>5 DEF ADC, EOR
<1>8. LET t == Put(s, "ac", s.m) IN LAX(s) = Put(t, "x", t.ac)
  <2> DEFINE sr == set_ZN_flags(s.sr, s.m)
             t == Put(s, "ac", s.m)
  <2>1. /\ t \in DataState /\ t.sr = sr /\ t.ac = s.m
        /\ t.x = s.x /\ t.y = s.y /\ t.m = s.m
    BY <1>1, PutState DEF DataState
  <2>2. LAX(s) = [s EXCEPT !.ac = s.m, !.x = s.m, !.sr = sr]
    BY <1>1, SMT DEF LAX, DataState
  <2>3. sr \in SUBSET Flag /\ set_ZN_flags(sr, s.m) = sr
    BY <1>1, FlagZN, ZNAgain, HalfFacts DEF Byte
  <2> HIDE DEF sr, t
  <2>4. LAX(s).ac = s.m /\ LAX(s).x = s.m /\ LAX(s).y = s.y /\ LAX(s).m = s.m /\ LAX(s).sr = sr
    BY <1>1, <2>2, SMT DEF DataState
  <2>5. /\ Put(t, "x", s.m) \in DataState /\ Put(t, "x", s.m).sr = set_ZN_flags(t.sr, s.m)
        /\ Put(t, "x", s.m).x = s.m /\ Put(t, "x", s.m).ac = t.ac
        /\ Put(t, "x", s.m).y = t.y /\ Put(t, "x", s.m).m = t.m
    BY <1>1, <2>1, PutState DEF DataState
  <2>6. LAX(s) \in DataState
    BY <1>1, IllegalState
  <2>7. LAX(s) = Put(t, "x", s.m)
    BY <2>1, <2>3, <2>4, <2>5, <2>6, SameState
  <2> QED
    BY <2>1, <2>7 DEF t
<1>9. LET t == AND(s) IN ALR(s) = shift_right(t, "ac")
  <2> DEFINE k == [s EXCEPT !.ac = a]
             t == Put(s, "ac", a)
  <2>1. AND(s) = t /\ ALR(s) = shift_right(k, "ac")
    BY DEF AND, ALR
  <2> HIDE DEF a
  <2> DEFINE c == HasBit(a, 1)
             w == a \div 2
  <2>2. t.ac = a /\ k.ac = a
    BY <1>1, <1>2, PutState, PlacedState
  <2>3. /\ shift_right(k, "ac") = Put(WithFlag(k, "C", c), "ac", w)
        /\ shift_right(t, "ac") = Put(WithFlag(t, "C", c), "ac", w)
    BY <2>2 DEF shift_right
  <2>4. c \in BOOLEAN /\ w \in Byte
    BY <1>2, ShiftedByte DEF HasBit
  <2> HIDE DEF c, w
  <2>5. Put(WithFlag(k, "C", c), "ac", w) = Put(WithFlag(t, "C", c), "ac", w)
    BY <1>1, <1>2, <2>4, MaskedShift
  <2> QED
    BY <2>1, <2>3, <2>5
<1>10. LET t == [s EXCEPT !.x = BitAnd(s.ac, s.x)]
           u == CPX(t)
       IN  SBX(s) = Put(u, "x", (t.x + Size - s.m) % Size)
  <2> DEFINE e == BitAnd(s.ac, s.x)
             d == (e + Size - s.m) % Size
             c == e >= s.m
             t == [s EXCEPT !.x = e]
             u == CPX(t)
             p == Put(s, "x", d)
  <2>1. e \in Byte
    BY <1>1, BitAndByte
  <2>2. SBX(s) = WithFlag(p, "C", c)
    BY DEF SBX
  <2> HIDE DEF e
  <2>3. d \in Byte
    BY <1>1, <2>1, SteppedByte
  <2>4. c \in BOOLEAN /\ d \in Int
    BY <1>1, <2>1, <2>3, HalfFacts DEF Byte
  <2>5. /\ t \in DataState /\ t.sr = s.sr /\ t.x = e
        /\ t.ac = s.ac /\ t.y = s.y /\ t.m = s.m
    BY <1>1, <2>1, SMT DEF DataState
  <2> HIDE DEF t
  <2> DEFINE sr == set_flag(set_ZN_flags(s.sr, d), "C", c)
  <2>6. u = [t EXCEPT !.sr = sr]
    BY <2>5, SMT DEF CPX, Compare, DataState
  <2> HIDE DEF d, c
  <2>7. set_ZN_flags(s.sr, d) \in SUBSET Flag
    BY <1>1, <2>4, FlagZN
  <2>8. sr \in SUBSET Flag
    BY <2>4, <2>7, FlagSets DEF Flag
  <2>9. set_ZN_flags(sr, d) = sr
    BY <1>1, <2>4, ZNBeforeC, ZNAfterC
  <2>10. /\ p \in DataState /\ p.sr = set_ZN_flags(s.sr, d) /\ p.x = d
         /\ p.ac = s.ac /\ p.y = s.y /\ p.m = s.m
    BY <1>1, <2>3, PutState DEF DataState
  <2> HIDE DEF p
  <2>11. /\ WithFlag(p, "C", c) \in DataState
         /\ WithFlag(p, "C", c).sr = set_flag(p.sr, "C", c)
         /\ WithFlag(p, "C", c).x = p.x /\ WithFlag(p, "C", c).ac = p.ac
         /\ WithFlag(p, "C", c).y = p.y /\ WithFlag(p, "C", c).m = p.m
    BY <2>4, <2>10, WithFlagState DEF Flag
  <2> HIDE DEF sr, u
  <2>12. /\ u \in DataState /\ u.sr = sr /\ u.ac = s.ac /\ u.y = s.y /\ u.m = s.m
    BY <2>5, <2>6, <2>8, SMT DEF DataState
  <2>13. /\ Put(u, "x", d) \in DataState /\ Put(u, "x", d).sr = set_ZN_flags(u.sr, d)
         /\ Put(u, "x", d).x = d /\ Put(u, "x", d).ac = u.ac
         /\ Put(u, "x", d).y = u.y /\ Put(u, "x", d).m = u.m
    BY <2>3, <2>12, PutState DEF DataState
  <2>14. WithFlag(p, "C", c) = Put(u, "x", d)
    BY <2>9, <2>10, <2>11, <2>12, <2>13, SameState DEF sr
  <2>15. (t.x + Size - s.m) % Size = d
    BY <2>5 DEF d
  <2>16. SBX(s) = Put(u, "x", (t.x + Size - s.m) % Size)
    BY <2>2, <2>14, <2>15
  <2> QED
    BY <2>16 DEF u, t, e
<1>13. LET t == AND(s) IN ANC(s) = WithFlag(t, "C", "C" \in shift_left(t, "ac").sr)
  <2> DEFINE t == Put(s, "ac", a)
             u == shift_left(t, "ac")
  <2>1. AND(s) = t /\ ANC(s) = WithFlag(t, "C", Negative(a))
    BY DEF AND, ANC
  <2> HIDE DEF a
  <2>2. t \in DataState /\ t["ac"] = a /\ t.sr \in SUBSET Flag
    BY <1>1, <1>2, PutState, RegisterBytes
  <2> HIDE DEF t
  <2>3. u = Put(WithFlag(t, "C", Negative(a)), "ac", (2 * a) % Size)
    BY <2>2 DEF shift_left
  <2>4. Negative(a) \in BOOLEAN /\ (2 * a) % Size \in Byte
    BY <1>2, ShiftedByte DEF Negative
  <2>5. "C" \in u.sr <=> Negative(a)
    BY <2>2, <2>3, <2>4, ShiftState
  <2> HIDE DEF u
  <2>6. ("C" \in u.sr) = Negative(a)
    BY <2>4, <2>5
  <2> QED
    BY <2>1, <2>6 DEF u
<1>14. LET t == AND([s EXCEPT !.m = s.x]) IN SAX(s) = Store(s, t.ac)
  <2> DEFINE k == [s EXCEPT !.m = s.x]
             e == BitAnd(s.ac, s.x)
             t == Put(k, "ac", e)
  <2>1. k \in DataState /\ k.ac = s.ac /\ k.m = s.x
    BY <1>1, PlacedState
  <2>2. e \in Byte
    BY <1>1, BitAndByte
  <2>3. SAX(s) = Store(s, e)
    BY DEF SAX
  <2> HIDE DEF k
  <2>4. AND(k) = t
    BY <2>1 DEF AND
  <2> HIDE DEF e
  <2>5. t.ac = e
    BY <2>1, <2>2, PutState
  <2> QED
    BY <2>3, <2>4, <2>5 DEF k
<1>15. LET t == AND(s)
           twice == Add(t, t.ac)
           u == rotate_right(t, "ac")
       IN  ARR(s) = WithFlag(WithFlag(u, "C", "C" \in twice.sr),
                             "V", "V" \in twice.sr)
  <2> DEFINE k == [s EXCEPT !.ac = a]
             t == Put(s, "ac", a)
             twice == Add(t, a)
             c == HasBit(a, 1)
             w == (a \div 2) + Half * Carry(s.sr)
             u == Put(WithFlag(t, "C", c), "ac", w)
             top == HasBit(w, Half \div 2)
             over == HasBit(w, Half \div 2) # HasBit(w, Half \div 4)
  <2>1. AND(s) = t
    BY DEF AND
  <2>2. k.ac = a /\ k.sr = s.sr
    <3> HIDE DEF a
    <3> QED
      BY <1>1, <1>2, PlacedState
  <2>3. t \in DataState /\ t.ac = a /\ t.sr = set_ZN_flags(s.sr, a) /\ a \in Int
    <3> HIDE DEF a
    <3>1. t \in DataState /\ t.ac = a /\ t.sr = set_ZN_flags(s.sr, a)
      BY <1>1, <1>2, PutState
    <3>2. a \in Int
      BY <1>2, HalfFacts DEF Byte
    <3> QED
      BY <3>1, <3>2
  <2>4. Carry(t.sr) = Carry(s.sr)
    <3> HIDE DEF a, t
    <3>1. "C" \in t.sr <=> "C" \in s.sr
      BY <1>1, <2>3, FlagZN
    <3> QED
      BY <3>1 DEF Carry
  <2>5. w \in Byte /\ c \in BOOLEAN
    <3> HIDE DEF a
    <3> QED
      BY <1>1, <1>2, ShiftedByte DEF HasBit
  <2>6. rotate_right(t, "ac") = u
    BY <2>3, <2>4 DEF rotate_right
  <2>7. rotate_right(k, "ac") = u
    <3>1. rotate_right(k, "ac") = Put(WithFlag(k, "C", c), "ac", w)
      BY <2>2 DEF rotate_right
    <3> HIDE DEF a, c, w
    <3> QED
      BY <1>1, <1>2, <2>5, <3>1, MaskedShift
  <2>8. u.ac = w
    <3> HIDE DEF t, c, w
    <3> QED
      BY <2>3, <2>5, ShiftState
  <2>9. ARR(s) = WithFlag(WithFlag(u, "C", top), "V", over)
    <3>1. ARR(s) = LET r == rotate_right(k, "ac")
                   IN  WithFlag(WithFlag(r, "C", HasBit(r.ac, Half \div 2)),
                                "V", HasBit(r.ac, Half \div 2) # HasBit(r.ac, Half \div 4))
      BY DEF ARR
    <3> HIDE DEF k, u
    <3> QED
      BY <2>7, <2>8, <3>1
  <2>10. /\ twice.ac \in Byte /\ Carry(twice.sr) \in {0, 1}
         /\ twice.ac + Size * Carry(twice.sr) = a + a + Carry(s.sr)
         /\ ("V" \in twice.sr) = (Negative(a) # Negative(twice.ac))
         /\ ("C" \in twice.sr) = (Carry(twice.sr) = 1)
    <3> HIDE DEF a, t
    <3>1. /\ twice \in DataState
          /\ twice.ac + Size * Carry(twice.sr) = a + a + Carry(s.sr)
          /\ "V" \in twice.sr <=> Negative(a) # Negative(twice.ac)
      BY <1>2, <2>3, <2>4, AddByte
    <3> HIDE DEF twice
    <3>2. twice.ac \in Byte
      BY <3>1, RegisterBytes
    <3> QED
      BY <3>1, <3>2, CarryBit DEF Negative
  <2>11. ("C" \in twice.sr) = top /\ ("V" \in twice.sr) = over
    <3>1. (top <=> Carry(twice.sr) = 1) /\ (over <=> Negative(a) # Negative(twice.ac))
      <4> DEFINE d == twice.ac
                 e == Carry(twice.sr)
                 f == Carry(s.sr)
      <4> HIDE DEF a, twice
      <4>1. /\ d \in Byte /\ e \in {0, 1} /\ f \in {0, 1}
            /\ d + Size * e = a + a + f
        BY <1>1, <2>10
      <4> HIDE DEF d, e, f
      <4>2. /\ HasBit((a \div 2) + Half * f, Half \div 2) <=> e = 1
            /\ (HasBit((a \div 2) + Half * f, Half \div 2)
                   # HasBit((a \div 2) + Half * f, Half \div 4))
                 <=> Negative(a) # Negative(d)
        BY <1>2, <4>1, RotatedBits
      <4> QED
        BY <4>2 DEF d, e, f
    <3>2. top \in BOOLEAN /\ over \in BOOLEAN
      BY DEF HasBit
    <3> HIDE DEF top, over, a, twice
    <3> QED
      BY <2>10, <3>1, <3>2
  <2> HIDE DEF k, t, c, w, u, top, over
  <2> QED
    BY <2>1, <2>3, <2>6, <2>9, <2>11 DEF twice
<1>11. /\ Executed("DEC", s, "m") = Decremented(s, "m")
       /\ Executed("INC", s, "m") = Incremented(s, "m")
       /\ Executed("ROL", s, "m") = rotate_left(s, "m")
       /\ Executed("ROR", s, "m") = rotate_right(s, "m")
       /\ Executed("ASL", s, "m") = shift_left(s, "m")
       /\ Executed("LSR", s, "m") = shift_right(s, "m")
       /\ Executed("LDA", s, "m") = Put(s, "ac", s.m)
  BY SMT DEF Executed, Loaded, Stored, Moved, Cleared, Raised
<1>12. ASSUME NEW t
       PROVE  /\ Executed("CMP", t, "m") = CMP(t) /\ Executed("SBC", t, "m") = SBC(t)
              /\ Executed("AND", t, "m") = AND(t) /\ Executed("ADC", t, "m") = ADC(t)
              /\ Executed("ORA", t, "m") = ORA(t) /\ Executed("EOR", t, "m") = EOR(t)
              /\ Executed("TAX", t, "m") = Put(t, "x", t.ac)
  BY SMT DEF Executed, Loaded, Stored, Moved, Cleared, Raised
<1> QED
  BY <1>3, <1>4, <1>6, <1>7, <1>8, <1>9, <1>10, <1>11, <1>12,
     <1>13, <1>14, <1>15 DEF IllegalsFuse

\* Whatever the ROM has executed before, each illegal opcode leaves the state its legal
\* ones would, to the last flag.
THEOREM Fusion == DataSpec => []IllegalsFuse
BY DataTypes, FusedOpcodes, PTL
=============================================================================

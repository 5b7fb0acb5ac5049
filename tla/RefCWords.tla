----------------------------- MODULE RefCWords -----------------------------
(***************************************************************************)
(* Integers of the RefC runtime: how a value of a fixed width type is kept *)
(* in an Idris2_Value pointer (memoryManagement.h, _datatypes.h), and what *)
(* the primitive operations, the casts and the constant case do to it      *)
(* (mathFunctions.[ch], casts.[ch], idris2_extractInt).                    *)
(*                                                                         *)
(* A value of at most 32 bits lives in the upper half of the pointer: the  *)
(* makers store the low 32 bits of the C expression they are given, and    *)
(* idris2_vp_to_T reads the bits of T.  An 8 or 16 bit result that ran     *)
(* over its type therefore stays in the word and is cut off by the reader. *)
(*                                                                         *)
(* The model computes in one word w of type ty, with operands from the     *)
(* edges of the type; val is the value Idris gives to the same program.    *)
(* The four widths are constants, to be scaled down.  A string is known    *)
(* here by the number its digits spell.                                    *)
(***************************************************************************)
EXTENDS Integers

CONSTANTS W8, W16, W32, W64,  \* the widths of the types named 8, 16, 32, 64
          Edge,               \* how far operands are from 0, min and max
          NegativeMod,        \* mod is applied to negative numbers
          Overrun,            \* widening casts meet words that ran over
          LongText            \* strings spell numbers that no int can hold

ASSUME WordsAssumption ==
    /\ {W8, W16, W32, W64, Edge} \subseteq Nat
    /\ 1 < W8 /\ 2 * W8 < W32 /\ 2 * W16 <= W32 /\ W8 < W16 /\ W32 < W64
    /\ {NegativeMod, Overrun, LongText} \subseteq BOOLEAN

VARIABLES ty,      \* the Idris type of the value
          w,       \* the upper half of the pointer, or the boxed number
          val,     \* the value the program means
          trapped  \* a C division overflowed: the processor stopped the program

wordVars == <<ty, w, val, trapped>>

Signed   == {"Int8", "Int16", "Int32", "Int64"}
Unsigned == {"Bits8", "Bits16", "Bits32", "Bits64"}
Fixed    == Signed \cup Unsigned
Type     == Fixed \cup {"Integer"}

Width(t) == CASE t \in {"Int8", "Bits8"}   -> W8
              [] t \in {"Int16", "Bits16"} -> W16
              [] t \in {"Int32", "Bits32"} -> W32
              [] OTHER                     -> W64

Pow2[n \in Nat] == IF n = 0 THEN 1 ELSE 2 * Pow2[n - 1]

Least(t) == IF t \in Unsigned THEN 0 ELSE -Pow2[Width(t) - 1]
Most(t)  == IF t \in Unsigned THEN Pow2[Width(t)] - 1 ELSE Pow2[Width(t) - 1] - 1

\* The C conversion (t)n, and the truncation of an Idris result n to t.
Convert(t, n) ==
    IF t \notin Fixed THEN n ELSE Least(t) + ((n - Least(t)) % Pow2[Width(t)])

\* Operands; an Integer is kept in the range of Int64 plus and minus one.
Literals(t) ==
    LET lo == Least(t) - (IF t = "Integer" THEN 1 ELSE 0)
        hi == Most(t) + (IF t = "Integer" THEN 1 ELSE 0)
    IN {n \in UNION {{lo + e, hi - e, e, -e} : e \in 0..Edge} : lo <= n /\ n <= hi}

-----------------------------------------------------------------------------
\* idris2_mkT(n): (uintptr_t)(n) << 32 keeps the low half of n, whatever the
\* width of T; Int64, Bits64 and Integer are boxed.
mk(t, n) == IF Width(t) <= W32 THEN n % Pow2[W32] ELSE Convert(t, n)

\* idris2_vp_to_T.
vp_to(t, x) == Convert(t, x)

\* idris2_extractInt returns an int: the whole half word, or the low bits of
\* a boxed number.
\* Mutant: the half word is read as an unsigned number.
extractInt_Unsigned(t, x) == x % Pow2[W32]
extractInt(t, x) == Convert("Int32", x)

-----------------------------------------------------------------------------
(* Operators of C on the promoted operands: / and % truncate to zero. *)

Abs(n) == IF n < 0 THEN -n ELSE n
Quot(a, b) == LET q == Abs(a) \div Abs(b) IN IF (a < 0) = (b < 0) THEN q ELSE -q
Rem(a, b)  == a - b * Quot(a, b)

\* & | ^ on the two's complement of 64 bits: the bits that are set, and the
\* number with given bits.
Bits(a) == {i \in 0..W64 - 1 : (a \div Pow2[i]) % 2 = 1}
Number(bits) == LET sum[n \in Nat] ==
                      IF n = 0 THEN 0
                      ELSE sum[n - 1] + (IF n - 1 \in bits THEN Pow2[n - 1] ELSE 0)
                IN sum[W64]

COp(op, a, b) ==
    CASE op = "add" -> a + b
      [] op = "sub" -> a - b
      [] op = "mul" -> a * b
      [] op = "shiftl" -> a * Pow2[b]
      [] op = "shiftr" -> a \div Pow2[b]
      [] op = "and" -> Number(Bits(a) \cap Bits(b))
      [] op = "or"  -> Number(Bits(a) \cup Bits(b))
      [] op = "xor" -> Number((Bits(a) \ Bits(b)) \cup (Bits(b) \ Bits(a)))
      [] op = "div" -> Quot(a, b)
      [] op = "mod" -> Rem(a, b)

\* idris2_div_IntN: the correction term turns the quotient into the Euclidean.
\* Mutant: the quotient of C.
div_Int_Truncates(num, denom) == Quot(num, denom)
div_Int(num, denom) ==
    Quot(num, denom) + (IF Rem(num, denom) < 0 THEN IF denom < 0 THEN 1 ELSE -1
                        ELSE 0)

\* idris2_mod_IntN: -denom is stored in an intN_t again.
mod_Int(t, num, d) ==
    LET denom == IF d < 0 THEN Convert(t, -d) ELSE d
    IN Rem(num, denom) + (IF num < 0 THEN denom ELSE 0)

\* idris2_mod_Integer (mpz_mod) and idris2_div_Integer (mpz_divexact).
mod_Integer(x, y) == x % Abs(y)
div_Integer(x, y) == Quot(x - mod_Integer(x, y), y)

\* The C expression idris2_op_T gives to the maker of T.
Compute(op, t, a, b) ==
    IF op = "div" /\ t \in Signed THEN div_Int(a, b)
    ELSE IF op = "mod" /\ t \in Signed THEN mod_Int(t, a, b)
    ELSE IF op = "div" /\ t = "Integer" THEN div_Integer(a, b)
    ELSE IF op = "mod" /\ t = "Integer" THEN mod_Integer(a, b)
    ELSE COp(op, a, b)

-----------------------------------------------------------------------------
(* What Idris says the operations compute: the truncation of the result in *)
(* the integers, division being Euclidean.                                 *)

Euclid(op, a, b) == LET m == a % Abs(b)
                        q == (a - m) \div Abs(b)
                    IN IF op = "mod" THEN m ELSE IF b < 0 THEN -q ELSE q

Meaning(op, t, a, b) ==
    Convert(t, IF op \in {"div", "mod"} THEN Euclid(op, a, b) ELSE COp(op, a, b))

-----------------------------------------------------------------------------
WordInit == /\ ty \in Type
            /\ val \in Literals(ty)
            /\ w = mk(ty, val)
            /\ trapped = FALSE

\* The word holds what the maker of its type would store for its value.
Canonical == w = mk(ty, vp_to(ty, w))

Running == ~trapped /\ ty # "String"

Operand(op) ==
    CASE op \in {"shiftl", "shiftr"} ->
           {n \in Literals(ty) : 0 <= n /\ n < Width(ty) /\ ty # "Integer"}
      [] op \in {"div", "mod"} -> Literals(ty) \ {0}
      [] op \in {"and", "or", "xor"} -> IF ty = "Integer" THEN {} ELSE Literals(ty)
      [] OTHER -> Literals(ty)

\* INT_MIN / -1 in the arithmetic of int or int64_t.
Traps(op, a, b) ==
    op = "div" /\ ty \in {"Int32", "Int64"} /\ a = Least(ty) /\ b = -1

\* idris2_op_T(w, operand).
binop(op) ==
    /\ Running
    /\ \E b \in Operand(op) :
         LET a == vp_to(ty, w)
             r == Meaning(op, ty, val, b)
         IN /\ op = "mod" /\ ty \in Signed /\ a < 0 => NegativeMod
            /\ r \in (Least(ty) - 1)..(Most(ty) + 1)
            /\ IF Traps(op, a, b)
               THEN trapped' = TRUE /\ UNCHANGED <<w, val>>
               ELSE /\ w' = mk(ty, Compute(op, ty, a, b))
                    /\ val' = r
                    /\ UNCHANGED trapped
    /\ UNCHANGED ty

\* idris2_negate_T(w).
negate ==
    /\ Running /\ ty \in Signed \cup {"Integer"}
    /\ w' = mk(ty, -vp_to(ty, w))
    /\ val' = Convert(ty, -val)
    /\ UNCHANGED <<ty, trapped>>

Compare(op, a, b) == CASE op = "lt"  -> a < b
                       [] op = "gt"  -> a > b
                       [] op = "eq"  -> a = b
                       [] op = "lte" -> a <= b
                       [] op = "gte" -> a >= b

\* idris2_mkBool.
mkBool(p) == mk("Int8", IF p THEN 1 ELSE 0)

\* idris2_lt_T(w, operand) and the other comparisons read both operands.
cmpop(op) ==
    /\ Running
    /\ \E b \in Literals(ty) :
         /\ w' = mkBool(Compare(op, vp_to(ty, w), vp_to(ty, mk(ty, b))))
         /\ val' = IF Compare(op, val, b) THEN 1 ELSE 0
    /\ ty' = "Int8"
    /\ UNCHANGED trapped

\* The casts that casts.h defines as (x).
Identity == {<<"Int8", "Bits8">>, <<"Int8", "Bits16">>, <<"Int8", "Bits32">>,
             <<"Int16", "Bits16">>, <<"Int16", "Bits32">>, <<"Int16", "Int32">>,
             <<"Int32", "Bits32">>, <<"Bits8", "Bits16">>, <<"Bits8", "Bits32">>,
             <<"Bits8", "Int8">>, <<"Bits8", "Int16">>, <<"Bits8", "Int32">>}

\* idris2_cast_T_to_U(w).
cast(to) ==
    /\ Running /\ to # ty
    /\ <<ty, to>> \in Identity /\ Width(to) > Width(ty) => Canonical \/ Overrun
    /\ w' = IF <<ty, to>> \in Identity THEN w
            ELSE mk(to, Convert(to, vp_to(ty, w)))
    /\ val' = Convert(to, val)
    /\ ty' = to
    /\ UNCHANGED trapped

\* idris2_cast_T_to_string prints the value it reads, each type with its own
\* conversion.
cast_to_string ==
    /\ Running
    /\ w' = vp_to(ty, w)
    /\ ty' = "String"
    /\ UNCHANGED <<val, trapped>>

\* atoi: strtol stops at the limits of long, and the result is cut to an int.
atoi(n) == Convert("Int32", CASE n < Least("Int64") -> Least("Int64")
                              [] n > Most("Int64") -> Most("Int64")
                              [] OTHER -> n)

\* idris2_cast_String_to_U: atoi for every type but Integer, which mpz_set_str
\* reads in full.
cast_String(to) ==
    /\ ~trapped /\ ty = "String"
    /\ to # "Integer" /\ w \notin Least("Int32")..Most("Int32") => LongText
    /\ w' = IF to = "Integer" THEN w ELSE mk(to, Convert(to, atoi(w)))
    /\ val' = Convert(to, val)
    /\ ty' = to
    /\ UNCHANGED trapped

BinOp == {"add", "sub", "mul", "shiftl", "shiftr", "and", "or", "xor", "div", "mod"}
CmpOp == {"lt", "gt", "eq", "lte", "gte"}

WordNext == \/ \E op \in BinOp : binop(op)
            \/ \E op \in CmpOp : cmpop(op)
            \/ negate
            \/ \E to \in Type : cast(to) \/ cast_String(to)
            \/ cast_to_string

WordSpec == WordInit /\ [][WordNext]_wordVars

-----------------------------------------------------------------------------
\* An unboxed value is one half of a pointer.
TypeOK == /\ ty \in Type \cup {"String"} /\ trapped \in BOOLEAN
          /\ w \in Int /\ val \in Int
          /\ Width(ty) <= W32 => w \in 0..(Pow2[W32] - 1)

\* tests/chez/newints and tests/chez/casts, "Specification": whatever the
\* program computed and cast, the C code reads the value Idris defines.
Faithful == vp_to(ty, w) = val

\* The if-chain of a constant case compares idris2_extractInt with each
\* constant: it takes the branch of the value, as long as the word is one the
\* maker stores and the value fits an int.
CaseExact ==
    ty # "String" /\ Canonical /\ val \in Least("Int32")..Most("Int32") =>
      \A c \in Literals(ty) : extractInt(ty, w) = c <=> val = c
=============================================================================

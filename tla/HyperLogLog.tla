---------------------------- MODULE HyperLogLog ----------------------------
(***************************************************************************)
(* The HyperLogLog sketch (crates/common/src/hll.rs) that the aggregator   *)
(* can keep beside the exact set of users, and that the query API merges   *)
(* across partitions.                                                      *)
(*                                                                         *)
(* A sketch is a function from the registers that are not zero to their    *)
(* values.  The hash of an item is a number of HASH_BITS bits.             *)
(***************************************************************************)
EXTENDS Integers, FiniteSetsExt

CONSTANTS
    HASH_BITS,  \* width of hash_item's result (64 in the code)
    PRECISION   \* leading bits that select the register (12 in the code)

ASSUME PrecisionAssumption == HASH_BITS \in Nat /\ PRECISION \in 4..16 /\ PRECISION < HASH_BITS

\* The registers, 0..REGISTERS - 1.
REGISTERS == 2^PRECISION

ASSUME RegistersAssumption == REGISTERS \in Nat \ {0}

EmptySketch == [r \in {} |-> 0]

register(sketch, r) == IF r \in DOMAIN sketch THEN sketch[r] ELSE 0

Index(hash) == hash \div 2^(HASH_BITS - PRECISION)

leading_zeros(n) == Cardinality({b \in 1..HASH_BITS : n < 2^(HASH_BITS - b)})

\* The rank of the bits after the index; shifting drops what leaves the word.
Rho(hash) ==
    LET remaining == (hash * 2^PRECISION) % 2^HASH_BITS
    IN  Min({leading_zeros(remaining) + 1, HASH_BITS - PRECISION})

insert(sketch, hash) ==
    IF Rho(hash) > register(sketch, Index(hash))
    THEN [r \in DOMAIN sketch \cup {Index(hash)} |->
             IF r = Index(hash) THEN Rho(hash) ELSE sketch[r]]
    ELSE sketch

\* Register by register, the larger value.
merge(sketch, other) ==
    [r \in DOMAIN sketch \cup DOMAIN other |-> Max({register(sketch, r), register(other, r)})]

\* Variant for mutation: rounded up.
estimate_Up(sketch) ==
    LET m == REGISTERS
        c == Cardinality(DOMAIN sketch)
    IN  (2 * m * c + c * c + 2 * m - 1) \div (2 * m)

\* The estimate as the query API rounds it, in the small range where it counts the
\* registers in use: m * ln(m / (m - c)) for c of m registers, to second order in
\* c / m, which rounds to the same integer for 4096 registers and c up to 109.
estimate(sketch) ==
    LET m == REGISTERS
        c == Cardinality(DOMAIN sketch)
    IN  (2 * m * c + c * c + m) \div (2 * m)

=============================================================================

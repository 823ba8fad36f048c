------------------------------ MODULE MCDHash ------------------------------
(* Instances of DHash for TLC. *)
EXTENDS DHash

MCBit == [i \in 0..AddrBits |-> 2^i]

\* Keys are their own hash codes, except 9: it always collides with 4.
MCHashOf == [k \in Keys |-> IF k = 9 THEN 4 ELSE k]

Args(count, d, s, min, max) ==
    [count |-> count, directory_bits |-> d, segment_bits |-> s, min_load |-> min, max_load |-> max]

\* 4 segments of 2 buckets; 2 segments of 2 from count = 1, with load factors
\* that contract the table on most deletes; the defaults; and one bit more
\* than address_t has.
MCCreateArgs == {Args(0, 2, 1, 1, 1), Args(1, 0, 0, 2, 1), Args(0, 0, 0, 0, 0), Args(0, 3, 2, 1, 1)}

=============================================================================

------------------------------ MODULE BerrySizes ------------------------------
(* Capacities of lists and stacks (be_vector.c).                             *)
EXTENDS Integers, Sequences

\* be_nextsize(): the least capacity above a number, from the table of
\* binary_search() and, above it, the powers of two of nextpow().
Table  == {0, 2, 4, 6, 8, 10, 12, 14, 16, 20, 24, 28, 32, 40, 48, 64, 96, 128,
           192, 256, 384, 512, 768, 1024}
Powers == {2048, 4096, 8192, 16384, 32768, 65536, 131072, 262144, 524288, 1048576,
           2097152, 4194304, 8388608, 16777216, 33554432, 67108864, 134217728,
           268435456, 536870912, 1073741824}
Capacities == Table \cup Powers
NextSize(n) == CHOOSE c \in Capacities :
                 c > n /\ \A d \in Capacities : d > n => c <= d

\* The largest number whose next power of two is an int.
LargestSize == 1073741823
=============================================================================

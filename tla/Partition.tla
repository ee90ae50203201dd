------------------------------ MODULE Partition -------------------------------
(*****************************************************************************)
(* live_core/partition.py: the canonical order 0 .. size-1 is split into one *)
(* contiguous block per node, and a stock's owner is computed from its index *)
(* by a different formula, which must name the block the index lies in.      *)
(*****************************************************************************)
EXTENDS Integers

\* Python's floor division rounds as \div does for a positive divisor.
partition_bounds(size, node, count) ==
    [start |-> -(((-node) * size) \div count), end |-> -(((-(node + 1)) * size) \div count)]

owner_of_index(size, count, index) == (index * count) \div size

owns_index(bounds, index) == bounds.start <= index /\ index < bounds.end

Larger(a, b) == IF a < b THEN b ELSE a
Smaller(a, b) == IF a < b THEN a ELSE b

\* The pieces of [start, end) and the nodes that own them.
nodes_for_range(size, count, start, end) ==
    LET piece(n) ==
          LET b == partition_bounds(size, n, count)
          IN  [node |-> n, start |-> Larger(Larger(0, start), b.start), end |-> Smaller(Smaller(size, end), b.end)]
    IN  {p \in {piece(n) : n \in 0..count-1} : p.start < p.end}

\* The shard family: slices of the canonical order, the later ones empty when it ends early.
shard_ranges(size, width, names) ==
    {[start |-> Smaller(i * width, size), end |-> Smaller((i + 1) * width, size)] : i \in 0..names-1}
=============================================================================

--------------------------- MODULE SequenceTools ---------------------------
(* Sequences and functions, with operators that the provers can expand. *)
EXTENDS Integers, Sequences

\* Of a sequence what is in a set, which is SelectSeq.
Only(s, set) ==
  LET kept[n \in 0 .. Len(s)] ==
        IF n = 0 THEN <<>>
        ELSE IF s[n] \in set THEN Append(kept[n - 1], s[n]) ELSE kept[n - 1]
  IN kept[Len(s)]

\* The place of e in s.
Position(s, e) == CHOOSE k \in DOMAIN s : s[k] = e

\* f itself, of which TLC evaluates each value once.
Table(f) == CHOOSE g \in {f} : g = f

\* f, and g where f is not defined; and one value.
Over(f, g) == Table([x \in DOMAIN f \cup DOMAIN g |-> IF x \in DOMAIN f THEN f[x] ELSE g[x]])
Single(x, v) == [y \in {x} |-> v]
=============================================================================

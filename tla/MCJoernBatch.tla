----------------------------- MODULE MCJoernBatch -----------------------------
(* Batches for TLC: what matters is which ids share a stem, which pair       *)
(* differs by the extension only, and how cases fall into chunks.            *)
EXTENDS JoernBatch

\* "a/b", "a_b" and "a b" are sanitised alike; "c" and "c.java" differ by the
\* extension; "d" stands alone.
AllStems == [i \in {"a/b", "a_b", "a b", "c", "c.java", "d"} |->
               [root |-> CASE i \in {"a/b", "a_b", "a b"} -> "a_b"
                           [] i \in {"c", "c.java"} -> "c"
                           [] OTHER -> "d",
                ext  |-> i = "c.java"]]

OneCode == {"x"}
Batches(ids, n) ==
  {[k \in 1 .. m |-> [id |-> f[k], code |-> "x"]] : f \in [1 .. n -> ids], m \in 0 .. n}
DistinctIds(b) == \A j, k \in DOMAIN b : j # k => b[j].id # b[k].id

IdsMC == DOMAIN AllStems

\* Ids sharing a stem, within a chunk and across chunks.
Distinct ==
  LET case(i) == [id |-> i, code |-> "x"]
  IN  {b \in Batches({"a/b", "a_b", "c"}, 3) : DistinctIds(b)}
      \cup {<<case("a/b"), case("c"), case("a b"), case("a_b")>>}

\* An id that is another one with the extension.
Clashing == {b \in Batches({"c", "c.java", "d"}, 3) : DistinctIds(b)}

AllBatches == Distinct \cup Clashing
=============================================================================

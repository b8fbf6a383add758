---------------------------- MODULE MCPageTable -----------------------------
(* Instances of PageTable for TLC: three entries at each level. *)
EXTENDS PageTable

\* Every interval of pages mapped to itself, and some mapped elsewhere: a block
\* further, or, when no block lies in it, a page further.
MCEvery ==
  {a \in [virt : 0 .. I * J * K - 2, size : 1 .. I * J * K - 1, start : 0 .. I * J * K] :
     /\ a.virt + a.size < I * J * K
     /\ \/ a.start = a.virt
        \/ a.virt = 1 /\ a.start = a.virt + K
        \/ a.size = 1 /\ a.virt \in {2, 9} /\ a.start = a.virt + 1}

\* Those that begin inside the first block, and on the last page before 1 GB.
MCSecond == {a \in MCEvery : a.virt \in {1, J * K - 1}}

\* A page inside a block; the rest of a block, a block and a page of the next.
MCMore == { [virt |-> 4, size |-> 1, start |-> 4], [virt |-> 8, size |-> 5, start |-> 8] }

MCLayout ==
  [v \in 1 .. 2 |-> IF v = 1 THEN {<<a, b>> : a \in MCEvery, b \in MCSecond}
                    ELSE {<<[virt |-> 1, size |-> 20, start |-> 31],
                            [virt |-> 7, size |-> 1, start |-> 2]>>}]
=============================================================================

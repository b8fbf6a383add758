--------------------------- MODULE MCEdfScheduler ---------------------------
\* Three vCPUs: two of one VM with different periods and budgets, one of them off
\* at first, and one of another VM without a period.  One node to spare: the
\* second CPU_ON finds none.  The counter passes Word.
EXTENDS EdfScheduler

CONSTANTS n0, n1, n2, n3

MCVCPU   == 0 .. 2
MCVmOf   == [v \in MCVCPU |-> <<1, 1, 2>>[v + 1]]
MCBoot   == <<0, 2>>
MCNode   == {n0, n1, n2, n3}
MCFirst  == [v \in MCVCPU |-> <<0, 1, 0>>[v + 1]]
MCPeriod == [v \in MCVCPU |-> <<3, 2, 0>>[v + 1]]
MCBudget == [v \in MCVCPU |-> <<1, 2, 1>>[v + 1]]
=============================================================================

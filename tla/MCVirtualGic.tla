---------------------------- MODULE MCVirtualGic ----------------------------
\* Two vCPUs, one or two list registers, at most one interrupt of each kind; the
\* SPI goes to vCPU 0, and at most vCPU 1 may turn itself off.
EXTENDS VirtualGic

MCVCPU   == 0 .. 1
MCSgi    == {0}
MCPpi    == {2}
MCSpi    == {3}
\* Two priorities, the lower one shared; none below the number of list registers.
MCLevel  == [i \in IRQ |-> IF i = 0 THEN 2 ELSE 3]
\* The SGI's priority is 0, what the distributor's registers hold before the guest
\* writes them, and the bit set_lr tests for the first list register.
MCLowLevel == [i \in IRQ |-> IF i = 0 THEN 0 ELSE 1]
MCTarget == [i \in Spi |-> {0}]
MCVcpu1  == {1}
=============================================================================

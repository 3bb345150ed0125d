-------------------------------- MODULE MCBoot --------------------------------
(***************************************************************************)
(* Tables of 6 entries: three levels reach 216 pages, MAXVA is page 108.   *)
(* As on the machine the devices and memory have one top-level entry each, *)
(* UART and disk share a last-level table, the PLIC fills two, and text    *)
(* and data share the first table of memory.                               *)
(***************************************************************************)
EXTENDS Boot

Page(n) == n * PGSIZE

MCUart == Page(24)
MCPlic == Page(12)
MCVirtio == Page(25)
MCKernbase == Page(36)

\* kernel.elf: kernel_pagetable is the first word behind end_address.  Boot takes
\* 14 of the 19 pages and the callers up to 4.
Linked == [etext |-> Page(38), end |-> Page(40), phystop |-> Page(59),
           kernel_pagetable |-> Page(40)]

\* A kernel whose variables all lie below end_address, on machines with less and
\* less memory.
Short(pages) == [etext |-> Page(38), end |-> Page(39) + 2, phystop |-> Page(40 + pages),
                 kernel_pagetable |-> Page(39)]

MCLayouts == {Linked} \cup {Short(pages) : pages \in 1 .. 16}
MCWorkloads == {{}, {"c1"}, {"c1", "c2"}}

===============================================================================

------------------------------- MODULE MCProc -------------------------------
(* Small instances of Proc: who forks, who exits, who waits. *)
EXTENDS Proc, TLC

\* init forks two children that just exit; or a child that forks a child; or
\* once more than the table allows.
Pair  == 0 :> 2 @@ 1 :> 0 @@ 2 :> 0
Chain == 0 :> 1 @@ 1 :> 1 @@ 2 :> 0
Three == 0 :> 3 @@ 1 :> 0 @@ 2 :> 0
Families == {Pair, Chain, Three}

\* init and its first child fork at the same time.
Racing == {0 :> 2 @@ 1 :> 1 @@ 2 :> 0}
JustPair == {Pair}

\* init forks one child, as user/proczero.c does.
Proczero == {0 :> 1 @@ 1 :> 0}

\* After boot kalloc can serve every slot, or is one page short.
Enough == {NPAGES - 2}
Short  == {NPAGES - 3, NPAGES - 2}

AllSlots == Slot
OnlyOne  == {1}
Children == Slot \ {Init0}
Waiters  == {Init0, 1}
OnlyInit == {Init0}
=============================================================================

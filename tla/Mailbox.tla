------------------------------ MODULE Mailbox ------------------------------
(***************************************************************************)
(* What a work queue between two threads promises: what is put in comes    *)
(* out once, in order; after it is closed the consumer ends, and may leave *)
(* in the box what it has not taken.  WorkQueue implements it.             *)
(***************************************************************************)
EXTENDS Naturals, Sequences

CONSTANT Item

VARIABLES box,     \* items put and not taken, in order
          taken,   \* every item taken so far, in order
          open,    \* the box has not been closed
          ended    \* the consumer has ended

mvars == <<box, taken, open, ended>>

MInit == box = <<>> /\ taken = <<>> /\ open = TRUE /\ ended = FALSE

Put == /\ \E x \in Item : box' = Append(box, x)
       /\ UNCHANGED <<taken, open, ended>>

(* Several at once.                                                        *)
PutAll == /\ Len(box') > Len(box) /\ SubSeq(box', 1, Len(box)) = box
          /\ UNCHANGED <<taken, open, ended>>

TakeOne == /\ ~ended /\ box # <<>>
           /\ taken' = Append(taken, Head(box)) /\ box' = Tail(box)
           /\ UNCHANGED <<open, ended>>

TakeAll == /\ ~ended /\ box # <<>>
           /\ taken' = taken \o box /\ box' = <<>>
           /\ UNCHANGED <<open, ended>>

Close == open' = FALSE /\ UNCHANGED <<box, taken, ended>>

End == /\ ~open /\ ~ended
       /\ ended' = TRUE
       /\ UNCHANGED <<box, taken, open>>

MNext == Put \/ PutAll \/ TakeOne \/ TakeAll \/ Close \/ End

MSpec == MInit /\ [][MNext]_mvars
(* An open box is emptied, and a closed one ends its consumer.             *)
MFairSpec == MSpec /\ WF_mvars(TakeOne \/ TakeAll) /\ WF_mvars(End)
=============================================================================

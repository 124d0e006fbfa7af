---------------------------- MODULE BatchPipeline ----------------------------
(***************************************************************************)
(* What a trainer that generates ahead promises about its data: batches    *)
(* are drawn in order, at most Depth of them wait, each is trained on in   *)
(* the order drawn and once, and only a restart may lose one.  Batches are *)
(* numbered in the order in which the data yields them.                    *)
(***************************************************************************)
EXTENDS Integers, Sequences

CONSTANT Depth       \* batches that may be drawn and not yet trained on

VARIABLES
    drawn,           \* the last batch drawn
    last,            \* the last batch trained on
    waiting,         \* batches drawn and not yet trained on, oldest first
    saved            \* what a restart goes back to

pipeline == <<drawn, last, waiting, saved>>

Init ==
    /\ drawn = 0
    /\ last = 0
    /\ waiting = <<>>
    /\ saved = [drawn |-> 0, last |-> 0]

Draw ==
    /\ Len(waiting) < Depth
    /\ drawn' = drawn + 1
    /\ waiting' = Append(waiting, drawn + 1)
    /\ UNCHANGED <<last, saved>>

Train ==
    /\ waiting # <<>>
    /\ last' = Head(waiting)
    /\ waiting' = Tail(waiting)
    /\ UNCHANGED <<drawn, saved>>

(* The position in the data is saved, the batches that wait are not.        *)
Save ==
    /\ saved' = [drawn |-> drawn, last |-> last]
    /\ UNCHANGED <<drawn, last, waiting>>

Restart ==
    /\ drawn' = saved.drawn
    /\ last' = saved.last
    /\ waiting' = <<>>
    /\ UNCHANGED saved

Next == Draw \/ Train \/ Save \/ Restart

Spec == Init /\ [][Next]_pipeline

=============================================================================

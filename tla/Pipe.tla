-------------------------------- MODULE Pipe --------------------------------
(***************************************************************************)
(* What a one-way data path of rfrp promises: a bounded FIFO whose writer  *)
(* may end at any time, and then some suffix of what is still inside is    *)
(* lost.  So the reader gets a prefix of what the writer accepted, in      *)
(* order and once, and nothing is accepted after the end.                  *)
(***************************************************************************)
EXTENDS Integers, Sequences

CONSTANT Cap   \* items the path holds before a sender has to wait

VARIABLES
    q,         \* accepted and not yet delivered, oldest first
    writer     \* "run" or "done"

pipeVars == <<q, writer>>

PipeInit == q = <<>> /\ writer = "run"

Accept ==
    /\ writer = "run"
    /\ Len(q) < Len(q') /\ Len(q') <= Cap
    /\ SubSeq(q', 1, Len(q)) = q
    /\ UNCHANGED writer

Deliver ==
    /\ \E n \in 1..Len(q) : q' = SubSeq(q, n + 1, Len(q))
    /\ UNCHANGED writer

End ==
    /\ writer' = "done"
    /\ \E n \in 0..Len(q) : q' = SubSeq(q, 1, n)

PipeSpec == PipeInit /\ [][Accept \/ Deliver \/ End]_pipeVars
=============================================================================

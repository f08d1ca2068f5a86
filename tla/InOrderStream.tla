--------------------------- MODULE InOrderStream ---------------------------
(***************************************************************************)
(* What a stream transport promises (aj_ardp.c calls it "in-order sequence *)
(* delivery"): the reader gets the units of the segments that were sent,   *)
(* in the order they were sent, each of them once.                         *)
(***************************************************************************)
EXTENDS Sequences, SequencesExt, Integers

CONSTANT Units(_)  \* the number of units of the n-th segment

VARIABLES
  sent,  \* segments sent so far
  read   \* the units read so far, each named by its segment

Content(n) == FlattenSeq([k \in 1 .. n |-> [u \in 1 .. Units(k - 1) |-> k - 1]])

Init == sent = 1 /\ read = <<>>

Send == sent' = sent + 1 /\ UNCHANGED read

Read ==
  /\ read' # read /\ IsPrefix(read, read') /\ IsPrefix(read', Content(sent))
  /\ UNCHANGED sent

Spec == Init /\ [][Send \/ Read]_<<sent, read>>

=============================================================================

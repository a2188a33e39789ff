----------------------------- MODULE VectorSpec -----------------------------
(***************************************************************************)
(* What the vectors of kvector.h promise to the editor: every vector is a  *)
(* finite sequence, whatever arrays it lives in, until the machine halts.  *)
(***************************************************************************)
EXTENDS Integers, SequencesExt

CONSTANTS Vec, Elem

VARIABLES content, halted

Becomes(v, s) ==
    /\ content' = [content EXCEPT ![v] = s]
    /\ UNCHANGED halted

Append1(v)  == \E e \in Elem : Becomes(v, Append(content[v], e))
RemoveLast(v) == content[v] # <<>> /\ Becomes(v, Front(content[v]))
Put(v) == \E i \in 1..Len(content[v]) + 1, e \in Elem :
              Becomes(v, InsertAt(content[v], i, e))
Take(v) == \E i \in 1..Len(content[v]) : Becomes(v, RemoveAt(content[v], i))
Empty(v)  == Becomes(v, <<>>)

\* A new editing session: every vector is empty but the buffer, which
\* holds one line.
Restart == \E e \in Elem :
    /\ content' = [v \in Vec |-> IF v = 0 THEN <<e>> ELSE <<>>]
    /\ UNCHANGED halted

Halt == halted' = TRUE /\ UNCHANGED content

SeqInit == content = [v \in Vec |-> <<>>] /\ halted = FALSE

SeqNext ==
    /\ ~halted
    /\ \/ \E v \in Vec : Append1(v) \/ RemoveLast(v) \/ Put(v) \/ Take(v) \/ Empty(v)
       \/ Restart
       \/ Halt

SeqSpec == SeqInit /\ [][SeqNext]_<<content, halted>>

=============================================================================

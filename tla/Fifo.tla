-------------------------------- MODULE Fifo --------------------------------
(***************************************************************************)
(* What a bridge or a buffer of the data path promises: the beats leave in *)
(* the order they were accepted, each once.  In a clock it may accept one  *)
(* beat, hand over one beat, or both; it never hands over a beat in the    *)
(* clock that accepts it.                                                  *)
(***************************************************************************)
EXTENDS SequencesExt, Integers

VARIABLES sent, out     \* beats accepted, beats handed over

vars == <<sent, out>>

Init == sent = <<>> /\ out = <<>>

Put == sent' # <<>> /\ sent' = Append(sent, Last(sent'))

Get == /\ Len(out) < Len(sent)
       /\ out' = Append(out, sent[Len(out) + 1])

Next == \/ Put /\ UNCHANGED out
        \/ Get /\ UNCHANGED sent
        \/ Put /\ Get

Spec == Init /\ [][Next]_vars
=============================================================================

-------------------------------- MODULE Demux --------------------------------
(***************************************************************************)
(* What a splitter of the receive path promises, without its pipeline: of  *)
(* the beats written to it, each lane gets the ones that belong to it, in  *)
(* the order they were written, none twice and none left out.  Several     *)
(* lanes may take a beat at the same time.                                 *)
(***************************************************************************)
EXTENDS SequencesExt, FiniteSets, Integers

CONSTANTS Lanes, LaneOf(_)

VARIABLES
    sent,   \* beats written to the splitter
    out     \* beats each lane has taken

vars == <<sent, out>>

\* Where the lane's beats stand among those written.
PlacesOf(p) == {i \in 1..Len(sent) : LaneOf(sent[i]) = p}

Waiting == {p \in Lanes : Len(out[p]) < Cardinality(PlacesOf(p))}

\* The one of them that comes after those the lane has taken.
NextPlace(p) ==
    CHOOSE i \in PlacesOf(p) : Cardinality({j \in PlacesOf(p) : j < i}) = Len(out[p])

Init == sent = <<>> /\ out = [p \in Lanes |-> <<>>]

\* One beat is written.
Write ==
    /\ sent' # <<>>
    /\ sent' = Append(sent, Last(sent'))
    /\ UNCHANGED out

\* Some lanes take their next beat.
Take(ps) ==
    /\ ps # {}
    /\ out' = [p \in Lanes |->
                 IF p \in ps THEN Append(out[p], sent[NextPlace(p)]) ELSE out[p]]
    /\ UNCHANGED sent

Next == Write \/ \E ps \in SUBSET Waiting : Take(ps)

Spec == Init /\ [][Next]_vars
=============================================================================

---------------------------- MODULE EditTimeline ----------------------------
(***************************************************************************)
(* What an edit history promises, whatever keeps it: the edits stand on    *)
(* one line, in the order they were made, with a cursor between those that *)
(* are in effect and those that were taken back.  Going back and forward   *)
(* only moves the cursor; a new edit replaces everything after it.         *)
(***************************************************************************)
EXTENDS Naturals, Sequences

CONSTANTS
    Edits,      \* the edits that can be made
    Capacity    \* how many of them are remembered

VARIABLES
    line,       \* the edits remembered, oldest first
    pos         \* how many of them are in effect

vars == <<line, pos>>

Init == line = <<>> /\ pos = 0

\* a new edit after the ones in effect; the oldest makes room
Record ==
    /\ line' # <<>>
    /\ line'[Len(line')] \in Edits
    /\ LET longer == Append(SubSeq(line, 1, pos), line'[Len(line')]) IN
           line' = IF Len(longer) > Capacity THEN Tail(longer) ELSE longer
    /\ pos' = Len(line')

\* one edit, or several at once, taken back
Back == pos' < pos /\ UNCHANGED line

\* the edit taken back last, made again
Forward == pos < Len(line) /\ pos' = pos + 1 /\ UNCHANGED line

\* going back for good: nothing after the cursor is kept
Cut == \E k \in 0 .. pos - 1 : line' = SubSeq(line, 1, k) /\ pos' = k

\* edits in effect are forgotten, the order of the others is kept
Forget ==
    \E gone \in SUBSET {line[i] : i \in 1 .. pos} :
        /\ line' = SelectSeq(line, LAMBDA e : e \notin gone)
        /\ pos' = Len(SelectSeq(SubSeq(line, 1, pos), LAMBDA e : e \notin gone))

Clear == line' = <<>> /\ pos' = 0

Next == Record \/ Back \/ Forward \/ Cut \/ Forget \/ Clear

Spec == Init /\ [][Next]_vars
=============================================================================

------------------------------- MODULE Stairs -------------------------------
(***************************************************************************)
(* What the platform game of lab3 promises of its platforms, whatever ring *)
(* buffer holds them: a flight of stairs that scrolls up.  Each stair is   *)
(* below the one before it, neither too close for the ball to pass nor too *)
(* far away to be in sight; stairs leave at the top, once they are out of  *)
(* the arena, and the flight never ends.                                   *)
(***************************************************************************)
EXTENDS Integers, Sequences

CONSTANTS
    Height,       \* of the arena
    Thickness,    \* of a stair
    Speed,        \* pixels the arena moves down in a frame
    MinGap,       \* between two stairs
    MaxGap

VARIABLES
    top,      \* the height at which the arena begins, counted downwards
    stairs    \* the heights of the stairs, from the top to the bottom

Gaps(s) == \A i \in 1..(Len(s) - 1) : s[i + 1] - s[i] \in MinGap..MaxGap

\* The game begins before it has placed its first stair.
Init == top = 0 /\ stairs = <<>>

\* A new game: the next stair, below the arena, will be in reach.
Restart ==
    /\ top' = 0
    /\ stairs' \in Seq(0..Height) \ {<<>>}
    /\ Gaps(stairs')
    /\ Height - stairs'[Len(stairs')] < MaxGap

\* The arena scrolls: exactly the stairs that are out of it leave, at most one
\* comes, at the bottom, and one is left in the arena.
Scroll ==
    /\ top' = top + Speed
    /\ \E n \in 0..(Len(stairs) - 1) :
         LET left == SubSeq(stairs, n + 1, Len(stairs))
         IN /\ \A i \in 1..n : stairs[i] + Thickness < top'
            /\ left[1] + Thickness >= top'
            /\ stairs' \in {left, Append(left, top' + Height)}
    /\ Gaps(stairs')

Next == Restart \/ Scroll

Spec == Init /\ [][Next]_<<top, stairs>>

=============================================================================

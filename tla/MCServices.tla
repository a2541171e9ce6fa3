------------------------------ MODULE MCServices ------------------------------
\* Instance for TLC: as few actors as each part needs for its interesting cases.
EXTENDS Services, TLC

CONSTANTS a1, a2, a3,   \* actors: runs, requests, callers, keys
          b1, b2, b3    \* what they act on

OneSubtask == [t \in {b2} |-> b1]
OneChannel == <<b1>>
TwoCanales == <<b1, b2>>
TwoPlatforms == <<"youtube", "tiktok">>

\* No part tells these two apart.
Actors == Permutations({a1, a2})
=============================================================================

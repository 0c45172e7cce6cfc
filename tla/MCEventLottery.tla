--------------------------- MODULE MCEventLottery ---------------------------
\* A booth over two events: two guests, two prizes, two stock changes, and a
\* clock of two ticks a second.
EXTENDS EventLottery, TLC

\* Ids are only compared, so swapping two of a kind changes nothing.
Symmetry ==
    Permutations(Events) \cup Permutations(Prizes) \cup Permutations(Adjustments)
        \cup Permutations(Refs)

\* Off, and on with a pause of a second and a losing share.
MCSettings == {
    [enabled |-> FALSE, noWin |-> FALSE, cooldown |-> 0],
    [enabled |-> TRUE, noWin |-> TRUE, cooldown |-> 1]}

=============================================================================

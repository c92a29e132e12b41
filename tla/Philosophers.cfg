\* Five philosophers, an odd number: two neighbours have even numbers.
SPECIFICATION FairSpec
CONSTANT N = 5
INVARIANTS TypeOK StickInOneHand NeighboursExclude SomebodyCanGoOn
PROPERTY DinnerEnds

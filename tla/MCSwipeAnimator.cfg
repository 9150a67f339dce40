SPECIFICATION FairSpec
CONSTANTS
  Positions = {0, 1, 2}
  MaxFrames = 2
INVARIANTS OwnerAlone CommittedAtGoal
PROPERTIES CallReturns AnimationEnds ImplementsContract
CHECK_DEADLOCK FALSE

SPECIFICATION MCSpec
CONSTANTS
  Slots = 2
  Titles = {t1, t2, t3}
  NoTitle = NoTitle
  Days = {1}
  Cards = 2
  MaxRuns = 4
SYMMETRY TitleSymmetry
INVARIANT OneRecord
INVARIANT NothingLost
INVARIANT BitsFollowCount
PROPERTY VictimLeastUsed
CHECK_DEADLOCK FALSE

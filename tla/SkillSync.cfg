\* Two skills, one of them built in, with one worker and two refreshes.
SPECIFICATION FairSpec
CONSTANTS
  Skills = {s1, s2}
  BuiltIn = {s1}
  Workers = {w}
  MaxFetches = 2
INVARIANTS TypeOK FlagsTrue ScreenTrue
PROPERTIES LoadingEnds
CHECK_DEADLOCK FALSE

SPECIFICATION Spec
CONSTANTS
  ra = ra  rb = rb  rc = rc  rd = rd  rw = rw  rh = rh
  Runs = {ra, rb, rc, rd, rw, rh}
  Program <- MCProgram
  Answers = {"yes", "no"}
  Plans <- MCPlans
INVARIANTS TypeOK NothingLeaks AnswersAgree
PROPERTIES OutcomeIsFinal SectionsKept FollowedEnds
CHECK_DEADLOCK FALSE

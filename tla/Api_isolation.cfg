SPECIFICATION Spec
CONSTANTS
  ra = ra  rb = rb  rc = rc  rd = rd  rw = rw  rh = rh
  Runs = {ra, rb, rc, rd, rw, rh}
  Program <- MCProgram
  Answers = {"yes", "no"}
  Plans <- Torn
PROPERTY SectionIsolation
CHECK_DEADLOCK FALSE

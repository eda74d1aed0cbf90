SPECIFICATION Spec
CONSTANTS
  a = a  l1 = l1  l2 = l2
  p0 = p0  p2 = p2  tl = tl  d = d
  o1 = o1  o2 = o2  r1 = r1
  mcp = mcp  oauth = oauth
INVARIANTS TypeOK Driven OnceOnly
PROPERTIES HumanDecides CallsEnd
CHECK_DEADLOCK FALSE

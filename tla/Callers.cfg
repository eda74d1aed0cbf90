SPECIFICATION Spec
CONSTANTS
  n = n  s = s  vw = vw  x = x
  e = e  q1 = q1  q2 = q2
  h = h  d = d
  TimePlans <- MCTimePlans
  WebhookPlans <- MCWebhookPlans
  HttpPlans <- MCHttpPlans
INVARIANTS TypeOK CallsKept Driven
PROPERTY CallsEnd
CHECK_DEADLOCK FALSE

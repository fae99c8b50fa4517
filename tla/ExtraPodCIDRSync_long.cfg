CONSTANTS
  Pods = {p1}
  Long = {{p1}}
  Templates = {t1, t2}
  None = None
  MaxEdits = 1
  MaxFaults = 1
  MaxLag = 2
SPECIFICATION Spec
PROPERTY EventuallySettled
CHECK_DEADLOCK FALSE

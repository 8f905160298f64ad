SPECIFICATION Spec
CONSTANTS
  j1 = j1
  j2 = j2
  j3 = j3
  j4 = j4
  f1 = f1
  f2 = f2
  NULL = NULL
  Jobs <- MCJobs
  Finders <- MCFinders
  Ops <- MCAppend
SYMMETRY MCSymmetry
INVARIANT AppendsAtTail

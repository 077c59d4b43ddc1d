\* Three threads of which at most two run at a time, so that a tid is given again;
\* two loops.
SPECIFICATION Spec
CONSTANTS
  p = p
  q = q
  r = r
  x = x
  y = y
  Thread = {p, q, r}
  NoThread = NoThread
  Tid = {1, 2}
  Loop = {x, y}
  NoLoop = NoLoop
SYMMETRY Symmetric
INVARIANTS
  OneThreadInside
  OneLoopPerThread

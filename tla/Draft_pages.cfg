SPECIFICATION Spec
CONSTANTS
  w1 = w1
  Workers <- OneWorker
  FirstPages = 2
  MaxPages = 3
  MaxOps = 4
  MaxFaults = 1
CHECK_DEADLOCK FALSE
INVARIANTS TypeOK FieldsStayPut FlatUnlessTorn
 

SPECIFICATION Spec
INVARIANTS
  TypeOK
  
  OctaviaAsAsked

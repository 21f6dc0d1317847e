\* Every class and function of the tables, built, used and destroyed.
SPECIFICATION Spec
CONSTANT Table <- CodeTable
INVARIANTS
  NoDoubleFree
  NothingKept
  NeededAlive

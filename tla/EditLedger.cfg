SPECIFICATION SpecTools
CONSTANTS
  Writers = {w1, w2}
  Agents = {w1}
  Paths = {f1, f2}
  Lines = {l1}
  MaxWrites = 2
  MaxEntries = 2
  Revision <- MCRevision
  Tag <- MCTag
  MaxTracked = 2
  MaxGrants = 1
SYMMETRY PathSymmetry
INVARIANTS
  OneWriterPerPath
  NoUpdateLost
  EditsMatchTheirRead
  PrintedAuthorizes
CHECK_DEADLOCK FALSE
\* In place of the properties above, one that the code violates:
\*   INVARIANT AllPrintedAuthorize

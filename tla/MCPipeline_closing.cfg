SPECIFICATION Spec
CONSTANTS
  Sessions = {s1}
  Jobs = {j1}
  Candidates = {c1}
  Applications = {a1, a2}
  Null = Null
  AdminTargets = {"APPROVED_BY_ADMIN"}
  CompanyTargets = {"HIRED"}
SYMMETRY PipelineSymmetry
CHECK_DEADLOCK FALSE
PROPERTIES
  EntryIntoClosedSweeps

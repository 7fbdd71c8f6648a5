SPECIFICATION Spec
CONSTANT Loads <- DiagLoads
INVARIANT StagedDiagRuns

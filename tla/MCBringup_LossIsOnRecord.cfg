SPECIFICATION Spec
CONSTANT Loads <- WitnessLoads
INVARIANT LossIsOnRecord

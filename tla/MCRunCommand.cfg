SPECIFICATION Spec
CONSTANT HelperKinds = {"quiet", "piped"}
INVARIANTS TypeOK CancelIsNotTimeout NoSurvivors CodeTellsEnd OutputComplete
PROPERTY Returns
CHECK_DEADLOCK FALSE

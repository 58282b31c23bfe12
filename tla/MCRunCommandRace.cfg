SPECIFICATION Spec
CONSTANT HelperKinds = {"quiet", "piped"}
INVARIANT TimeoutReported
CHECK_DEADLOCK FALSE

SPECIFICATION Spec
CONSTANT HelperKinds = {"quiet", "piped", "detached"}
PROPERTY Returns
CHECK_DEADLOCK FALSE

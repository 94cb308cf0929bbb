SPECIFICATION SignInSpec
CONSTANTS
  Users = {"ann"}
  Flows = {1}
  MaxSignIns = 2
  MaxEnrolments = 1
INVARIANT SignedInHasCsrf
CHECK_DEADLOCK FALSE

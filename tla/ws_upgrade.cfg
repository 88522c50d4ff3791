SPECIFICATION Spec
CONSTANT Requests <- MCRequests
INVARIANT GoodRequestUpgrades
CHECK_DEADLOCK FALSE

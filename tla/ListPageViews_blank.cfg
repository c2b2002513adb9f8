\* The home page renders nothing after a failed dashboard fetch.
SPECIFICATION Spec
INVARIANT HomeNeverBlankAfterFailure

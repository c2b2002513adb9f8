\* The home page and the queries history show their empty state while
\* their first fetch is in flight.
SPECIFICATION Spec
INVARIANT HomeAndHistoryLoadingShowSkeleton

\* The volumes and tables pages show skeleton rows while their first fetch
\* is in flight, and the empty state only for a list answered empty or failed.
SPECIFICATION Spec
INVARIANT VolumesShowsServerAnswer
INVARIANT TablesShowsServerAnswer

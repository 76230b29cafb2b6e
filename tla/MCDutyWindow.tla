---- MODULE MCDutyWindow ----
\* Small instances of DutyWindow: three or four buckets two units wide, frames
\* of one and two units; the bench's ring is read beside the crate's.
EXTENDS BenchDuty
====

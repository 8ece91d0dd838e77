------------------------- MODULE MCSchedulerControl -------------------------
\* Bounded instance of SchedulerControl: every mix of calls.
EXTENDS SchedulerControl

=============================================================================

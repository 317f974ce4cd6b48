----------------------------- MODULE MCLifecycle ------------------------------
\* Instances of the life cycle for model checking: a provider has two tasks, one
\* that refreshes metrics and one that checks the upstream's health.
EXTENDS Lifecycle

MCTasks == {"RefreshKeyPoolMetrics", "ActiveHealthCheck"}
==============================================================================

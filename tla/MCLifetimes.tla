---------------------------- MODULE MCLifetimes -----------------------------
EXTENDS Lifetimes

\* Nothing orders workers, events or the application's references, and no
\* property of the run is about liveness.
Symmetry == Permutations(Workers) \cup Permutations(Events) \cup Permutations(Own)
=============================================================================

----------------------------- MODULE MCExtDll -----------------------------
EXTENDS ExtDll

With(rs, ss) == {[after |-> r, stage |-> s, delayed |-> [d \in Dlls |-> s[d] = Delay]] :
                    r \in rs, s \in [Dlls -> ss]}

\* Relations over three entries, each with every assignment of the stages: no
\* dependencies, a chain listed in either direction, two dependents of one,
\* one dependent of two, a dependent of the last, a cycle with a dependent.
MCRelations == With({<<{}, {}, {}>>, <<{2}, {3}, {}>>, <<{}, {1}, {2}>>, <<{}, {1}, {1}>>,
                     <<{2, 3}, {}, {}>>, <<{3}, {}, {}>>, <<{2}, {1}, {1}>>}, Stages)

\* Five entries: the first two depend on each other, the others form the
\* chain 3 after 4 after 5, listed in reverse, 5 waiting for the game's data.
MCCycle == {[after |-> <<{2}, {1}, {4}, {5}, {}>>,
             stage |-> <<Normal, Normal, Normal, Normal, DataReady>>,
             delayed |-> [d \in Dlls |-> FALSE]]}
=============================================================================

------------------------------ MODULE MCStates ------------------------------
(* Three chunks, with few requisites between them and few options.          *)
EXTENDS StateRun

Kinds == Direct \cup {"listen"}
Edge  == {<<k, c, d>> \in Kinds \X Chunks \X (Chunks \cup {Missing}) : c # d}

Low(E, parallel, failhard, invalid) ==
    [req |-> E, parallel |-> parallel, failhard |-> failhard, invalid |-> invalid]

\* any two requisites, and one chunk that is parallel or cannot be called, or
\* both, or failhard for all, in state.sls or in the master's configuration
Two == {Low({e, f}, o[1], o[2], o[3]) : e \in Edge, f \in Edge,
         o \in {<<{}, {}, {}>>, <<{}, Chunks, {}>>} \cup {<<{c}, {}, {}>> : c \in Chunks}
             \cup {<<{c}, Chunks, {}>> : c \in Chunks} \cup {<<{}, {}, {c}>> : c \in Chunks}
             \cup {<<{c}, {}, {c}>> : c \in Chunks}}

\* three requisites that exist, on no cycle, whichever way round a prereq is taken
Orders == {p \in [Chunks -> Chunks] : \A c, d \in Chunks : p[c] = p[d] => c = d}
Fits(p, q) ==
    {e \in Edge : /\ e[1] # "listen" /\ e[3] # Missing
                  /\ p[e[3]] < p[e[2]]
                  /\ IF e[1] = "prereq" THEN q[e[2]] < q[e[3]] ELSE q[e[3]] < q[e[2]]}
Three == {Low(E, {}, {}, {}) : E \in
            UNION {{{e, f, g} : e, f, g \in Fits(p, q)} : p, q \in Orders}}

MCSlses == Two \cup Three
=============================================================================

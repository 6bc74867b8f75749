---------------------------- MODULE MCGenerationTasks ----------------------------
EXTENDS GenerationTasks

CONSTANTS e1, s1, g1, a1, a2, u1

MCResource == {<< "storyboard", s1 >>, << "video", s1 >>, << "sheet", a1 >>,
               << "grid", g1 >>, << "unit", u1 >>}
MCJob == MCResource \union User \union {Scanner}
MCEpisodeOf == [x \in {s1, g1, u1} |-> e1]

=================================================================================

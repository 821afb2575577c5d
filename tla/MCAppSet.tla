------------------------------ MODULE MCAppSet ------------------------------
(* AppSet with two apps, a second app id for each, and few answers, some of *)
(* which are also about an app that is neither.                             *)
EXTENDS AppSet

Unset == [id |-> None, hint |-> None, name |-> None]

Plain(i) == [id |-> i, cohort |-> Unset, counting |-> None]

\* The embedder configures the hint of the second app only.
MCConfig == <<Plain("A"), [Plain("B") EXCEPT !.cohort.hint = "x"]>>

MCAppIds == <<{"A", "C"}, {"B", "D"}>>

Reply(i, cohort, offered) == [id |-> i, cohort |-> cohort, offered |-> offered]

InTrack(v) == [Unset EXCEPT !.id = v]
Hinted(v) == [Unset EXCEPT !.hint = v, !.name = v]

Day(n) == [elapsed_days |-> n]

MCAnswers ==
    {[daystart |-> Day(1), apps |-> <<Reply("B", Unset, FALSE), Reply("A", InTrack("x"), TRUE),
                                     Reply("Z", Hinted("y"), FALSE)>>],
     [daystart |-> None, apps |-> <<Reply("A", Hinted("y"), FALSE), Reply("B", [InTrack("y") EXCEPT !.hint = "y"], TRUE)>>],
     [daystart |-> Day(2), apps |-> <<Reply("C", InTrack("y"), TRUE)>>],
     [daystart |-> Day(2), apps |-> <<Reply("Z", Hinted("y"), TRUE), Reply("D", InTrack("x"), FALSE)>>]}
=============================================================================

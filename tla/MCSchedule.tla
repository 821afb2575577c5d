----------------------------- MODULE MCSchedule -----------------------------
(* Schedule with the builds of the tests, of the hello-world example and of *)
(* an embedder that keeps to an interval, in steps of half a microsecond    *)
(* around the epoch.                                                        *)
EXTENDS Schedule

SmallBuilds ==
    {<<"stub", "exact", "stub">>, <<"mock", "exact", "durable">>,
     <<"minimal", "minimal", "stub">>,
     <<"interval", "exact", "faulty">>, <<"interval", "minimal", "durable">>}
SmallOffsets == {-2500, 500}

\* A storage that never fails and a clock that is never wrong.
DurableBuild == {<<"interval", "exact", "durable">>}
RightClock == {0}
=============================================================================

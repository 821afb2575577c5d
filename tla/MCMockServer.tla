---------------------------- MODULE MCMockServer ----------------------------
(* MockServer with two apps, each of which may be added with other data, and *)
(* with configurations of every kind of response.                            *)
EXTENDS MockServer

SmallData ==
    {[version |-> <<1>>, cohort |-> None, days |-> None],
     [version |-> <<1, 2>>, cohort |-> "1:1:", days |-> 4775]}

SmallParams ==
    {[source |-> "ondemand", disable |-> FALSE, sameVersion |-> FALSE],
     [source |-> "scheduledtask", disable |-> TRUE, sameVersion |-> TRUE]}

With(response, assertion, version) ==
    [response |-> response, check_assertion |-> assertion, version |-> version,
     cohort_assertion |-> None, codebase |-> "fuchsia-pkg://", package_name |-> "update"]

SmallConfigurations ==
    {<<>>,
     [id \in {"A"} |-> With("Update", "UpdatesEnabled", <<1, 0, 0, 0>>)],
     [id \in {"A"} |-> With("InvalidResponse", "UpdatesEnabled", None)],
     [id \in {"A", "B"} |-> With(IF id = "A" THEN "NoUpdate" ELSE "UrgentUpdate",
                                 "UpdatesEnabled", None)],
     [id \in {"A", "B"} |-> With(IF id = "A" THEN "InvalidURL" ELSE "Update",
                                 "UpdatesDisabled", None)]}

SmallEvents == {Error("Installation")}
SmallCohorts == {None, "1:1:"}
=============================================================================

---------------------------- MODULE MCTaskIndex ----------------------------
(***************************************************************************)
(* Instances of TaskIndex for TLC: where the tasks are, what the Melonade  *)
(* steps are called for, the queries of a dispatcher, and the deadlines of *)
(* the summary.                                                            *)
(***************************************************************************)
EXTENDS TaskIndex, TLC

CONSTANTS t1, t2, s1, s2, j1, j2, j3

\* The map has the second task in another area than its order, and it has no
\* team of its own.
MCabout ==
    LET planned == [area |-> "bangkok", geography |-> "bangkok", team |-> "blue", from |-> 1,
                    to |-> 2, deadline |-> 3, hasTrip |-> FALSE, completedAt |-> NoTime]
    IN  (t1 :> planned)
            @@ (t2 :> [planned EXCEPT !.geography = "chonburi", !.team = NoTeam, !.deadline = 1])

\* Nobody, one staff, or two of whom the first left the company.
MCStaffLists == {<<>>, <<s1>>, <<s2, s1>>}

MCteamOf == [s \in Staff |-> "red"]

MCwork ==
    (j1 :> [kind |-> "sccd", tasks |-> {t1}, status |-> "CANCELLED"])
        @@ (j2 :> [kind |-> "track", tasks |-> {t1, t2}, status |-> "CANCELLED"])
        @@ (j3 :> [kind |-> "track", tasks |-> {t1}, status |-> "CANCELLED"])

Case(first, second, missing, jobs, writes, syncs, faults) ==
    [source |-> (t1 :> first) @@ (t2 :> second), missing |-> missing, jobs |-> jobs,
     budget |-> [writes |-> writes, syncs |-> syncs, faults |-> faults]]

MCCases ==
    {Case("TRUE_CFM", "OTHER_PROJECT", {}, {}, 2, 0, 1),
     Case("TRUE_CFM", "OTHER_PROJECT", {}, {}, 1, 0, 2),
     Case("QRUN", "OTHER_PROJECT", {}, {j1}, 1, 0, 1),
     Case("QRUN", "QRUN", {}, {j2, j3}, 0, 0, 0),
     Case("QRUN", "QRUN", {}, {j3}, 1, 0, 0),
     Case("QRUN", "QRUN", {}, {j3}, 0, 0, 1),
     Case("QRUN", "TRUE_CFM", {t1, t2}, {}, 1, 1, 0),
     Case("QRUN", "TRUE_CFM", {t1}, {}, 1, 1, 1)}

Query(areas, teams, from, to) ==
    [staffs |-> {s1}, areaCodes |-> areas, teams |-> teams, from |-> from, to |-> to]

\* Two periods of which one follows the other, with areas and without.
MCQueries ==
    {Query({"bangkok"}, {}, 0, 2), Query({"bangkok", "chonburi"}, {"blue"}, 2, 4),
     Query({}, {"red"}, 0, 3)}

MCTimes == 1..3
=============================================================================

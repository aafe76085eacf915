---------------------------- MODULE MCAutoAssign ----------------------------
(***************************************************************************)
(* Small situations for TLC.  Days: one call about one driver, over shifts *)
(* of one or two parts and across midnight and seven o'clock, trips with   *)
(* and without tasks in their window, reserved times and times of the day. *)
(* Meetings: two calls about two drivers in opposite orders while a trip   *)
(* changes.  Plans: two jobs on the same tasks, with failures.             *)
(***************************************************************************)
EXTENDS AutoAssign

CONSTANTS d1, d2, c1, c2, j1, j2

\* Tasks by name: k in trips, p in the pool.
Names == {"k1", "k2", "k3", "k4", "k5", "appointment", "tomorrow", "early", "urgent", "soon", "late"}
S(a, b) == [start |-> a, end |-> b]
MCWindow ==
    [k \in Names |-> CASE k = "k1" -> S(36, 40) [] k = "k2" -> S(40, 46) [] k = "k3" -> S(56, 60)
                       [] k = "k4" -> S(72, 76) [] k = "k5" -> S(10, 14)
                       [] k = "appointment" -> S(42, 48) [] k = "tomorrow" -> S(64, 68)
                       [] OTHER -> S(0, 4)]
MCPool == Names \ {"k1", "k2", "k3", "k4", "k5"}
MCLength == [k \in Names |-> IF k = "late" THEN 8 ELSE 4]
MCDue == [k \in Names |-> CASE k = "early" -> 26 [] k = "urgent" -> 30 [] k = "soon" -> 66 [] k = "late" -> 95
                            [] k = "appointment" -> 66 [] OTHER -> 160]

Doc(ks, window, staffs) ==
    [tasks |-> ks, window |-> window, done |-> FALSE, staffs |-> staffs, deleted |-> FALSE]
Bound(ks) ==
    [k \in Names |-> [trip |-> IF k \in ks THEN 1 ELSE NoTrip, number |-> 0, staffs |-> {},
                      deleted |-> FALSE, todosDeleted |-> FALSE]]
None == [kind |-> "none"]
Situation(docs, w1, w2, a1, a2) ==
    [trips |-> docs,
     tasks |-> Bound(UNION {ToSet(docs[t].tasks) : t \in DOMAIN docs}),
     work |-> (j1 :> w1 @@ j2 :> w2),
     asked |-> (c1 :> a1 @@ c2 :> a2)]

Staffer(d, now, shift, reserved, reach) ==
    [driver |-> d, now |-> now, shift |-> shift, reserved |-> reserved, reach |-> reach]

DayTrips == {<<"k1">>, <<"k2">>, <<"k3">>, <<"k1", "k2">>, <<"k1", "k3">>, <<"k2", "k3">>, <<"k1", "k2", "k3">>}
DayDocs ==
    {<<>>} \cup {<<Doc(ks, w, {d1})>> : ks \in DayTrips, w \in {S(32, 68)}}
           \cup {<<Doc(ks, Hull(ks), {d1})>> : ks \in DayTrips}
Days ==
    {Situation(docs, None, None, <<Staffer(d1, now, shift, reserved, reach)>>, <<>>) :
        docs \in DayDocs,
        now \in {30, 38, 44, 50, 62},
        shift \in {<<S(32, 68)>>, <<S(32, 48), S(52, 68)>>, <<S(52, 68), S(32, 48)>>},
        reserved \in {<<>>, <<S(46, 50)>>, <<S(32, 36), S(64, 68)>>},
        reach \in {{"soon"}, {"appointment", "late"}, MCPool}}
Nights ==
    {Situation(docs, None, None, <<Staffer(d1, now, shift, reserved, reach)>>, <<>>) :
        docs \in {<<>>, <<Doc(<<"k4">>, S(72, 76), {d1})>>, <<Doc(<<"k5">>, S(10, 14), {d1})>>},
        now \in {0, 8, 18, 22, 26, 74, 86, 90, 93, 94},
        shift \in {<<S(0, 32)>>, <<S(64, 80), S(84, 94)>>, <<S(68, 95)>>},
        reserved \in {<<>>, <<S(0, 10)>>, <<S(84, 88)>>, <<S(84, 93)>>},
        reach \in {{"early"}, {"urgent"}, {"soon"}, {"late"}}}

RemoveTask(k) == [kind |-> "saga", trip |-> 1, task |-> k, tasks |-> <<>>, staff |-> d1,
              steps |-> <<"remove", "number", "deleteTodos", "deleteTask", "other">>]
Arrange == [kind |-> "saga", trip |-> 1, task |-> "k1", tasks |-> <<>>, staff |-> d1,
            steps |-> <<"reorder", "other", "number">>]
AssignTo == [kind |-> "saga", trip |-> 1, task |-> "k1", tasks |-> <<"k1", "k3">>, staff |-> d2,
             steps |-> <<"assign", "other">>]
Add(ks) == [kind |-> "addTasks", trip |-> 1, tasks |-> ks]
Create(kind, ks) == [kind |-> kind, tasks |-> ks, window |-> Hull(ks), staffs |-> {d1}]

Meetings ==
    {Situation(<<Doc(<<"k1">>, S(36, 40), {d1})>>, w, None,
               <<Staffer(d1, 30, <<S(32, 68)>>, <<>>, {"soon", "late"}),
                 Staffer(d2, 30, <<S(32, 68)>>, <<>>, {"soon"})>>,
               <<Staffer(d2, 30, <<S(32, 68)>>, <<>>, {"soon", "late"})>>) :
        w \in {None, Add(<<"k2">>)}}

Unordered == <<Doc(<<"k2", "k1">>, S(32, 68), {d1})>>
Single == <<Doc(<<"k1">>, S(36, 40), {d1})>>
Plans ==
    {Situation(docs, w, v, <<>>, <<>>) :
        docs \in {Unordered, Single},
        w \in {RemoveTask("k1"), Arrange, AssignTo},
        v \in {RemoveTask("k1"), Arrange, Add(<<"k3">>), Create("createTrip", <<"k1", "k3">>)}}
    \cup
    {Situation(<<>>, w, v, <<>>, <<>>) :
        w \in {Create(kind, <<"k1", "k2">>) : kind \in Creations},
        v \in {Create(kind, <<"k2", "k3">>) : kind \in Creations}}

MCCases == Days \cup Nights \cup Meetings \cup Plans
=============================================================================

--------------------------- MODULE MCTodoExecution ---------------------------
(***************************************************************************)
(* TodoExecution on a small trip: an instance names tasks and todos of the *)
(* tables below.                                                           *)
(***************************************************************************)
EXTENDS TodoExecutionAlone, TLC

Slots == Permutations(Slot)

TypesOfTask == [accept |-> "ACCEPT_TRIP", pickup |-> "PICKUP", pickup2 |-> "PICKUP",
                drop |-> "DELIVERY", drop2 |-> "DELIVERY", back |-> "RETURN"]

\* Task and type of every todo an instance may use.
TodoTable ==
    [accept_trip |-> <<"accept", "ACCEPT_TRIP">>,
     pickup_set_off |-> <<"pickup", "SET_OFF">>,
     pickup_check_in |-> <<"pickup", "CHECK_IN">>,
     pickup_done |-> <<"pickup", "PICKED_UP">>,
     drop_set_off |-> <<"drop", "SET_OFF">>,
     drop_pod |-> <<"drop", "POD">>,
     drop_done |-> <<"drop", "DELIVERED">>,
     drop_receipt |-> <<"drop", "RECEIPT">>,
     drop2_set_off |-> <<"drop2", "SET_OFF">>,
     drop_summary |-> <<"drop", "SUMMARY">>,
     drop2_pod |-> <<"drop2", "POD">>,
     drop2_receipt |-> <<"drop2", "RECEIPT">>,
     back_set_off |-> <<"back", "SET_OFF">>,
     back_check_in |-> <<"back", "CHECK_IN">>]

MCtaskOf == [x \in Todo |-> TodoTable[x][1]]
MCtodoType == [x \in Todo |-> TodoTable[x][2]]
MCtaskType == [t \in Task |-> TypesOfTask[t]]
==============================================================================

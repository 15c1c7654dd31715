------------------------------- MODULE MCEdge -------------------------------
(***************************************************************************)
(* Five loads: an outage under three reports; typed disruptions up to the  *)
(* limit; any reply of the model; recoveries on screen; both at once.      *)
(***************************************************************************)
EXTENDS Edge

Row(date, shoots, place, players) ==
    [date |-> date, shoots |-> shoots, place |-> place, players |-> players]

\* The barn shoots on day 1, the quay on days 1 and 2; day 3 is a hold.
Before == [places |-> {"barn", "quay"}, cast |-> {"ann"},
           rows |-> {Row(1, TRUE, "barn", {}), Row(2, TRUE, "quay", {"ann"}), Row(3, FALSE, "barn", {"ann"})}]
\* Ann's scene was moved to the reserve day.
Later  == [Before EXCEPT !.rows = {Row(1, TRUE, "barn", {}), Row(2, FALSE, "quay", {}), Row(3, TRUE, "quay", {"ann"})}]

Replies ==
    [confident : BOOLEAN, type : {"location.blocked", "actor.unavailable", "weather.adverse"},
     entity : {"barn", "quay", "ann", "lighthouse"}, day : {1, 2, 3, 9}]

Vague == [confident |-> FALSE, type |-> "", entity |-> "", day |-> 0]

\* Reports in an outage; typed disruptions the model cannot place, to the limit;
\* one with any reply, while the board changes; recoveries on screen; a recovery
\* while reports hold the threads.
Quiet == [messages |-> 0, reported |-> FALSE, replies |-> {}, boards |-> {Before}, screens |-> {},
          runs |-> {}]

MCLoads ==
    {[Quiet EXCEPT !.messages = 3, !.reported = TRUE],
     [Quiet EXCEPT !.messages = 3, !.replies = {Vague}],
     [Quiet EXCEPT !.messages = 1, !.replies = Replies, !.boards = {Before, Later}],
     [Quiet EXCEPT !.screens = Screens, !.runs = {1, 2}],
     [Quiet EXCEPT !.messages = 2, !.reported = TRUE, !.runs = {1}]}
=============================================================================

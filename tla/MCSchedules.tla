---------------------------- MODULE MCSchedules ----------------------------
(***************************************************************************)
(* Instances of Schedules: a day of two instants, a monitor's daily rule   *)
(* that may move to a window across midnight, the once rule of a task and  *)
(* the rule of a user.                                                     *)
(***************************************************************************)
EXTENDS Schedules

MCDates == {0, 1}
MCTimes == 0 .. 3

Daily(hour, length) == [once |-> FALSE, dates |-> MCDates, hour |-> hour, length |-> length, bytes |-> 1]
Once(date, hour, length) == [once |-> TRUE, dates |-> {date}, hour |-> hour, length |-> length, bytes |-> 1]

MCRules == {1, 2}
MCSource == <<"news", "talk">>
MCOwner == <<"monitor", "task">>
MCDrafts == << {Daily(1, 2), Daily(0, 1)}, {Once(0, 1, 2)} >>
MCSprings == {<<1, 1>>}

\* A client may record under the id of the first date of the monitor's rule.
MCClientIds == {<<1, 0>>}

\* The first version only follows the station of the monitor's own rule.
MCFirstPolicy ==
  [capture |-> TRUE, daily |-> 1, total |-> 3, bytes |-> 2, sources |-> {"news"}, candidates |-> {"talk"}]
MCPolicies ==
  {[MCFirstPolicy EXCEPT !.daily = 2, !.total = 4, !.sources = {"news", "talk"}]}

Plenty == [admit |-> TRUE, slots |-> 2, room |-> 2, listening |-> {}, reclaimed |-> 2, receipt |-> 0]
MCConditions ==
  {Plenty, [Plenty EXCEPT !.admit = FALSE], [Plenty EXCEPT !.slots = 1, !.room = 0, !.receipt = 2],
   [Plenty EXCEPT !.room = 1, !.reclaimed = 0, !.listening = {"talk"}]}

\* Two once rules of a user; the first may be moved to a later hour.
UserRules == {1, 2}
UserOwner == <<"user", "user">>
UserDrafts == << {Once(0, 1, 1), Once(0, 2, 1)}, {Once(1, 1, 1)} >>
UserTimes == 0 .. 7
PlentyOnly == {Plenty}
=============================================================================

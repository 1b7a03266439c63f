-------------------------------- MODULE MCPaging --------------------------------
(* An instance of PagingProps for TLC. *)
EXTENDS PagingProps

CONSTANTS d1, d2

\* Telegrams 2 and 3 share a timestamp.
MCTelegrams == 1..5
MCNameOf == <<d1, d1, d1, d2, d2>>
MCTimeOf == <<1, 2, 2, 3, 4>>
MCDptOf == <<<<1, 1>>, <<1, 2>>, <<9, None>>, <<9, 1>>, <<1, 1>>>>
MCBatches == {<<1>>, <<2>>, <<3>>, <<3, 2>>, <<4>>, <<5, 1>>}

\* With each filter every window of time, and with one of them every page.
MCFilters ==
  [dests : {{}, {d1}, {d1, d2}}, mains : {{}, {1}}, dpts : {{}, {<<9, None>>}, {<<1, 2>>, <<9, 1>>}}]
MCTimes ==
  [start : {None, 2}, end : {None, 3}, before : {0, 1}, after : {0, 2}]
MCSlices == [desc : BOOLEAN, offset : {0, 1}, limit : {1, 2, 9}]

MCQueries ==
  LET Q(f, t, s) == [dests |-> f.dests, mains |-> f.mains, dpts |-> f.dpts,
                     start |-> t.start, end |-> t.end, before |-> t.before, after |-> t.after,
                     desc |-> s.desc, offset |-> s.offset, limit |-> s.limit]
  IN {Q(f, t, [desc |-> TRUE, offset |-> 0, limit |-> 9]) : f \in MCFilters, t \in MCTimes}
     \cup {Q(f, t, s) : f \in {[dests |-> {d1}, mains |-> {}, dpts |-> {}]},
                        t \in {[start |-> 2, end |-> None, before |-> 1, after |-> 0]}, s \in MCSlices}
=============================================================================

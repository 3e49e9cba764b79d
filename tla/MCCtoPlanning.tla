---------------------------- MODULE MCCtoPlanning ----------------------------
(***************************************************************************)
(* Small instances of CtoPlanning: three tasks with every combination of a *)
(* few dependency lists, good and bad, and of two priorities; four tasks   *)
(* of some shapes with all priorities; too few, too many, repeated ids.    *)
(***************************************************************************)
EXTENDS CtoPlanning

MCTask(id, priority, deps) == [id |-> id, priority |-> priority, deps |-> deps]
List(ids, priorities, deps) == [i \in DOMAIN ids |-> MCTask(ids[i], priorities[i], deps[i])]

Lists == {<<>>, <<1>>, <<2>>, <<3>>, <<1, 3>>, <<3, 2>>, <<1, 1>>, <<9>>}
Three == {List(<<1, 2, 3>>, p, d) : p \in [1 .. 3 -> 1 .. 2], d \in [1 .. 3 -> Lists]}
Four == {List(<<4, 1, 3, 2>>, p, d) :
           p \in [1 .. 4 -> 1 .. 2],
           d \in {<< <<>>, <<4>>, <<4>>, <<3, 1>> >>, << <<2>>, <<2>>, <<4>>, <<>> >>,
                  << <<1>>, <<>>, <<1, 4, 1>>, <<3>> >>, << <<3>>, <<>>, <<2>>, <<4>> >>}}
Odd == {List(ids, <<1, 1, 1, 1, 1>>, << <<>>, <<>>, <<>>, <<>>, <<>> >>) :
          ids \in {<<1, 2>>, <<1, 2, 2>>, <<1, 2, 3, 4, 5>>}}
MCAnswers == Three \union Four \union Odd

(* Boards of three tasks: some done, one or two failed, or none yet.        *)
Boards == {<<>>, <<"DONE", "FAILED", "DONE">>, <<"FAILED", "FAILED", "DONE">>} \union
          [1 .. 3 -> {"DONE", "WAITING"}]
===============================================================================

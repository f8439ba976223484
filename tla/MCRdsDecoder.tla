---------------------------- MODULE MCRdsDecoder ----------------------------
(* Programmes for TLC: each group type with the mishaps it is exposed to. *)
EXTENDS RdsDecoder

Well == [errors |-> 0, slips |-> 0, fades |-> 0, false |-> 0, changes |-> 0]
Name == <<"a", "b", "b", "a">>
Short == <<"b", "b", " ", " ">>
Long == <<"a", "b", "b", "a", "b", "a", "a", "b">>
Ended == <<"a", "b", "a", CR, " ", " ", " ", " ">>
Time(mjd, hour, minute) == [mjd |-> mjd, hour |-> hour, minute |-> minute]

MCProgrammes == {
  [gt |-> 3, ver |-> 0, msgs |-> {<<"x">>}, may |-> [Well EXCEPT !.false = 3]],
  [gt |-> 3, ver |-> 1, msgs |-> {<<"x">>},
   may |-> [Well EXCEPT !.slips = 2, !.errors = 1, !.fades = 1]],
  [gt |-> 0, ver |-> 0, msgs |-> {Name, Short},
   may |-> [Well EXCEPT !.errors = 1, !.fades = 1, !.changes = 1]],
  [gt |-> 10, ver |-> 0, msgs |-> {Name}, may |-> [Well EXCEPT !.errors = 2, !.fades = 1]],
  [gt |-> 2, ver |-> 0, msgs |-> {Long, Ended},
   may |-> [Well EXCEPT !.errors = 1, !.fades = 1, !.changes = 1]],
  [gt |-> 2, ver |-> 1, msgs |-> {Long}, may |-> [Well EXCEPT !.errors = 2]],
  [gt |-> 4, ver |-> 0,
   msgs |-> {Time(15079, 0, 0), Time(51543, 23, 59), Time(51603, 12, 0), Time(60368, 0, 0),
             Time(60369, 9, 30), Time(60675, 23, 0), Time(88127, 1, 1), Time(60368, 24, 0)},
   may |-> [Well EXCEPT !.errors = 1, !.changes = 1]]}
=============================================================================

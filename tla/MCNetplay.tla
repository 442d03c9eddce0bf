------------------------------ MODULE MCNetplay -------------------------------
(* The two sides of a match that share no state here: one host under its     *)
(* rollback driver, with two guest inputs, one of which also asks for a      *)
(* checkpoint, and the seats that agree on one.  `side` says which of them a *)
(* behaviour is about; the other stays as it begins.                         *)
EXTENDS NetplayHost, NetplayMatch

MCRows == { [input |-> "a", request |-> FALSE],
            [input |-> "b", request |-> TRUE] }

VARIABLE side

NetplayInit ==
    /\ side \in {"host", "match"} /\ Init /\ MatchInit
    /\ side = "host" => live /\ \A s \in Seats : world[s] = CHOOSE w \in States : TRUE

NetplayNext ==
    /\ UNCHANGED side
    /\ \/ side = "host" /\ Next /\ UNCHANGED allVars
       \/ side = "match" /\ MatchNext /\ UNCHANGED vars

NetplaySpec == NetplayInit /\ [][NetplayNext]_<<vars, allVars, side>>
=============================================================================

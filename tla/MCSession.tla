----------------------------- MODULE MCSession -----------------------------
(* Values of the constants of Session for TLC.                             *)
EXTENDS Session, TLC

a == <<97>>

MCMaps == {a :> <<1>>, a :> <<0>>}

(* A str, bytes and an object that is no token; a fresh id and the EOS id; *)
(* a regex that compiles and one that does not; a model that the hub       *)
(* serves and one that it does not.                                        *)
MCCalls ==
  {[op |-> "insert", arg |-> "str", token |-> a, id |-> 0],
   [op |-> "insert", arg |-> "bytes", token |-> a, id |-> 1],
   [op |-> "remove", arg |-> "str", token |-> a],
   [op |-> "remove", arg |-> "other", token |-> a],
   [op |-> "get", arg |-> "bytes", token |-> a],
   [op |-> "get", arg |-> "other", token |-> a],
   [op |-> "len", arg |-> "none"],
   [op |-> "Index", arg |-> "regex"], [op |-> "Index", arg |-> "invalid regex"],
   [op |-> "from_pretrained", arg |-> "served"], [op |-> "from_pretrained", arg |-> "unserved"]}
=============================================================================

-------------------------------- MODULE MCSdn --------------------------------
(* Instances of Sdn for TLC: the words and the datagrams of small clients.   *)
EXTENDS Sdn

MCTokens == {"set", "unset", "1", "2", "3", "7", "a:80", "b:80", "x:80", "long:80"}
MCAddrs == {"a:80", "b:80", "x:80", "long:80"}
MCBadAddrs == {"x:80", "long:80"}

(* An ip of 20 to 43 characters runs over one rule behind its own. *)
MCSpill == [t \in MCTokens |-> IF t = "long:80" THEN 1 ELSE 0]
MCAtoi == [t \in MCTokens |-> CASE t = "1" -> 1 [] t = "2" -> 2 [] t = "3" -> 3
                                [] t = "7" -> 7 [] OTHER -> 0]

SetMsg(d, a) == [kind |-> "set", toks |-> <<"set", d, a>>]
UnsetMsg(d) == [kind |-> "unset", toks |-> <<"unset", d>>]
DataMsg(d) == [kind |-> "data", toks |-> <<d, "7">>]

(* One rule is added, removed and used by handlers that overlap. *)
RaceMessages == {SetMsg("1", "a:80"), UnsetMsg("1"), DataMsg("1")}

(* A destination moves between two instances, others fill the table; one is  *)
(* bound to an address that inet_pton refuses, one to an address so long     *)
(* that it overwrites the rule behind.                                       *)
SequenceMessages ==
    {SetMsg("1", "a:80"), SetMsg("1", "b:80"), SetMsg("2", "x:80"), SetMsg("3", "b:80"),
     SetMsg("1", "long:80"),
     UnsetMsg("1"), UnsetMsg("2"), DataMsg("1"), DataMsg("2")}

(* Datagrams that are empty, too short, or have no colon in the third word,  *)
(* next to good ones and one whose address leaves a table of one rule.       *)
ParseMessages ==
    {[kind |-> "data", toks |-> <<>>], [kind |-> "data", toks |-> <<"1">>],
     [kind |-> "set", toks |-> <<"set", "1">>], [kind |-> "set", toks |-> <<"set", "1", "7">>],
     [kind |-> "unset", toks |-> <<"unset">>],
     SetMsg("1", "a:80"), SetMsg("1", "long:80"), UnsetMsg("1"), DataMsg("1")}

Threads == Permutations(Requests)
=============================================================================

--------------------------- MODULE SdnRefinement ---------------------------
(* Sdn implements RouteMap: every step of the handlers is, under the mapping *)
(* of Sdn, a step of the abstract table or none at all.                      *)
EXTENDS SdnProofs, FiniteSetTheorems

Table == {rules[i] : i \in DOMAIN rules}

----------------------------------------------------------------------------
(* The array and the set of bindings it stands for. *)

(* A consistent array has as many entries as the set has bindings. *)
LEMMA TableSize ==
    ASSUME rules \in Seq(Rules), Consistent
    PROVE  Cardinality(Table) = Len(rules)
<1>1. Len(rules) \in Nat /\ DOMAIN rules = 1..Len(rules) /\ rules \in [1..Len(rules) -> Rules]
  BY LenProperties
<1>2. rules \in Injection(1..Len(rules), Table)
  BY <1>1 DEF Injection, IsInjective, Table, Consistent
<1>3. rules \in Surjection(1..Len(rules), Table)
  BY <1>1 DEF Surjection, Table
<1>4. IsFiniteSet(1..Len(rules)) /\ Cardinality(1..Len(rules)) = Len(rules)
  BY <1>1, FS_Interval
<1> QED BY <1>2, <1>3, <1>4, FS_Surjection

LEMMA SameCardinality ==
    ASSUME NEW S
    PROVE  Routes!Cardinality(S) = Cardinality(S)
BY DEF Routes!Cardinality, Cardinality

(* Writing a rule over the one of its destination replaces the binding. *)
LEMMA TableUpdated ==
    ASSUME rules \in Seq(Rules), Consistent, NEW i \in DOMAIN rules,
           NEW b, b.dest = rules[i].dest, rules' = [rules EXCEPT ![i] = b]
    PROVE  Table' = {c \in Table : c.dest # b.dest} \cup {b}
<1>1. DOMAIN rules' = DOMAIN rules /\ \A j \in DOMAIN rules : rules'[j] = IF j = i THEN b ELSE rules[j]
  OBVIOUS
<1>2. \A j \in DOMAIN rules : rules[j].dest = b.dest <=> j = i
  BY DEF Consistent
<1> QED BY <1>1, <1>2 DEF Table

(* A rule for a destination without one adds a binding. *)
LEMMA TableGrown ==
    ASSUME rules \in Seq(Rules), NEW b \in Rules,
           \A i \in DOMAIN rules : rules[i].dest # b.dest, rules' = Append(rules, b)
    PROVE  Table' = {c \in Table : c.dest # b.dest} \cup {b}
<1>1. Len(rules) \in Nat /\ DOMAIN rules = 1..Len(rules)
  BY LenProperties
<1>2. rules' \in Seq(Rules) /\ Len(rules') = Len(rules) + 1
  BY AppendProperties
<1>3. DOMAIN rules' = 1..(Len(rules) + 1)
  BY <1>2, LenProperties
<1>4. rules'[Len(rules) + 1] = b /\ \A i \in DOMAIN rules : rules'[i] = rules[i]
  BY <1>1, AppendProperties
<1>5. DOMAIN rules' = DOMAIN rules \cup {Len(rules) + 1}
  BY <1>1, <1>3
<1> QED BY <1>4, <1>5 DEF Table

(* Moving the later rules down removes the binding, and no other. *)
LEMMA TableShrunk ==
    ASSUME rules \in Seq(Rules), Consistent, NEW k \in DOMAIN rules,
           NEW d, d = rules[k].dest, rules' = RemoveAt(rules, k)
    PROVE  Table' = {c \in Table : c.dest # d}
<1>1. Len(rules) \in Nat /\ DOMAIN rules = 1..Len(rules)
  BY LenProperties
<1>2. /\ rules' \in Seq(Rules) /\ Len(rules') = Len(rules) - 1
      /\ \A i \in 1..(Len(rules) - 1) : rules'[i] = IF i < k THEN rules[i] ELSE rules[i + 1]
  BY <1>1, RemoveAtFacts
<1>3. DOMAIN rules' = 1..(Len(rules) - 1)
  BY <1>2, LenProperties
<1>4. \A j \in DOMAIN rules : rules[j].dest = d <=> j = k
  BY DEF Consistent
<1>5. ASSUME NEW c \in Table' PROVE c \in Table /\ c.dest # d
  <2>1. PICK i \in 1..(Len(rules) - 1) : c = rules'[i]
    BY <1>3, <1>5 DEF Table
  <2>2. CASE i < k
    BY <1>1, <1>2, <1>4, <2>1, <2>2 DEF Table
  <2>3. CASE ~(i < k)
    <3>1. i + 1 \in DOMAIN rules /\ i + 1 # k
      BY <1>1, <2>3
    <3> QED BY <1>2, <1>4, <2>1, <2>3, <3>1 DEF Table
  <2> QED BY <2>2, <2>3
<1>6. ASSUME NEW c \in Table, c.dest # d PROVE c \in Table'
  <2>1. PICK j \in DOMAIN rules : c = rules[j] /\ j # k
    BY <1>4, <1>6 DEF Table
  <2>2. CASE j < k
    BY <1>1, <1>2, <1>3, <2>1, <2>2 DEF Table
  <2>3. CASE ~(j < k)
    <3>1. j - 1 \in 1..(Len(rules) - 1) /\ ~(j - 1 < k) /\ (j - 1) + 1 = j
      BY <1>1, <2>1, <2>3
    <3> QED BY <1>2, <1>3, <2>1, <3>1 DEF Table
  <2> QED BY <2>2, <2>3
<1> QED BY <1>5, <1>6
----------------------------------------------------------------------------
(* The mapping, one request at a time. *)

StatusMap == [r \in Requests |-> Status(r)]
OpMap == [r \in Requests |-> Understood(r)]
ResultMap == [r \in Requests |-> Result(r)]
ToldBy(r) == IF pc[r] = "done" THEN Told(r) ELSE [verdict |-> "none", addr |-> None]
ReplyMap == [r \in Requests |-> ToldBy(r)]

(* A step of r moves the mapped state at r only, and in the table. *)
LEMMA MovesOne ==
    ASSUME TypeOK, NEW r \in Requests, Step(r)
    PROVE  /\ StatusMap' = [StatusMap EXCEPT ![r] = Status(r)']
           /\ OpMap' = [OpMap EXCEPT ![r] = Understood(r)']
           /\ ResultMap' = [ResultMap EXCEPT ![r] = Result(r)']
           /\ ReplyMap' = [ReplyMap EXCEPT ![r] = ToldBy(r)']
<1>1. ASSUME NEW o \in Requests, o # r
      PROVE  /\ Status(o)' = Status(o)
             /\ Understood(o)' = Understood(o)
             /\ Result(o)' = Result(o)
             /\ ToldBy(o)' = ToldBy(o)
  <2>1. /\ pc'[o] = pc[o] /\ msg'[o] = msg[o] /\ toks'[o] = toks[o]
        /\ route'[o] = route[o] /\ reply'[o] = reply[o]
    BY <1>1, OthersKept
  <2>2. Status(o)' = Status(o)
    BY <2>1 DEF Status
  <2>3. Told(o)' = Told(o)
    BY <2>1 DEF Told
  <2>4. Kind(o)' = Kind(o) /\ Dest(o)' = Dest(o)
    BY <2>1 DEF Kind, Dest
  <2> QED BY <2>1, <2>2, <2>3, <2>4 DEF Understood, Result, ToldBy
<1> QED BY <1>1 DEF StatusMap, OpMap, ResultMap, ReplyMap

LEMMA MapAt ==
    ASSUME NEW r \in Requests
    PROVE  /\ StatusMap[r] = Status(r) /\ OpMap[r] = Understood(r)
           /\ ResultMap[r] = Result(r) /\ ReplyMap[r] = ToldBy(r)
           /\ StatusMap = [StatusMap EXCEPT ![r] = Status(r)]
           /\ OpMap = [OpMap EXCEPT ![r] = Understood(r)]
           /\ ResultMap = [ResultMap EXCEPT ![r] = Result(r)]
           /\ ReplyMap = [ReplyMap EXCEPT ![r] = ToldBy(r)]
BY DEF StatusMap, OpMap, ResultMap, ReplyMap

(* Where nothing of it moves, RouteMap does not move either. *)
LEMMA RoutesStutter ==
    ASSUME TypeOK, NEW r \in Requests, Step(r), Table' = Table,
           Status(r)' = Status(r), Understood(r)' = Understood(r),
           Result(r)' = Result(r), ToldBy(r)' = ToldBy(r)
    PROVE  UNCHANGED Routes!vars
<1>1. UNCHANGED <<StatusMap, OpMap, ResultMap, ReplyMap>>
  BY MovesOne, MapAt
<1> QED BY <1>1 DEF Routes!vars, Table, StatusMap, OpMap, ResultMap, ReplyMap, ToldBy

(* A datagram comes or is lost: the request is called. *)
LEMMA CallStep ==
    ASSUME SdnInv, NEW r \in Requests, Drop(r) \/ \E m \in Messages : Receive(r, m)
    PROVE  Routes!Call(r)
<1>1. TypeOK /\ Step(r)
  BY DEF SdnInv, TableInv, ParseInv, Step
<1>2. /\ pc[r] = "free" /\ pc'[r] \in {"lost", "scan"}
      /\ UNCHANGED <<rules, route, reply>>
  BY <1>1 DEF TypeOK, Drop, Receive, Goto, table
<1>3. Status(r) = "idle" /\ Status(r)' \in {"lost", "called"}
  BY <1>2 DEF Status
<1>4. Understood(r)' = Understood(r) /\ Result(r)' = Result(r) /\ ToldBy(r)' = ToldBy(r)
  BY <1>2, <1>3 DEF Understood, Result, Told, ToldBy
<1>5. UNCHANGED <<OpMap, ResultMap, ReplyMap>>
  BY <1>1, <1>4, MovesOne, MapAt
<1>6. StatusMap[r] = "idle" /\ \E s \in {"called", "lost"} : StatusMap' = [StatusMap EXCEPT ![r] = s]
  BY <1>1, <1>3, MovesOne, MapAt
<1>7. Table' = Table
  BY <1>2 DEF Table
<1> QED BY <1>5, <1>6, <1>7
  DEF Routes!Call, Table, StatusMap, OpMap, ResultMap, ReplyMap, ToldBy
----------------------------------------------------------------------------
(* Parsing. *)

(* A step that neither moves the handler on, in RouteMap's terms, nor routes *)
(* it nor speaks, is no step of RouteMap.                                    *)
LEMMA SilentStep ==
    ASSUME TypeOK, NEW r \in Requests, Step(r), UNCHANGED <<rules, route, reply>>,
           Status(r)' = Status(r), Understood(r)' = Understood(r),
           pc[r] # "done", pc'[r] # "done"
    PROVE  UNCHANGED Routes!vars
<1>1. Told(r)' = Told(r) /\ Result(r)' = Result(r) /\ ToldBy(r)' = ToldBy(r)
  BY DEF Told, Result, ToldBy
<1>2. Table' = Table
  BY DEF Table
<1> QED BY <1>1, <1>2, RoutesStutter

LEMMA ParseStutters ==
    ASSUME SdnInv, NEW r \in Requests, LoadSave(r) \/ ScanToken(r) \/ TokenTaken(r)
    PROVE  UNCHANGED Routes!vars
<1>1. TypeOK /\ Step(r)
  BY DEF SdnInv, TableInv, ParseInv, Step, Handler, Parse
<1>2. /\ pc[r] \in {"load", "scan", "store"} /\ pc'[r] \in {"load", "scan", "store"}
      /\ UNCHANGED <<rules, route, reply>>
  BY <1>1 DEF TypeOK, LoadSave, ScanToken, TokenTaken, StoreSave, Goto, table
<1>3. Status(r) = "called" /\ Status(r)' = "called"
  BY <1>2 DEF Status
<1>4. Understood(r)' = Understood(r)
  BY <1>3 DEF Understood
<1> QED BY <1>1, <1>2, <1>3, <1>4, SilentStep

(* How a handler leaves its critical section or gives up, in RouteMap. *)
LEMMA Concludes ==
    ASSUME TypeOK, NEW r \in Requests, Step(r), Status(r)' = "applied",
           pc[r] # "done", pc'[r] # "done", NEW out, out = Result(r)'
    PROVE  Routes!Conclude(r, out)
<1>1. Understood(r)' = Routes!NoOperation
  BY DEF Understood, Routes!NoOperation, Routes!Operation
<1>2. ToldBy(r)' = ToldBy(r)
  BY DEF ToldBy
<1>3. /\ StatusMap' = [StatusMap EXCEPT ![r] = "applied"]
      /\ OpMap' = [OpMap EXCEPT ![r] = Routes!NoOperation]
      /\ ResultMap' = [ResultMap EXCEPT ![r] = out]
      /\ ReplyMap' = ReplyMap
  BY <1>1, <1>2, MovesOne, MapAt
<1> QED BY <1>3 DEF Routes!Conclude, StatusMap, OpMap, ResultMap, ReplyMap, ToldBy

(* No third word, or no colon in it: the datagram takes no effect. *)
LEMMA RejectStep ==
    ASSUME SdnInv, NEW r \in Requests, TokenMissing(r) \/ NoColon(r)
    PROVE  Routes!Reject(r)
<1>1. TypeOK /\ Step(r)
  BY DEF SdnInv, TableInv, ParseInv, Step, Handler, Parse
<1>2. PICK v \in {"invalid", "badaddr"} :
        /\ pc[r] = "store" /\ pc'[r] = "send" /\ reply'[r] = Reply(v)
        /\ UNCHANGED <<rules, route>>
  BY <1>1 DEF TypeOK, TokenMissing, NoColon, StoreSave, Respond, Goto, table
<1>3. StatusMap[r] = "called" /\ Status(r)' = "applied"
  BY <1>2, MapAt DEF Status
<1>4. route'[r] = None
  BY <1>2 DEF SdnInv, RepliesFit, ReplyFits
<1>5. Result(r)' = Routes!Outcome(v, None)
  BY <1>2, <1>4 DEF Result, Told, Reply, Routes!Outcome
<1>6. Routes!Conclude(r, Routes!Outcome(v, None))
  BY <1>1, <1>2, <1>3, <1>5, Concludes
<1>7. Table' = Table
  BY <1>2 DEF Table
<1> QED BY <1>3, <1>6, <1>7 DEF Routes!Reject, Table, StatusMap

(* The last word taken: from here on the datagram means an operation. *)
LEMMA UnderstandStep ==
    ASSUME SdnInv, NEW r \in Requests, Parsed(r), SdnInv'
    PROVE  \E o \in Routes!Operations : Routes!Understand(r, o)
<1>1. TypeOK /\ Step(r)
  BY DEF SdnInv, TableInv, ParseInv, Step, Handler, Parse
<1>2. pc[r] = "store" /\ pc'[r] = "lock" /\ UNCHANGED <<rules, msg, toks, route, reply>>
  BY <1>1 DEF TypeOK, Parsed, StoreSave, Goto, table
<1>3. StatusMap[r] = "called" /\ Status(r)' = "understood"
  BY <1>2, MapAt DEF Status
<1>4. Result(r)' = Result(r) /\ ToldBy(r)' = ToldBy(r)
  BY <1>2 DEF Result, Told, ToldBy
<1>5. Understood(r)' = [kind |-> Kind(r), dest |-> Dest(r),
                        addr |-> IF Kind(r) = "set" THEN toks[r][3] ELSE None]
  BY <1>2, <1>3 DEF Understood, Kind, Dest
<1>6. /\ toks[r][1] \in Tokens /\ toks[r][2] \in Tokens
      /\ Kind(r) = "set" => toks[r][3] \in Addrs
  BY <1>2 DEF SdnInv, TableInv, ParseInv, TokensTaken, AllTokens, Needed, Kind
<1>7. Dest(r) \in Dests
  BY <1>6 DEF Dest, Dests
<1>8. Kind(r) \in {"set", "unset", "data"}
  BY <1>2, SdnAssumption DEF SdnInv, TableInv, ParseInv, MessageKept, Kind, Kinds
<1>9. PICK o \in Routes!Operations : o = Understood(r)'
  BY <1>5, <1>6, <1>7, <1>8 DEF Routes!Operations, Routes!Operation
<1>10. /\ StatusMap' = [StatusMap EXCEPT ![r] = "understood"]
       /\ OpMap' = [OpMap EXCEPT ![r] = o]
       /\ UNCHANGED <<ResultMap, ReplyMap>>
  BY <1>1, <1>3, <1>4, <1>9, MovesOne, MapAt
<1>11. Table' = Table
  BY <1>2 DEF Table
<1>12. Routes!Understand(r, o)
  BY <1>3, <1>10, <1>11
  DEF Routes!Understand, Table, StatusMap, OpMap, ResultMap, ReplyMap, ToldBy
<1> QED BY <1>12

----------------------------------------------------------------------------
(* The critical sections. *)

LEMMA LockStutters ==
    ASSUME SdnInv, NEW r \in Requests, Acquire(r) \/ Search(r) \/ OverrunArray(r)
    PROVE  UNCHANGED Routes!vars
<1>1. TypeOK /\ Step(r)
  BY DEF SdnInv, TableInv, ParseInv, Step, Handler, Critical
<1>2. /\ pc[r] \in {"lock", "search", "apply"} /\ pc'[r] \in {"search", "apply", "wrecked"}
      /\ UNCHANGED <<rules, msg, toks, route, reply>>
  BY <1>1 DEF TypeOK, Acquire, Search, OverrunArray, Goto, table, parser
<1>3. Status(r) = "understood" /\ Status(r)' = "understood"
  BY <1>2 DEF Status
<1>4. Understood(r)' = Understood(r)
  BY <1>2, <1>3 DEF Understood, Kind, Dest
<1> QED BY <1>1, <1>2, <1>3, <1>4, SilentStep

(* What RouteMap knows of a handler that is about to apply its operation. *)
LEMMA ApplyFacts ==
    ASSUME SdnInv, NEW r \in Requests, pc[r] = "apply"
    PROVE  /\ StatusMap[r] = "understood"
           /\ OpMap[r].kind = Kind(r) /\ OpMap[r].dest = Dest(r)
           /\ Kind(r) = "set" => OpMap[r].addr = toks[r][3] /\ toks[r][3] \in Addrs
           /\ route[r] = None
           /\ rules \in Seq(Rules) /\ (AddressesFit => Consistent)
           /\ idx[r] = 0 => \A b \in Table : b.dest # Dest(r)
           /\ idx[r] # 0 => /\ idx[r] \in DOMAIN rules
                            /\ rules[idx[r]].dest = Dest(r)
                            /\ \E b \in Table : b.dest = Dest(r)
<1>1. Status(r) = "understood"
  BY DEF Status
<1>2. Understood(r) = [kind |-> Kind(r), dest |-> Dest(r),
                       addr |-> IF Kind(r) = "set" THEN toks[r][3] ELSE None]
  BY <1>1 DEF Understood
<1>3. StatusMap[r] = "understood" /\ OpMap[r] = Understood(r)
  BY <1>1, MapAt
<1>4. rules \in Seq(Rules) /\ (AddressesFit => Consistent) /\ route[r] = None
  BY DEF SdnInv, TableInv, ParseInv, TypeOK, TableConsistent, RepliesFit, ReplyFits
<1>5. /\ Kind(r) = "set" => toks[r][3] \in Addrs
      /\ idx[r] = 0 => \A i \in DOMAIN rules : rules[i].dest # Dest(r)
      /\ idx[r] # 0 => idx[r] \in DOMAIN rules /\ rules[idx[r]].dest = Dest(r)
  BY InsideFacts DEF SdnInv
<1> QED BY <1>2, <1>3, <1>4, <1>5 DEF Table

(* The last step of a critical section that replies at once. *)
LEMMA RepliesAtOnce ==
    ASSUME SdnInv, NEW r \in Requests, Step(r), pc[r] = "apply", UNCHANGED route,
           NEW v, Respond(r, v)
    PROVE  Routes!Apply(r, Kind(r), Routes!Outcome(v, None))
<1>1. pc'[r] = "send" /\ reply'[r] = Reply(v) /\ TypeOK
  BY DEF Respond, Goto, SdnInv, TableInv, ParseInv, TypeOK
<1>2. StatusMap[r] = "understood" /\ OpMap[r].kind = Kind(r) /\ route'[r] = None
  BY ApplyFacts
<1>3. Status(r)' = "applied"
  BY <1>1 DEF Status
<1>4. Result(r)' = Routes!Outcome(v, None)
  BY <1>1, <1>2 DEF Result, Told, Reply, Routes!Outcome
<1>5. Routes!Conclude(r, Routes!Outcome(v, None))
  BY <1>1, <1>3, <1>4, Concludes
<1> QED BY <1>2, <1>5 DEF Routes!Apply, StatusMap, OpMap

LEMMA SetStep ==
    ASSUME SdnInv, AddressesFit, NEW r \in Requests, UpdateRule(r) \/ AddRule(r)
    PROVE  Routes!Set(r)
<1>1. Step(r) /\ pc[r] = "apply" /\ Kind(r) = "set" /\ UNCHANGED route /\ Respond(r, "done")
  BY DEF UpdateRule, AddRule, Finish, Step, Handler, Critical
<1>2. Routes!Apply(r, "set", Routes!Outcome("done", None))
  BY <1>1, RepliesAtOnce
<1> DEFINE b == Asked(r)
<1>3. /\ OpMap[r].dest = Dest(r) /\ OpMap[r].addr = toks[r][3]
      /\ rules \in Seq(Rules) /\ Consistent
      /\ idx[r] = 0 => \A c \in Table : c.dest # Dest(r)
      /\ idx[r] # 0 => /\ idx[r] \in DOMAIN rules
                       /\ rules[idx[r]].dest = Dest(r)
                       /\ \E c \in Table : c.dest = Dest(r)
  BY <1>1, ApplyFacts
<1>4. b \in Rules
  BY <1>1, ReachFacts DEF SdnInv
<1>5. b = [dest |-> Dest(r), addr |-> toks[r][3]] /\ b.dest = Dest(r)
  BY DEF Asked
<1>6. Table' = {c \in Table : c.dest # Dest(r)} \cup {b}
  <2>1. CASE UpdateRule(r)
    <3>1. rules' = [rules EXCEPT ![idx[r]] = b] /\ idx[r] # 0
      BY <2>1, UpdatedRules DEF UpdateRule, SdnInv
    <3> HIDE DEF b
    <3> QED BY <1>3, <1>5, <3>1, TableUpdated
  <2>2. CASE AddRule(r)
    <3>1. rules' = Append(rules, b) /\ idx[r] = 0
      BY <2>2 DEF AddRule
    <3>2. \A i \in DOMAIN rules : rules[i].dest # b.dest
      BY <1>3, <1>5, <3>1 DEF Table
    <3> HIDE DEF b
    <3> QED BY <1>3, <1>4, <1>5, <3>1, <3>2, TableGrown
  <2> QED BY <2>1, <2>2
<1>7. (\E c \in Table : c.dest = Dest(r)) \/ Cardinality(Table) < MAX_RULES
  <2>1. CASE UpdateRule(r)
    BY <1>3, <2>1 DEF UpdateRule
  <2>2. CASE AddRule(r)
    BY <1>3, <2>2, TableSize DEF AddRule
  <2> QED BY <2>1, <2>2
<1> QED BY <1>2, <1>3, <1>5, <1>6, <1>7, SameCardinality DEF Routes!Set, Routes!Bound, Routes!Without, Table, OpMap

LEMMA SetRefusedStep ==
    ASSUME SdnInv, AddressesFit, NEW r \in Requests, RuleLimit(r)
    PROVE  Routes!SetRefused(r)
<1>1. Step(r) /\ pc[r] = "apply" /\ Kind(r) = "set" /\ UNCHANGED route /\ Respond(r, "limit")
  BY DEF RuleLimit, Finish, Step, Handler, Critical
<1>2. Routes!Apply(r, "set", Routes!Outcome("limit", None))
  BY <1>1, RepliesAtOnce
<1>3. /\ OpMap[r].dest = Dest(r)
      /\ rules \in Seq(Rules) /\ Consistent
      /\ idx[r] = 0 => \A c \in Table : c.dest # Dest(r)
  BY <1>1, ApplyFacts
<1>4. /\ Cardinality(Table) >= MAX_RULES
      /\ \A c \in Table : c.dest # Dest(r)
      /\ Table' = Table
  BY <1>3, TableSize DEF RuleLimit, Table
<1> QED BY <1>2, <1>3, <1>4, SameCardinality DEF Routes!SetRefused, Routes!Bound, Table, OpMap

LEMMA UnsetStep ==
    ASSUME SdnInv, AddressesFit, NEW r \in Requests, RemoveRule(r)
    PROVE  Routes!Unset(r)
<1>1. Step(r) /\ pc[r] = "apply" /\ Kind(r) = "unset" /\ UNCHANGED route /\ Respond(r, "done")
  BY DEF RemoveRule, Finish, Step, Handler, Critical
<1>2. Routes!Apply(r, "unset", Routes!Outcome("done", None))
  BY <1>1, RepliesAtOnce
<1>3. /\ OpMap[r].dest = Dest(r)
      /\ rules \in Seq(Rules) /\ Consistent
      /\ idx[r] = 0 => \A c \in Table : c.dest # Dest(r)
      /\ idx[r] # 0 => idx[r] \in DOMAIN rules /\ rules[idx[r]].dest = Dest(r)
  BY <1>1, ApplyFacts
<1>4. Table' = {c \in Table : c.dest # Dest(r)}
  <2>1. CASE idx[r] = 0
    BY <1>3, <2>1 DEF RemoveRule, Table
  <2>2. CASE idx[r] # 0
    <3>1. rules' = RemoveAt(rules, idx[r])
      BY <2>2 DEF RemoveRule
    <3> QED BY <1>3, <2>2, <3>1, TableShrunk
  <2> QED BY <2>1, <2>2
<1> QED BY <1>2, <1>3, <1>4 DEF Routes!Unset, Routes!Without, Table, OpMap

LEMMA LookupFailsStep ==
    ASSUME SdnInv, NEW r \in Requests, NoRule(r)
    PROVE  Routes!LookupFails(r)
<1>1. Step(r) /\ pc[r] = "apply" /\ Kind(r) = "data" /\ UNCHANGED route /\ Respond(r, "norule")
  BY DEF NoRule, Finish, Step, Handler, Critical
<1>2. Routes!Apply(r, "data", Routes!Outcome("norule", None))
  BY <1>1, RepliesAtOnce
<1>3. OpMap[r].dest = Dest(r) /\ \A c \in Table : c.dest # Dest(r)
  BY <1>1, ApplyFacts DEF NoRule
<1>4. Table' = Table
  BY DEF NoRule, Table
<1> QED BY <1>2, <1>3, <1>4 DEF Routes!LookupFails, Routes!Bound, Table, OpMap

LEMMA LookupStep ==
    ASSUME SdnInv, NEW r \in Requests, CopyRule(r)
    PROVE  Routes!Lookup(r)
<1>1. Step(r) /\ pc[r] = "apply" /\ Kind(r) = "data" /\ idx[r] # 0 /\ TypeOK
  BY DEF CopyRule, Finish, Step, Handler, Critical, SdnInv, TableInv, ParseInv
<1> DEFINE b == rules[idx[r]]
<1>2. /\ StatusMap[r] = "understood" /\ OpMap[r].kind = "data"
      /\ OpMap[r].dest = Dest(r) /\ b \in Table /\ b.dest = Dest(r)
  BY <1>1, ApplyFacts DEF Table
<1>3. b.addr \in Addrs
  BY <1>1, InsideFacts DEF SdnInv, Rules
<1>4. pc'[r] = "forward" /\ route'[r] = b.addr /\ rules' = rules
  BY <1>1 DEF CopyRule, Goto, TypeOK
<1>5. Status(r)' = "applied"
  BY <1>4 DEF Status
<1>6. b.addr # None
  BY <1>3, SdnAssumption
<1>7. Result(r)' = Routes!Outcome("route", b.addr)
  BY <1>4, <1>6 DEF Result, Routes!Outcome
<1>8. Routes!Conclude(r, Routes!Outcome("route", b.addr))
  BY <1>1, <1>4, <1>5, <1>7, Concludes
<1>9. Table' = Table
  BY <1>4 DEF Table
<1> HIDE DEF b
<1> QED BY <1>2, <1>8, <1>9 DEF Routes!Lookup, Routes!Apply, Table, StatusMap, OpMap

----------------------------------------------------------------------------
(* The relay, and the reply. *)

LEMMA RelayStutters ==
    ASSUME SdnInv, NEW r \in Requests, Relay(r)
    PROVE  UNCHANGED Routes!vars
<1>1. TypeOK /\ Step(r)
  BY DEF SdnInv, TableInv, ParseInv, Step, Handler
<1>2. /\ pc[r] \in {"forward", "wait"} /\ pc'[r] \in {"wait", "send"}
      /\ UNCHANGED <<rules, route>>
  <2>1. CASE Forward(r) \/ ForwardFails(r) \/ RecvFails(r)
    BY <1>1, <2>1 DEF TypeOK, Forward, ForwardFails, RecvFails, Respond, Goto, table
  <2>2. CASE RecvAnswer(r)
    BY <1>1, <2>2 DEF TypeOK, RecvAnswer, Respond, Goto, table
  <2> QED BY <2>1, <2>2 DEF Relay
<1>3. route[r] # None
  BY <1>2, SdnAssumption DEF SdnInv, TableInv, ParseInv, RouteCopied
<1>4. Status(r) = "applied" /\ Status(r)' = "applied"
  BY <1>2 DEF Status
<1>5. Understood(r)' = Understood(r) /\ Result(r)' = Result(r) /\ ToldBy(r)' = ToldBy(r)
  BY <1>2, <1>3, <1>4 DEF Understood, Result, ToldBy
<1>6. Table' = Table
  BY <1>2 DEF Table
<1> QED BY <1>1, <1>4, <1>5, <1>6, RoutesStutter

LEMMA AnswerStep ==
    ASSUME SdnInv, NEW r \in Requests, SendReply(r)
    PROVE  Routes!Answer(r)
<1>1. TypeOK /\ Step(r)
  BY DEF SdnInv, TableInv, ParseInv, Step, Handler
<1>2. /\ pc[r] = "send" /\ pc'[r] = "done"
      /\ UNCHANGED <<rules, route, reply>>
  BY <1>1 DEF TypeOK, SendReply, Goto, table
<1>3. Status(r) = "applied" /\ Status(r)' = "answered"
  BY <1>2 DEF Status
<1>4. Understood(r)' = Understood(r) /\ Result(r)' = Result(r) /\ ToldBy(r)' = Told(r)
  BY <1>2, <1>3 DEF Understood, Result, Told, ToldBy
<1>5. /\ StatusMap[r] = "applied" /\ StatusMap' = [StatusMap EXCEPT ![r] = "answered"]
      /\ ReplyMap' = [ReplyMap EXCEPT ![r] = Told(r)]
      /\ ResultMap[r] = Result(r) /\ UNCHANGED <<OpMap, ResultMap>>
  BY <1>1, <1>3, <1>4, MovesOne, MapAt
<1>6. Table' = Table
  BY <1>2 DEF Table
<1>7. \/ Result(r).verdict # "route" /\ Told(r) = Result(r)
      \/ Result(r).verdict = "route" /\ \E v \in Routes!Failures : Told(r) = Routes!Outcome(v, None)
      \/ Result(r).verdict = "route" /\ Told(r) = Routes!Outcome("answer", Result(r).addr)
  <2>1. ReplyFits(r)
    BY DEF SdnInv, RepliesFit
  <2>2. CASE route[r] = None
    BY <1>2, <2>1, <2>2, SdnAssumption DEF ReplyFits, Reply, Result, Told
  <2>3. CASE route[r] # None
    <3>1. Result(r) = [verdict |-> "route", addr |-> route[r]]
      BY <2>3 DEF Result
    <3>2. \/ \E v \in {"notsent", "noanswer", "unexpected"} : reply[r] = Reply(v)
          \/ reply[r].verdict = "answer" /\ reply[r].from = route[r]
      BY <1>2, <2>1, <2>3 DEF ReplyFits
    <3> QED BY <3>1, <3>2 DEF Told, Reply, Routes!Outcome, Routes!Failures
  <2> QED BY <2>2, <2>3
<1> QED BY <1>5, <1>6, <1>7
  DEF Routes!Answer, Table, StatusMap, OpMap, ResultMap, ReplyMap, ToldBy

----------------------------------------------------------------------------
LEMMA RoutesInit ==
    ASSUME Init
    PROVE  Routes!Init
<1>1. Table = {}
  BY DEF Init, Table
<1>2. ASSUME NEW r \in Requests
      PROVE  /\ Status(r) = "idle"
             /\ Understood(r) = Routes!NoOperation
             /\ Result(r) = Routes!Nothing
             /\ ToldBy(r) = Routes!Nothing
  <2>1. pc[r] = "free" /\ route[r] = None /\ reply[r] = Reply("none")
    BY DEF Init
  <2>2. Status(r) = "idle"
    BY <2>1 DEF Status
  <2> QED BY <2>1, <2>2 DEF Understood, Result, Told, ToldBy, Reply, Routes!NoOperation,
    Routes!Operation, Routes!Nothing, Routes!Outcome
<1>3. /\ StatusMap = [r \in Requests |-> "idle"]
      /\ OpMap = [r \in Requests |-> Routes!NoOperation]
      /\ ResultMap = [r \in Requests |-> Routes!Nothing]
      /\ ReplyMap = [r \in Requests |-> Routes!Nothing]
  BY <1>2 DEF StatusMap, OpMap, ResultMap, ReplyMap
<1> QED BY <1>1, <1>3 DEF Routes!Init, Table, StatusMap, OpMap, ResultMap, ReplyMap, ToldBy

LEMMA RoutesNext ==
    ASSUME SdnInv, SdnInv', [Next]_vars
    PROVE  [AddressesFit => Routes!Next]_Routes!vars
<1>1. ASSUME NEW r \in Requests, Step(r)
      PROVE  (AddressesFit => Routes!Next) \/ UNCHANGED Routes!vars
  <2>1. CASE Drop(r) \/ \E m \in Messages : Receive(r, m)
    BY <2>1, CallStep DEF Routes!Next
  <2>2. CASE LoadSave(r) \/ ScanToken(r) \/ TokenTaken(r)
    BY <2>2, ParseStutters
  <2>3. CASE TokenMissing(r) \/ NoColon(r)
    BY <2>3, RejectStep DEF Routes!Next
  <2>4. CASE Parsed(r)
    BY <2>4, UnderstandStep DEF Routes!Next
  <2>5. CASE Acquire(r) \/ Search(r) \/ OverrunArray(r)
    BY <2>5, LockStutters
  <2>6. CASE UpdateRule(r) \/ AddRule(r)
    BY <2>6, SetStep DEF Routes!Next
  <2>7. CASE RuleLimit(r)
    BY <2>7, SetRefusedStep DEF Routes!Next
  <2>8. CASE RemoveRule(r)
    BY <2>8, UnsetStep DEF Routes!Next
  <2>9. CASE CopyRule(r)
    BY <2>9, LookupStep DEF Routes!Next
  <2>10. CASE NoRule(r)
    BY <2>10, LookupFailsStep DEF Routes!Next
  <2>11. CASE Relay(r)
    BY <2>11, RelayStutters
  <2>12. CASE SendReply(r)
    BY <2>12, AnswerStep DEF Routes!Next
  <2> QED BY <1>1, <2>1, <2>2, <2>3, <2>4, <2>5, <2>6, <2>7, <2>8, <2>9, <2>10, <2>11, <2>12
    DEF Step, Handler, Parse, Critical
<1>2. CASE UNCHANGED vars
  <2>1. Table' = Table
    BY <1>2 DEF vars, Table
  <2>2. ASSUME NEW r \in Requests
        PROVE  /\ Status(r)' = Status(r) /\ Understood(r)' = Understood(r)
               /\ Result(r)' = Result(r) /\ ToldBy(r)' = ToldBy(r)
    <3>1. Status(r)' = Status(r) /\ Told(r)' = Told(r) /\ Kind(r)' = Kind(r) /\ Dest(r)' = Dest(r)
      BY <1>2 DEF vars, Status, Told, Kind, Dest
    <3> QED BY <1>2, <3>1 DEF vars, Understood, Result, ToldBy
  <2>3. UNCHANGED <<StatusMap, OpMap, ResultMap, ReplyMap>>
    BY <2>2 DEF StatusMap, OpMap, ResultMap, ReplyMap
  <2> QED BY <2>1, <2>3 DEF Routes!vars, Table, StatusMap, OpMap, ResultMap, ReplyMap, ToldBy
<1> QED BY <1>1, <1>2, NextIsStep DEF Quiet

(* Every behaviour of the threads, their parser, lock and sockets is one of   *)
(* the table that serves a request at one instant: set, unset and lookup are *)
(* linearizable, and no reply contradicts what its request did (sdn.c), for  *)
(* as long as the addresses that come fit rules[i].ip.                       *)
THEOREM HandlersImplementRouteMap == Spec => AtomicRouteMap
<1>1. Init => Routes!Init
  BY RoutesInit
<1>2. SdnInv /\ SdnInv' /\ [Next]_vars => [AddressesFit => Routes!Next]_Routes!vars
  BY RoutesNext
<1> QED BY <1>1, <1>2, InductiveInvariant, PTL DEF Spec, AtomicRouteMap, Routes!Spec

=============================================================================

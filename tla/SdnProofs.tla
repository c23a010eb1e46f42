------------------------------ MODULE SdnProofs ------------------------------
(* Theorems about Sdn for any number of threads, messages, ports and rules:   *)
(* the table first, then what a handler reads and says.                       *)
EXTENDS Sdn, SequenceLemmas

----------------------------------------------------------------------------
(* The operators the critical sections are built from. *)

(* What the scan of the rules returns: 0 exactly when no rule matches, the    *)
(* first matching one otherwise.                                             *)
LEMMA FirstMatchFacts ==
    ASSUME NEW d, rules \in Seq(Rules)
    PROVE  /\ FirstMatch(d) \in Nat
           /\ FirstMatch(d) = 0 => \A i \in DOMAIN rules : rules[i].dest # d
           /\ FirstMatch(d) # 0 => /\ FirstMatch(d) \in DOMAIN rules
                                   /\ rules[FirstMatch(d)].dest = d
<1>1. DOMAIN rules = 1..Len(rules) /\ Len(rules) \in Nat
  BY LenProperties
<1>2. CASE Matches(d) = {}
  BY <1>2 DEF FirstMatch, Matches
<1>3. CASE Matches(d) # {}
  <2>1. Matches(d) \in SUBSET Nat
    BY <1>1 DEF Matches
  <2>2. \E m \in Matches(d) : \A k \in Matches(d) : m <= k
    BY <1>3, <2>1, LeastIndex
  <2>3. Min(Matches(d)) \in Matches(d)
    BY <2>2 DEF Min
  <2>4. FirstMatch(d) \in Matches(d)
    BY <1>3, <2>3 DEF FirstMatch
  <2>5. FirstMatch(d) \in DOMAIN rules /\ rules[FirstMatch(d)].dest = d
    BY <2>4 DEF Matches
  <2> QED BY <1>1, <2>5
<1> QED BY <1>2, <1>3

----------------------------------------------------------------------------
(* The type invariant and the parser. *)

(* Inside the critical section: the words are there and the index is a rule. *)
LEMMA InsideFacts ==
    ASSUME TableInv, NEW r \in Requests, pc[r] \in {"search", "apply"}
    PROVE  /\ Dest(r) \in Dests
           /\ Kind(r) = "set" => toks[r][3] \in Addrs
           /\ FirstMatch(Dest(r)) \in Nat
           /\ pc[r] = "apply" /\ idx[r] = 0 =>
                \A i \in DOMAIN rules : rules[i].dest # Dest(r)
           /\ pc[r] = "apply" /\ idx[r] # 0 =>
                /\ idx[r] \in DOMAIN rules
                /\ rules[idx[r]] \in Rules
                /\ rules[idx[r]].dest = Dest(r)
<1>1. toks[r][1] \in Tokens /\ toks[r][2] \in Tokens
  BY DEF TableInv, ParseInv, TokensTaken, AllTokens, Needed
<1>2. Dest(r) \in Dests
  BY <1>1 DEF Dest, Dests
<1>3. Kind(r) = "set" => toks[r][3] \in Addrs
  BY DEF TableInv, ParseInv, TokensTaken
<1>4. pc[r] = "apply" => idx[r] = FirstMatch(Dest(r))
  BY DEF TableInv, ScanStillRight
<1>5. rules \in Seq(Rules)
  BY DEF TableInv, ParseInv, TypeOK
<1>6. /\ FirstMatch(Dest(r)) \in Nat
      /\ FirstMatch(Dest(r)) = 0 => \A i \in DOMAIN rules : rules[i].dest # Dest(r)
      /\ FirstMatch(Dest(r)) # 0 => /\ FirstMatch(Dest(r)) \in DOMAIN rules
                                    /\ rules[FirstMatch(Dest(r))].dest = Dest(r)
  BY <1>5, FirstMatchFacts
<1>7. \A i \in DOMAIN rules : rules[i] \in Rules
  BY <1>5
<1> QED BY <1>2, <1>3, <1>4, <1>6, <1>7

(* What a set command writes, and how far. *)
LEMMA ReachFacts ==
    ASSUME TableInv, NEW r \in Requests, pc[r] = "apply", Kind(r) = "set"
    PROVE  /\ Asked(r) \in Rules /\ Asked(r).dest = Dest(r)
           /\ Slot(r) \in Nat /\ Reach(r) \in Nat /\ Slot(r) <= Reach(r)
           /\ AddressesFit => Reach(r) = Slot(r)
<1>1. Dest(r) \in Dests /\ toks[r][3] \in Addrs
  BY InsideFacts
<1>2. Asked(r) \in Rules /\ Asked(r).dest = Dest(r)
  BY <1>1 DEF Asked, Rules
<1>3. Slot(r) \in Nat
  <2>1. Len(rules) \in Nat /\ idx[r] \in Nat
    BY LenProperties DEF TableInv, ParseInv, TypeOK
  <2> QED BY <2>1 DEF Slot
<1>4. Spill[toks[r][3]] \in Nat
  BY <1>1, SdnAssumption
<1>5. ASSUME AddressesFit PROVE Spill[toks[r][3]] = 0
  <2>1. Len(toks[r]) = 3 /\ toks[r] \in Seq(Tokens \cup {None})
    BY DEF TableInv, ParseInv, TypeOK, TokensTaken, Needed
  <2>2. 3 \in DOMAIN toks[r]
    BY <2>1
  <2>3. toks[r][3] \notin LongWords
    BY <1>5, <2>2 DEF TableInv, WordsFit
  <2> QED BY <1>1, <1>4, <2>3 DEF LongWords
<1> QED BY <1>2, <1>3, <1>4, <1>5 DEF Reach

(* An update leaves the array as long as it is, and the other rules alone    *)
(* when the address fits.                                                    *)
LEMMA UpdatedRules ==
    ASSUME TableInv, NEW r \in Requests, UpdateRule(r)
    PROVE  /\ rules' \in Seq(Rules) /\ Len(rules') = Len(rules)
           /\ DOMAIN rules' = DOMAIN rules
           /\ AddressesFit => rules' = [rules EXCEPT ![idx[r]] = Asked(r)]
<1>1. pc[r] = "apply" /\ Kind(r) = "set" /\ idx[r] # 0
  BY DEF UpdateRule, Finish
<1>2. Asked(r) \in Rules /\ Slot(r) = idx[r] /\ (AddressesFit => Reach(r) = idx[r])
  BY <1>1, ReachFacts DEF Slot
<1>3. /\ rules \in Seq(Rules) /\ Len(rules) \in Nat /\ DOMAIN rules = 1..Len(rules)
      /\ \A i \in DOMAIN rules : rules[i] \in Rules
      /\ rules = [i \in DOMAIN rules |-> rules[i]]
  BY LenProperties DEF TableInv, ParseInv, TypeOK
<1>4. PICK other \in [Overwritten(r) -> Rules] :
        rules' = [i \in DOMAIN rules |-> IF i = idx[r] THEN Asked(r)
                                         ELSE IF i \in Overwritten(r) THEN other[i]
                                         ELSE rules[i]]
  BY DEF UpdateRule
<1>5. rules' \in [1..Len(rules) -> Rules]
  BY <1>2, <1>3, <1>4
<1>6. rules' \in Seq(Rules) /\ Len(rules') = Len(rules) /\ DOMAIN rules' = DOMAIN rules
  BY <1>3, <1>5
<1>7. ASSUME AddressesFit PROVE rules' = [rules EXCEPT ![idx[r]] = Asked(r)]
  <2>1. idx[r] \in Nat
    BY DEF TableInv, ParseInv, TypeOK
  <2>2. Overwritten(r) = {}
    BY <1>2, <1>3, <1>7, <2>1 DEF Overwritten
  <2> QED BY <1>3, <1>4, <2>2
<1> QED BY <1>6, <1>7

(* Wherever a pointer into freed memory leads, it leads into some datagram, *)
(* and so does the pointer strtok goes on with.                             *)
LEMMA LandingFacts ==
    ASSUME TableInv, NEW p, Valid(p), NEW q \in Landings(p)
    PROVE  /\ Valid(q) /\ Valid(Behind(q))
           /\ TokenAt(q) \in Tokens \cup {None}
<1>1. Valid(q)
  <2>1. CASE Live(p.buf)
    BY <2>1 DEF Landings
  <2>2. CASE ~Live(p.buf)
    <3>1. PICK b \in {p.buf} \cup InFlight : q \in [buf : {b}, at : 0..Len(msg[b].toks)]
      BY <2>2 DEF Landings
    <3>2. b \in Requests /\ pc[b] \notin {"free", "lost"}
      BY <3>1 DEF Valid, Pointers, InFlight, Live
    <3> QED BY <3>1, <3>2 DEF Valid, Pointers
  <2> QED BY <2>1, <2>2
<1>2. msg[q.buf] \in Messages
  BY <1>1 DEF TableInv, ParseInv, MessageKept, Valid, Pointers
<1>3. msg[q.buf].toks \in Seq(Tokens)
  BY <1>2, SdnAssumption
<1>4. TokenAt(q) \in Tokens \cup {None}
  BY <1>1, <1>3 DEF TokenAt, Valid, Pointers
<1>5. Valid(Behind(q))
  BY <1>1, <1>3 DEF Behind, Valid, Pointers
<1> QED BY <1>1, <1>4, <1>5

(* The datagram stays in its buffer. *)
LEMMA MessageKeptStep ==
    ASSUME TableInv, Next
    PROVE  MessageKept'
<1>1. ASSUME NEW r \in Requests, NEW m \in Messages, Receive(r, m) PROVE
  MessageKept'
  BY <1>1, SdnAssumption DEF Receive, Goto, table, socks, TableInv, ParseInv,
    TypeOK, PCs, MessageKept
<1>2. ASSUME NEW r \in Requests, Drop(r) PROVE MessageKept'
  BY <1>2, SdnAssumption DEF Drop, Goto, parser, table, socks, TableInv,
    ParseInv, TypeOK, PCs, MessageKept
<1>3. ASSUME NEW r \in Requests, LoadSave(r) PROVE MessageKept'
  BY <1>3, SdnAssumption DEF LoadSave, Goto, table, socks, TableInv, ParseInv,
    TypeOK, PCs, MessageKept
<1>4. ASSUME NEW r \in Requests, ScanToken(r) PROVE MessageKept'
  BY <1>4, SdnAssumption DEF ScanToken, Goto, Disturb, table, socks, TableInv,
    ParseInv, TypeOK, PCs, MessageKept
<1>5. ASSUME NEW r \in Requests, TokenMissing(r) PROVE MessageKept'
  BY <1>5, SdnAssumption DEF TokenMissing, StoreSave, Disturb, Respond, Goto,
    Reply, table, socks, TableInv, ParseInv, TypeOK, PCs, MessageKept
<1>6. ASSUME NEW r \in Requests, TokenTaken(r) PROVE MessageKept'
  BY <1>6, SdnAssumption DEF TokenTaken, StoreSave, Disturb, Goto, table,
    socks, TableInv, ParseInv, TypeOK, PCs, MessageKept
<1>7. ASSUME NEW r \in Requests, NoColon(r) PROVE MessageKept'
  BY <1>7, SdnAssumption DEF NoColon, StoreSave, Disturb, Respond, Goto,
    Reply, table, socks, TableInv, ParseInv, TypeOK, PCs, MessageKept
<1>8. ASSUME NEW r \in Requests, Parsed(r) PROVE MessageKept'
  BY <1>8, SdnAssumption DEF Parsed, StoreSave, Disturb, Goto, table, socks,
    TableInv, ParseInv, TypeOK, PCs, MessageKept
<1>9. ASSUME NEW r \in Requests, Acquire(r) PROVE MessageKept'
  BY <1>9, SdnAssumption DEF Acquire, Goto, parser, socks, TableInv, ParseInv,
    TypeOK, PCs, MessageKept
<1>10. ASSUME NEW r \in Requests, Search(r) PROVE MessageKept'
  BY <1>10, SdnAssumption DEF Search, Goto, parser, table, socks, TableInv,
    ParseInv, TypeOK, PCs, MessageKept
<1>11. ASSUME NEW r \in Requests, UpdateRule(r) PROVE MessageKept'
  BY <1>11, SdnAssumption DEF UpdateRule, Finish, Respond, Goto, Reply,
    parser, socks, TableInv, ParseInv, TypeOK, PCs, MessageKept
<1>12. ASSUME NEW r \in Requests, AddRule(r) PROVE MessageKept'
  BY <1>12, SdnAssumption DEF AddRule, Finish, Respond, Goto, Reply, parser,
    socks, TableInv, ParseInv, TypeOK, PCs, MessageKept
<1>13. ASSUME NEW r \in Requests, RuleLimit(r) PROVE MessageKept'
  BY <1>13, SdnAssumption DEF RuleLimit, Finish, Respond, Goto, Reply, parser,
    socks, TableInv, ParseInv, TypeOK, PCs, MessageKept
<1>14. ASSUME NEW r \in Requests, RemoveRule(r) PROVE MessageKept'
  BY <1>14, SdnAssumption DEF RemoveRule, Finish, Respond, Goto, Reply,
    parser, socks, TableInv, ParseInv, TypeOK, PCs, MessageKept
<1>15. ASSUME NEW r \in Requests, CopyRule(r) PROVE MessageKept'
  BY <1>15, SdnAssumption DEF CopyRule, Finish, Goto, parser, socks, TableInv,
    ParseInv, TypeOK, PCs, MessageKept
<1>16. ASSUME NEW r \in Requests, NoRule(r) PROVE MessageKept'
  BY <1>16, SdnAssumption DEF NoRule, Finish, Respond, Goto, Reply, parser,
    socks, TableInv, ParseInv, TypeOK, PCs, MessageKept
<1>17. ASSUME NEW r \in Requests, Forward(r) PROVE MessageKept'
  BY <1>17, SdnAssumption DEF Forward, Goto, parser, table, TableInv, ParseInv,
    TypeOK, PCs, MessageKept
<1>18. ASSUME NEW r \in Requests, ForwardFails(r) PROVE MessageKept'
  BY <1>18, SdnAssumption DEF ForwardFails, Respond, Goto, Reply, parser,
    table, socks, TableInv, ParseInv, TypeOK, PCs, MessageKept
<1>19. ASSUME NEW r \in Requests, RecvAnswer(r) PROVE MessageKept'
  BY <1>19, SdnAssumption DEF RecvAnswer, AnswerOf, Respond, Goto, Reply,
    parser, table, TableInv, ParseInv, TypeOK, PCs, MessageKept
<1>20. ASSUME NEW r \in Requests, RecvFails(r) PROVE MessageKept'
  BY <1>20, SdnAssumption DEF RecvFails, Respond, Goto, Reply, parser, table,
    socks, TableInv, ParseInv, TypeOK, PCs, MessageKept
<1>21. ASSUME NEW r \in Requests, SendReply(r) PROVE MessageKept'
  BY <1>21, SdnAssumption DEF SendReply, Goto, table, TableInv, ParseInv,
    TypeOK, PCs, MessageKept
<1>22. CASE Quiet
  BY <1>22 DEF Quiet, vars, TableInv, ParseInv, TypeOK, PCs, MessageKept
<1>23. ASSUME NEW r \in Requests, OverrunArray(r) PROVE MessageKept'
  BY <1>23 DEF OverrunArray, Goto, parser, table, socks, TableInv, ParseInv,
    TypeOK, PCs, MessageKept
<1> QED BY <1>1, <1>2, <1>3, <1>4, <1>5, <1>6, <1>7, <1>8, <1>9, <1>10, <1>11,
  <1>12, <1>13, <1>14, <1>15, <1>16, <1>17, <1>18, <1>19, <1>20, <1>21, <1>22,
  <1>23 DEF Next, Handler, Parse, Critical, Relay

(* A request is forwarded only with the address of a rule. *)
LEMMA RouteCopiedStep ==
    ASSUME TableInv, Next
    PROVE  RouteCopied'
<1>1. ASSUME NEW r \in Requests, NEW m \in Messages, Receive(r, m) PROVE
  RouteCopied'
  BY <1>1, SdnAssumption DEF Receive, Goto, table, socks, TableInv, ParseInv,
    TypeOK, PCs, RouteCopied, Rules
<1>2. ASSUME NEW r \in Requests, Drop(r) PROVE RouteCopied'
  BY <1>2, SdnAssumption DEF Drop, Goto, parser, table, socks, TableInv,
    ParseInv, TypeOK, PCs, RouteCopied, Rules
<1>3. ASSUME NEW r \in Requests, LoadSave(r) PROVE RouteCopied'
  BY <1>3, SdnAssumption DEF LoadSave, Goto, table, socks, TableInv, ParseInv,
    TypeOK, PCs, RouteCopied, Rules
<1>4. ASSUME NEW r \in Requests, ScanToken(r) PROVE RouteCopied'
  BY <1>4, SdnAssumption DEF ScanToken, Goto, Disturb, table, socks, TableInv,
    ParseInv, TypeOK, PCs, RouteCopied, Rules
<1>5. ASSUME NEW r \in Requests, TokenMissing(r) PROVE RouteCopied'
  BY <1>5, SdnAssumption DEF TokenMissing, StoreSave, Disturb, Respond, Goto,
    Reply, table, socks, TableInv, ParseInv, TypeOK, PCs, RouteCopied, Rules
<1>6. ASSUME NEW r \in Requests, TokenTaken(r) PROVE RouteCopied'
  BY <1>6, SdnAssumption DEF TokenTaken, StoreSave, Disturb, Goto, table,
    socks, TableInv, ParseInv, TypeOK, PCs, RouteCopied, Rules
<1>7. ASSUME NEW r \in Requests, NoColon(r) PROVE RouteCopied'
  BY <1>7, SdnAssumption DEF NoColon, StoreSave, Disturb, Respond, Goto,
    Reply, table, socks, TableInv, ParseInv, TypeOK, PCs, RouteCopied, Rules
<1>8. ASSUME NEW r \in Requests, Parsed(r) PROVE RouteCopied'
  BY <1>8, SdnAssumption DEF Parsed, StoreSave, Disturb, Goto, table, socks,
    TableInv, ParseInv, TypeOK, PCs, RouteCopied, Rules
<1>9. ASSUME NEW r \in Requests, Acquire(r) PROVE RouteCopied'
  BY <1>9, SdnAssumption DEF Acquire, Goto, parser, socks, TableInv, ParseInv,
    TypeOK, PCs, RouteCopied, Rules
<1>10. ASSUME NEW r \in Requests, Search(r) PROVE RouteCopied'
  BY <1>10, SdnAssumption DEF Search, Goto, parser, table, socks, TableInv,
    ParseInv, TypeOK, PCs, RouteCopied, Rules
<1>11. ASSUME NEW r \in Requests, UpdateRule(r) PROVE RouteCopied'
  BY <1>11, SdnAssumption DEF UpdateRule, Finish, Respond, Goto, Reply,
    parser, socks, TableInv, ParseInv, TypeOK, PCs, RouteCopied, Rules
<1>12. ASSUME NEW r \in Requests, AddRule(r) PROVE RouteCopied'
  BY <1>12, SdnAssumption DEF AddRule, Finish, Respond, Goto, Reply, parser,
    socks, TableInv, ParseInv, TypeOK, PCs, RouteCopied, Rules
<1>13. ASSUME NEW r \in Requests, RuleLimit(r) PROVE RouteCopied'
  BY <1>13, SdnAssumption DEF RuleLimit, Finish, Respond, Goto, Reply, parser,
    socks, TableInv, ParseInv, TypeOK, PCs, RouteCopied, Rules
<1>14. ASSUME NEW r \in Requests, RemoveRule(r) PROVE RouteCopied'
  BY <1>14, SdnAssumption DEF RemoveRule, Finish, Respond, Goto, Reply,
    parser, socks, TableInv, ParseInv, TypeOK, PCs, RouteCopied, Rules
<1>15. ASSUME NEW r \in Requests, CopyRule(r) PROVE RouteCopied'
  <2>1. rules[idx[r]] \in Rules
    BY <1>15, InsideFacts DEF CopyRule, Finish
  <2> QED
    BY <1>15, <2>1 DEF CopyRule, Finish, Goto, TableInv, ParseInv, TypeOK, PCs,
      RouteCopied, Rules
<1>16. ASSUME NEW r \in Requests, NoRule(r) PROVE RouteCopied'
  BY <1>16, SdnAssumption DEF NoRule, Finish, Respond, Goto, Reply, parser,
    socks, TableInv, ParseInv, TypeOK, PCs, RouteCopied, Rules
<1>17. ASSUME NEW r \in Requests, Forward(r) PROVE RouteCopied'
  BY <1>17, SdnAssumption DEF Forward, Goto, parser, table, TableInv, ParseInv,
    TypeOK, PCs, RouteCopied, Rules
<1>18. ASSUME NEW r \in Requests, ForwardFails(r) PROVE RouteCopied'
  BY <1>18, SdnAssumption DEF ForwardFails, Respond, Goto, Reply, parser,
    table, socks, TableInv, ParseInv, TypeOK, PCs, RouteCopied, Rules
<1>19. ASSUME NEW r \in Requests, RecvAnswer(r) PROVE RouteCopied'
  BY <1>19, SdnAssumption DEF RecvAnswer, AnswerOf, Respond, Goto, Reply,
    parser, table, TableInv, ParseInv, TypeOK, PCs, RouteCopied, Rules
<1>20. ASSUME NEW r \in Requests, RecvFails(r) PROVE RouteCopied'
  BY <1>20, SdnAssumption DEF RecvFails, Respond, Goto, Reply, parser, table,
    socks, TableInv, ParseInv, TypeOK, PCs, RouteCopied, Rules
<1>21. ASSUME NEW r \in Requests, SendReply(r) PROVE RouteCopied'
  BY <1>21, SdnAssumption DEF SendReply, Goto, table, TableInv, ParseInv,
    TypeOK, PCs, RouteCopied, Rules
<1>22. CASE Quiet
  BY <1>22 DEF Quiet, vars, TableInv, ParseInv, TypeOK, PCs, RouteCopied, Rules
<1>23. ASSUME NEW r \in Requests, OverrunArray(r) PROVE RouteCopied'
  BY <1>23 DEF OverrunArray, Goto, parser, table, socks, TableInv, ParseInv,
    TypeOK, PCs, RouteCopied
<1> QED BY <1>1, <1>2, <1>3, <1>4, <1>5, <1>6, <1>7, <1>8, <1>9, <1>10, <1>11,
  <1>12, <1>13, <1>14, <1>15, <1>16, <1>17, <1>18, <1>19, <1>20, <1>21, <1>22,
  <1>23 DEF Next, Handler, Parse, Critical, Relay

(* strtok's pointer and the pointers of the running calls stay valid. *)
LEMMA PointersValidStep ==
    ASSUME TableInv, Next
    PROVE  PointersValid'
<1>1. ASSUME NEW r \in Requests, NEW m \in Messages, Receive(r, m) PROVE
  PointersValid'
  BY <1>1, SdnAssumption DEF Receive, Goto, table, socks, TableInv, ParseInv,
    TypeOK, PCs, MessageKept, PointersValid, Valid, Pointers
<1>2. ASSUME NEW r \in Requests, Drop(r) PROVE PointersValid'
  BY <1>2, SdnAssumption DEF Drop, Goto, parser, table, socks, TableInv,
    ParseInv, TypeOK, PCs, MessageKept, PointersValid, Valid, Pointers
<1>3. ASSUME NEW r \in Requests, LoadSave(r) PROVE PointersValid'
  BY <1>3, SdnAssumption DEF LoadSave, Goto, table, socks, TableInv, ParseInv,
    TypeOK, PCs, MessageKept, PointersValid, Valid, Pointers
<1>4. ASSUME NEW r \in Requests, ScanToken(r) PROVE PointersValid'
  <2>1. PICK p \in Landings(held[r]) : held' = [held EXCEPT ![r] = Behind(p)]
    BY <1>4 DEF ScanToken
  <2>2. Valid(held[r])
    BY <1>4 DEF ScanToken, TableInv, ParseInv, PointersValid
  <2>3. Valid(Behind(p))
    BY <2>1, <2>2, LandingFacts
  <2>4. /\ pc' = [pc EXCEPT ![r] = "store"] /\ pc[r] = "scan"
        /\ save' = save /\ msg' = msg
    BY <1>4 DEF ScanToken, Goto
  <2>5. ASSUME NEW x, Valid(x) PROVE Valid(x)'
    BY <2>4, <2>5 DEF TableInv, ParseInv, TypeOK, Valid, Pointers
  <2>6. ASSUME NEW o \in Requests, pc'[o] \in {"scan", "store"}
        PROVE  Valid(held[o])'
    <3>1. held'[o] = IF o = r THEN Behind(p) ELSE held[o]
      BY <2>1 DEF TableInv, ParseInv, TypeOK
    <3>2. o # r => Valid(held[o])
      BY <2>4, <2>6 DEF TableInv, ParseInv, TypeOK, PointersValid
    <3>3. Valid(held'[o])
      BY <2>3, <3>1, <3>2
    <3> QED BY <2>4, <3>3 DEF TableInv, ParseInv, TypeOK, Valid, Pointers
  <2>7. save # None => Valid(save)'
    BY <2>4, <2>5 DEF TableInv, ParseInv, PointersValid, Valid
  <2>8. \A o \in Requests : pc'[o] = "load" => save # None
    BY <2>4 DEF TableInv, ParseInv, TypeOK, PointersValid
  <2> QED BY <2>4, <2>6, <2>7, <2>8 DEF PointersValid
<1>5. ASSUME NEW r \in Requests, TokenMissing(r) PROVE PointersValid'
  BY <1>5, SdnAssumption DEF TokenMissing, StoreSave, Disturb, Respond, Goto,
    Reply, table, socks, TableInv, ParseInv, TypeOK, PCs, MessageKept,
    PointersValid, Valid, Pointers
<1>6. ASSUME NEW r \in Requests, TokenTaken(r) PROVE PointersValid'
  BY <1>6, SdnAssumption DEF TokenTaken, StoreSave, Disturb, Goto, table,
    socks, TableInv, ParseInv, TypeOK, PCs, MessageKept, PointersValid, Valid,
    Pointers
<1>7. ASSUME NEW r \in Requests, NoColon(r) PROVE PointersValid'
  BY <1>7, SdnAssumption DEF NoColon, StoreSave, Disturb, Respond, Goto,
    Reply, table, socks, TableInv, ParseInv, TypeOK, PCs, MessageKept,
    PointersValid, Valid, Pointers
<1>8. ASSUME NEW r \in Requests, Parsed(r) PROVE PointersValid'
  BY <1>8, SdnAssumption DEF Parsed, StoreSave, Disturb, Goto, table, socks,
    TableInv, ParseInv, TypeOK, PCs, MessageKept, PointersValid, Valid, Pointers
<1>9. ASSUME NEW r \in Requests, Acquire(r) PROVE PointersValid'
  BY <1>9, SdnAssumption DEF Acquire, Goto, parser, socks, TableInv, ParseInv,
    TypeOK, PCs, MessageKept, PointersValid, Valid, Pointers
<1>10. ASSUME NEW r \in Requests, Search(r) PROVE PointersValid'
  BY <1>10, SdnAssumption DEF Search, Goto, parser, table, socks, TableInv,
    ParseInv, TypeOK, PCs, MessageKept, PointersValid, Valid, Pointers
<1>11. ASSUME NEW r \in Requests, UpdateRule(r) PROVE PointersValid'
  BY <1>11, SdnAssumption DEF UpdateRule, Finish, Respond, Goto, Reply,
    parser, socks, TableInv, ParseInv, TypeOK, PCs, MessageKept, PointersValid,
    Valid, Pointers
<1>12. ASSUME NEW r \in Requests, AddRule(r) PROVE PointersValid'
  BY <1>12, SdnAssumption DEF AddRule, Finish, Respond, Goto, Reply, parser,
    socks, TableInv, ParseInv, TypeOK, PCs, MessageKept, PointersValid, Valid,
    Pointers
<1>13. ASSUME NEW r \in Requests, RuleLimit(r) PROVE PointersValid'
  BY <1>13, SdnAssumption DEF RuleLimit, Finish, Respond, Goto, Reply, parser,
    socks, TableInv, ParseInv, TypeOK, PCs, MessageKept, PointersValid, Valid,
    Pointers
<1>14. ASSUME NEW r \in Requests, RemoveRule(r) PROVE PointersValid'
  BY <1>14, SdnAssumption DEF RemoveRule, Finish, Respond, Goto, Reply,
    parser, socks, TableInv, ParseInv, TypeOK, PCs, MessageKept, PointersValid,
    Valid, Pointers
<1>15. ASSUME NEW r \in Requests, CopyRule(r) PROVE PointersValid'
  BY <1>15, SdnAssumption DEF CopyRule, Finish, Goto, parser, socks, TableInv,
    ParseInv, TypeOK, PCs, MessageKept, PointersValid, Valid, Pointers
<1>16. ASSUME NEW r \in Requests, NoRule(r) PROVE PointersValid'
  BY <1>16, SdnAssumption DEF NoRule, Finish, Respond, Goto, Reply, parser,
    socks, TableInv, ParseInv, TypeOK, PCs, MessageKept, PointersValid, Valid,
    Pointers
<1>17. ASSUME NEW r \in Requests, Forward(r) PROVE PointersValid'
  BY <1>17, SdnAssumption DEF Forward, Goto, parser, table, TableInv, ParseInv,
    TypeOK, PCs, MessageKept, PointersValid, Valid, Pointers
<1>18. ASSUME NEW r \in Requests, ForwardFails(r) PROVE PointersValid'
  BY <1>18, SdnAssumption DEF ForwardFails, Respond, Goto, Reply, parser,
    table, socks, TableInv, ParseInv, TypeOK, PCs, MessageKept, PointersValid,
    Valid, Pointers
<1>19. ASSUME NEW r \in Requests, RecvAnswer(r) PROVE PointersValid'
  <2>1. pc' = [pc EXCEPT ![r] = "send"] /\ pc[r] = "wait"
    BY <1>19 DEF RecvAnswer, Respond, Goto
  <2> QED
    BY <1>19, <2>1 DEF RecvAnswer, parser, TableInv, ParseInv, TypeOK, PointersValid, Valid
<1>20. ASSUME NEW r \in Requests, RecvFails(r) PROVE PointersValid'
  BY <1>20, SdnAssumption DEF RecvFails, Respond, Goto, Reply, parser, table,
    socks, TableInv, ParseInv, TypeOK, PCs, MessageKept, PointersValid, Valid,
    Pointers
<1>21. ASSUME NEW r \in Requests, SendReply(r) PROVE PointersValid'
  BY <1>21, SdnAssumption DEF SendReply, Goto, table, TableInv, ParseInv,
    TypeOK, PCs, MessageKept, PointersValid, Valid, Pointers
<1>22. CASE Quiet
  BY <1>22 DEF Quiet, vars, TableInv, ParseInv, TypeOK, PCs, MessageKept,
    PointersValid, Valid, Pointers
<1>23. ASSUME NEW r \in Requests, OverrunArray(r) PROVE PointersValid'
  BY <1>23 DEF OverrunArray, Goto, parser, table, socks, TableInv, ParseInv,
    TypeOK, PCs, PointersValid, Valid
<1> QED BY <1>1, <1>2, <1>3, <1>4, <1>5, <1>6, <1>7, <1>8, <1>9, <1>10, <1>11,
  <1>12, <1>13, <1>14, <1>15, <1>16, <1>17, <1>18, <1>19, <1>20, <1>21, <1>22,
  <1>23 DEF Next, Handler, Parse, Critical, Relay

(* A thread that goes where no words are needed may leave them as they are. *)
LEMMA TokensLeft ==
    ASSUME TableInv, NEW r \in Requests,
           NEW l \in {"lost", "wrecked", "forward", "wait", "send", "done"},
           toks' = toks, msg' = msg, pc' = [pc EXCEPT ![r] = l]
    PROVE  TokensTaken'
<1>1. pc \in [Requests -> PCs] /\ TokensTaken BY DEF TableInv, ParseInv, TypeOK
<1> QED BY <1>1 DEF TokensTaken, AllTokens, Needed, Kind

(* So may one that has them all and asks for the lock or goes on inside. *)
LEMMA TokensCarried ==
    ASSUME TableInv, NEW r \in Requests, pc[r] \in {"lock", "search"},
           NEW l \in {"search", "apply"},
           toks' = toks, msg' = msg, pc' = [pc EXCEPT ![r] = l]
    PROVE  TokensTaken'
<1>1. pc \in [Requests -> PCs] /\ TokensTaken BY DEF TableInv, ParseInv, TypeOK
<1> QED BY <1>1 DEF TokensTaken, AllTokens, Needed, Kind

(* The words are there when the lock is asked for. *)
LEMMA TokensTakenStep ==
    ASSUME TableInv, Next
    PROVE  TokensTaken'
<1>1. ASSUME NEW r \in Requests, NEW m \in Messages, Receive(r, m) PROVE
  TokensTaken'
  <2>1. /\ pc[r] = "free" /\ pc' = [pc EXCEPT ![r] = "scan"]
        /\ msg' = [msg EXCEPT ![r] = m] /\ toks' = toks
    BY <1>1 DEF Receive, Goto
  <2>2. /\ pc \in [Requests -> PCs] /\ msg \in [Requests -> Messages \cup {None}]
        /\ TokensTaken
    BY DEF TableInv, ParseInv, TypeOK
  <2>3. toks[r] = <<>>
    BY <2>1, <2>2 DEF TokensTaken
  <2> QED BY <2>1, <2>2, <2>3 DEF TokensTaken, Needed, Kind, AllTokens
<1>2. ASSUME NEW r \in Requests, Drop(r) PROVE TokensTaken'
  BY <1>2, TokensLeft DEF Drop, Goto, parser
<1>3. ASSUME NEW r \in Requests, LoadSave(r) PROVE TokensTaken'
  BY <1>3, SdnAssumption DEF LoadSave, Goto, table, socks, TableInv, ParseInv,
    TypeOK, PCs, MessageKept, TokensTaken, Needed, Kind, AllTokens, LastToken
<1>4. ASSUME NEW r \in Requests, ScanToken(r) PROVE TokensTaken'
  BY <1>4, SdnAssumption DEF ScanToken, Goto, Disturb, table, socks, TableInv,
    ParseInv, TypeOK, PCs, MessageKept, TokensTaken, Needed, Kind, AllTokens,
    LastToken
<1>5. ASSUME NEW r \in Requests, TokenMissing(r) PROVE TokensTaken'
  BY <1>5, TokensLeft DEF TokenMissing, StoreSave, Respond, Goto
<1>6. ASSUME NEW r \in Requests, TokenTaken(r) PROVE TokensTaken'
  <2>1. /\ toks' = toks /\ msg' = msg
        /\ pc' = [pc EXCEPT ![r] = "load"]
    BY <1>6 DEF TokenTaken, StoreSave, Goto
  <2>2. Len(toks[r]) \in Nat /\ Len(toks[r]) < Needed(r) /\ AllTokens(r, Len(toks[r]))
    BY <1>6 DEF TokenTaken, StoreSave, TableInv, ParseInv, TypeOK, TokensTaken, AllTokens,
      LastToken, Needed
  <2> QED
    BY <2>1, <2>2 DEF TableInv, ParseInv, TypeOK, TokensTaken, AllTokens, Needed, Kind
<1>7. ASSUME NEW r \in Requests, NoColon(r) PROVE TokensTaken'
  BY <1>7, TokensLeft DEF NoColon, StoreSave, Respond, Goto
<1>8. ASSUME NEW r \in Requests, Parsed(r) PROVE TokensTaken'
  <2>1. /\ toks' = toks /\ msg' = msg
        /\ pc' = [pc EXCEPT ![r] = "lock"]
    BY <1>8 DEF Parsed, StoreSave, Goto, table, socks
  <2>2. /\ Len(toks[r]) = Needed(r) /\ Needed(r) \in {2, 3}
        /\ AllTokens(r, Needed(r) - 1)
        /\ LastToken(r) \in Tokens
        /\ Kind(r) = "set" => toks[r][3] \in Addrs
    BY <1>8 DEF Parsed, StoreSave, TableInv, ParseInv, TypeOK, TokensTaken, AllTokens,
      LastToken, Needed
  <2>3. AllTokens(r, Needed(r))
    BY <2>2 DEF AllTokens, LastToken
  <2> QED
    BY <2>1, <2>2, <2>3 DEF TableInv, ParseInv, TypeOK, TokensTaken, AllTokens, Needed, Kind
<1>9. ASSUME NEW r \in Requests, Acquire(r) PROVE TokensTaken'
  BY <1>9, TokensCarried DEF Acquire, Goto, parser
<1>10. ASSUME NEW r \in Requests, Search(r) PROVE TokensTaken'
  BY <1>10, TokensCarried DEF Search, Goto, parser
<1>11. ASSUME NEW r \in Requests, UpdateRule(r) PROVE TokensTaken'
  BY <1>11, TokensLeft DEF UpdateRule, Finish, Respond, Goto, parser
<1>12. ASSUME NEW r \in Requests, AddRule(r) PROVE TokensTaken'
  BY <1>12, TokensLeft DEF AddRule, Finish, Respond, Goto, parser
<1>13. ASSUME NEW r \in Requests, RuleLimit(r) PROVE TokensTaken'
  BY <1>13, TokensLeft DEF RuleLimit, Finish, Respond, Goto, parser
<1>14. ASSUME NEW r \in Requests, RemoveRule(r) PROVE TokensTaken'
  BY <1>14, TokensLeft DEF RemoveRule, Finish, Respond, Goto, parser
<1>15. ASSUME NEW r \in Requests, CopyRule(r) PROVE TokensTaken'
  BY <1>15, TokensLeft DEF CopyRule, Finish, Goto, parser
<1>16. ASSUME NEW r \in Requests, NoRule(r) PROVE TokensTaken'
  BY <1>16, TokensLeft DEF NoRule, Finish, Respond, Goto, parser
<1>17. ASSUME NEW r \in Requests, Forward(r) PROVE TokensTaken'
  BY <1>17, TokensLeft DEF Forward, Goto, parser
<1>18. ASSUME NEW r \in Requests, ForwardFails(r) PROVE TokensTaken'
  BY <1>18, TokensLeft DEF ForwardFails, Respond, Goto, parser
<1>19. ASSUME NEW r \in Requests, RecvAnswer(r) PROVE TokensTaken'
  <2>1. toks' = toks /\ msg' = msg /\ pc' = [pc EXCEPT ![r] = "send"]
    BY <1>19 DEF RecvAnswer, Respond, Goto, parser
  <2> QED BY <2>1, TokensLeft
<1>20. ASSUME NEW r \in Requests, RecvFails(r) PROVE TokensTaken'
  BY <1>20, TokensLeft DEF RecvFails, Respond, Goto, parser
<1>21. ASSUME NEW r \in Requests, SendReply(r) PROVE TokensTaken'
  BY <1>21, SdnAssumption DEF SendReply, Goto, table, TableInv, ParseInv,
    TypeOK, PCs, MessageKept, TokensTaken, Needed, Kind, AllTokens, LastToken
<1>22. CASE Quiet
  BY <1>22 DEF Quiet, vars, TableInv, ParseInv, TypeOK, PCs, MessageKept,
    TokensTaken, Needed, Kind, AllTokens, LastToken
<1>23. ASSUME NEW r \in Requests, OverrunArray(r) PROVE TokensTaken'
  BY <1>23, TokensLeft DEF OverrunArray, Goto, parser
<1> QED BY <1>1, <1>2, <1>3, <1>4, <1>5, <1>6, <1>7, <1>8, <1>9, <1>10, <1>11,
  <1>12, <1>13, <1>14, <1>15, <1>16, <1>17, <1>18, <1>19, <1>20, <1>21, <1>22,
  <1>23 DEF Next, Handler, Parse, Critical, Relay

(* The variables keep their types. *)
LEMMA TypeStep ==
    ASSUME TableInv, Next
    PROVE  TypeOK'
<1>1. ASSUME NEW r \in Requests, NEW m \in Messages, Receive(r, m) PROVE
  TypeOK'
  <2>1. [buf |-> r, at |-> IF m.toks = <<>> THEN 0 ELSE 1] \in Pointers
    BY DEF Pointers
  <2> QED
    BY <1>1, <2>1 DEF Receive, Goto, table, socks, TableInv, ParseInv, TypeOK, PCs
<1>2. ASSUME NEW r \in Requests, Drop(r) PROVE TypeOK'
  BY <1>2, SdnAssumption DEF Drop, Goto, parser, table, socks, TableInv,
    ParseInv, TypeOK, PCs, Verdicts, RouteCopied
<1>3. ASSUME NEW r \in Requests, LoadSave(r) PROVE TypeOK'
  BY <1>3, SdnAssumption DEF LoadSave, Goto, table, socks, TableInv, ParseInv,
    TypeOK, PCs, Verdicts, RouteCopied
<1>4. ASSUME NEW r \in Requests, ScanToken(r) PROVE TypeOK'
  <2>1. PICK p \in Landings(held[r]) :
          /\ toks' = [toks EXCEPT ![r] = Append(@, TokenAt(p))]
          /\ cut' = [cut EXCEPT ![p.buf] = @ \cup ({p.at} \ {0})]
          /\ held' = [held EXCEPT ![r] = Behind(p)]
    BY <1>4 DEF ScanToken
  <2>2. Valid(held[r])
    BY <1>4 DEF ScanToken, TableInv, ParseInv, PointersValid
  <2>3. Valid(p) /\ Behind(p) \in Pointers /\ TokenAt(p) \in Tokens \cup {None}
    BY <2>1, <2>2, LandingFacts DEF Valid
  <2>4. p.at \in Nat
    BY <2>3 DEF Valid, Pointers
  <2>5. Append(toks[r], TokenAt(p)) \in Seq(Tokens \cup {None})
    BY <2>3 DEF TableInv, ParseInv, TypeOK
  <2>6. /\ toks' \in [Requests -> Seq(Tokens \cup {None})]
        /\ cut' \in [Requests -> SUBSET Nat]
        /\ held' \in [Requests -> Pointers \cup {None}]
    BY <2>1, <2>3, <2>4, <2>5 DEF TableInv, ParseInv, TypeOK
  <2>7. overlapped' \in [Requests -> BOOLEAN]
    BY <1>4, Zenon DEF ScanToken, Disturb
  <2> QED
    BY <1>4, <2>6, <2>7 DEF ScanToken, Goto, table, socks, TableInv, ParseInv, TypeOK, PCs
<1>5. ASSUME NEW r \in Requests, TokenMissing(r) PROVE TypeOK'
  BY <1>5, SdnAssumption DEF TokenMissing, StoreSave, Disturb, Respond, Goto,
    Reply, table, socks, TableInv, ParseInv, TypeOK, PCs, Verdicts, RouteCopied
<1>6. ASSUME NEW r \in Requests, TokenTaken(r) PROVE TypeOK'
  BY <1>6, SdnAssumption DEF TokenTaken, StoreSave, Disturb, Goto, table,
    socks, TableInv, ParseInv, TypeOK, PCs, Verdicts, RouteCopied
<1>7. ASSUME NEW r \in Requests, NoColon(r) PROVE TypeOK'
  BY <1>7, SdnAssumption DEF NoColon, StoreSave, Disturb, Respond, Goto,
    Reply, table, socks, TableInv, ParseInv, TypeOK, PCs, Verdicts, RouteCopied
<1>8. ASSUME NEW r \in Requests, Parsed(r) PROVE TypeOK'
  BY <1>8, SdnAssumption DEF Parsed, StoreSave, Disturb, Goto, table, socks,
    TableInv, ParseInv, TypeOK, PCs, Verdicts, RouteCopied
<1>9. ASSUME NEW r \in Requests, Acquire(r) PROVE TypeOK'
  BY <1>9, SdnAssumption DEF Acquire, Goto, parser, socks, TableInv, ParseInv,
    TypeOK, PCs, Verdicts, RouteCopied
<1>10. ASSUME NEW r \in Requests, Search(r) PROVE TypeOK'
  <2>1. FirstMatch(Dest(r)) \in Nat
    BY <1>10, InsideFacts DEF Search
  <2> QED
    BY <1>10, <2>1 DEF Search, Goto, parser, table, socks, TableInv, ParseInv, TypeOK, PCs
<1>11. ASSUME NEW r \in Requests, UpdateRule(r) PROVE TypeOK'
  <2>1. rules' \in Seq(Rules)
    BY <1>11, UpdatedRules
  <2> QED
    BY <1>11, <2>1 DEF UpdateRule, Finish, Respond, Goto, Reply, parser, socks, TableInv, ParseInv,
      TypeOK, PCs, Verdicts
<1>12. ASSUME NEW r \in Requests, AddRule(r) PROVE TypeOK'
  <2>1. Asked(r) \in Rules
    BY <1>12, ReachFacts DEF AddRule, Finish
  <2>2. rules' \in Seq(Rules)
    BY <1>12, <2>1, AppendProperties DEF AddRule, TableInv, ParseInv, TypeOK
  <2> QED
    BY <1>12, <2>2 DEF AddRule, Finish, Respond, Goto, Reply, parser, socks, TableInv, ParseInv,
      TypeOK, PCs, Verdicts
<1>13. ASSUME NEW r \in Requests, RuleLimit(r) PROVE TypeOK'
  BY <1>13, SdnAssumption DEF RuleLimit, Finish, Respond, Goto, Reply, parser,
    socks, TableInv, ParseInv, TypeOK, PCs, Verdicts, RouteCopied
<1>14. ASSUME NEW r \in Requests, RemoveRule(r) PROVE TypeOK'
  <2>1. rules' \in Seq(Rules)
    <3>1. CASE idx[r] = 0
      BY <1>14, <3>1 DEF RemoveRule, TableInv, ParseInv, TypeOK
    <3>2. CASE idx[r] # 0
      <4>1. idx[r] \in 1..Len(rules)
        BY <1>14, <3>2, InsideFacts, LenProperties DEF RemoveRule, Finish, TableInv, ParseInv, TypeOK
      <4> QED BY <1>14, <3>2, <4>1, RemoveAtFacts DEF RemoveRule, TableInv, ParseInv, TypeOK
    <3> QED BY <3>1, <3>2
  <2> QED
    BY <1>14, <2>1 DEF RemoveRule, Finish, Respond, Goto, Reply, parser, socks, TableInv,
      ParseInv, TypeOK, PCs, Verdicts
<1>15. ASSUME NEW r \in Requests, CopyRule(r) PROVE TypeOK'
  <2>1. rules[idx[r]].addr \in Addrs
    BY <1>15, InsideFacts DEF CopyRule, Finish, Rules
  <2> QED
    BY <1>15, <2>1 DEF CopyRule, Finish, Goto, parser, socks, TableInv, ParseInv, TypeOK, PCs
<1>16. ASSUME NEW r \in Requests, NoRule(r) PROVE TypeOK'
  BY <1>16, SdnAssumption DEF NoRule, Finish, Respond, Goto, Reply, parser,
    socks, TableInv, ParseInv, TypeOK, PCs, Verdicts, RouteCopied
<1>17. ASSUME NEW r \in Requests, Forward(r) PROVE TypeOK'
  BY <1>17, SdnAssumption DEF Forward, Goto, parser, table, TableInv, ParseInv,
    TypeOK, PCs, Verdicts, RouteCopied
<1>18. ASSUME NEW r \in Requests, ForwardFails(r) PROVE TypeOK'
  BY <1>18, SdnAssumption DEF ForwardFails, Respond, Goto, Reply, parser,
    table, socks, TableInv, ParseInv, TypeOK, PCs, Verdicts, RouteCopied
<1>19. ASSUME NEW r \in Requests, RecvAnswer(r) PROVE TypeOK'
  <2>1. PICK a \in net :
          /\ net' = net \ {a}
          /\ \/ reply' = [reply EXCEPT ![r] = AnswerOf(a)]
             \/ reply' = [reply EXCEPT ![r] = Reply("unexpected")]
    BY <1>19 DEF RecvAnswer, Respond
  <2>2. pc' = [pc EXCEPT ![r] = "send"]
    BY <1>19 DEF RecvAnswer, Respond, Goto
  <2>3. a.from \in Addrs /\ a.req \in Requests
    BY <2>1 DEF TableInv, ParseInv, TypeOK
  <2>4. /\ AnswerOf(a) \in [verdict : Verdicts, from : Addrs \cup {None}, of : Requests \cup {None}]
        /\ Reply("unexpected") \in [verdict : Verdicts, from : Addrs \cup {None}, of : Requests \cup {None}]
    BY <2>3 DEF AnswerOf, Reply, Verdicts
  <2>5. /\ reply' \in [Requests -> [verdict : Verdicts, from : Addrs \cup {None},
                                    of : Requests \cup {None}]]
    BY <2>1, <2>4 DEF TableInv, ParseInv, TypeOK
  <2>6. net' \subseteq [port : Ports, from : Addrs, req : Requests]
    BY <2>1 DEF TableInv, ParseInv, TypeOK
  <2>7. pc' \in [Requests -> PCs]
    BY <2>2 DEF TableInv, ParseInv, TypeOK, PCs
  <2> QED
    BY <1>19, <2>5, <2>6, <2>7 DEF RecvAnswer, parser, table, TableInv, ParseInv, TypeOK
<1>20. ASSUME NEW r \in Requests, RecvFails(r) PROVE TypeOK'
  BY <1>20, SdnAssumption DEF RecvFails, Respond, Goto, Reply, parser, table,
    socks, TableInv, ParseInv, TypeOK, PCs, Verdicts, RouteCopied
<1>21. ASSUME NEW r \in Requests, SendReply(r) PROVE TypeOK'
  BY <1>21, SdnAssumption DEF SendReply, Goto, table, TableInv, ParseInv,
    TypeOK, PCs, Verdicts, RouteCopied
<1>22. CASE Quiet
  BY <1>22 DEF Quiet, vars, TableInv, ParseInv, TypeOK, PCs, Verdicts,
    RouteCopied
<1>23. ASSUME NEW r \in Requests, OverrunArray(r) PROVE TypeOK'
  BY <1>23 DEF OverrunArray, Goto, parser, table, socks, TableInv, ParseInv,
    TypeOK, PCs
<1> QED BY <1>1, <1>2, <1>3, <1>4, <1>5, <1>6, <1>7, <1>8, <1>9, <1>10, <1>11,
  <1>12, <1>13, <1>14, <1>15, <1>16, <1>17, <1>18, <1>19, <1>20, <1>21, <1>22,
  <1>23 DEF Next, Handler, Parse, Critical, Relay

----------------------------------------------------------------------------
(* Whose step it is. *)

Step(r) == Handler(r) \/ Drop(r) \/ \E m \in Messages : Receive(r, m)

(* Every step is a step of one request, or of none. *)
LEMMA NextIsStep == Next <=> Quiet \/ \E r \in Requests : Step(r)
BY DEF Next, Step

(* A handler keeps its hands off the variables of the others; only strtok's   *)
(* pointer, the cuts, the history, the table and the network are shared.      *)
LEMMA OthersKept ==
    ASSUME TypeOK, NEW r \in Requests, Step(r), NEW o \in Requests, o # r
    PROVE  /\ pc'[o] = pc[o] /\ msg'[o] = msg[o] /\ toks'[o] = toks[o]
           /\ held'[o] = held[o] /\ idx'[o] = idx[o]
           /\ route'[o] = route[o] /\ reply'[o] = reply[o]
<1> USE DEF TypeOK
<1>1. CASE LoadSave(r) \/ ScanToken(r)
  BY <1>1 DEF LoadSave, ScanToken, Goto, table, socks
<1>2. CASE TokenMissing(r) \/ TokenTaken(r) \/ NoColon(r) \/ Parsed(r)
  BY <1>2 DEF TokenMissing, TokenTaken, NoColon, Parsed, StoreSave, Respond, Goto, table, socks
<1>3. CASE Acquire(r) \/ Search(r) \/ OverrunArray(r)
  BY <1>3 DEF Acquire, Search, OverrunArray, Goto, parser, table, socks
<1>4. CASE UpdateRule(r) \/ AddRule(r) \/ RuleLimit(r) \/ RemoveRule(r)
  BY <1>4 DEF UpdateRule, AddRule, RuleLimit, RemoveRule, Finish, Respond, Goto, parser, socks
<1>5. CASE CopyRule(r) \/ NoRule(r)
  BY <1>5 DEF CopyRule, NoRule, Finish, Respond, Goto, parser, socks
<1>6. CASE Forward(r) \/ ForwardFails(r) \/ RecvFails(r)
  BY <1>6 DEF Forward, ForwardFails, RecvFails, Respond, Goto, parser, table, socks
<1>7. CASE RecvAnswer(r)
  BY <1>7 DEF RecvAnswer, Respond, Goto, parser, table
<1>8. CASE SendReply(r)
  BY <1>8 DEF SendReply, Goto, table
<1>9. CASE Drop(r) \/ \E m \in Messages : Receive(r, m)
  BY <1>9 DEF Drop, Receive, Goto, parser, table, socks
<1> QED BY <1>1, <1>2, <1>3, <1>4, <1>5, <1>6, <1>7, <1>8, <1>9
  DEF Step, Handler, Parse, Critical, Relay

(* A datagram that came stays in its buffer, and no thread starts anew. *)
LEMMA DatagramKept ==
    ASSUME TypeOK, NEW r \in Requests, Step(r), NEW o \in Requests,
           pc[o] \notin {"free", "lost"}
    PROVE  pc'[o] \notin {"free", "lost"} /\ msg'[o] = msg[o]
<1> USE DEF TypeOK
<1>1. CASE o # r
  BY <1>1, OthersKept
<1>2. CASE o = r
  <2>1. CASE Parse(r)
    BY <1>2, <2>1 DEF Parse, LoadSave, ScanToken, TokenMissing, TokenTaken, NoColon, Parsed,
      StoreSave, Respond, Goto
  <2>2. CASE Acquire(r) \/ Critical(r)
    BY <1>2, <2>2 DEF Acquire, Critical, Search, UpdateRule, AddRule, RuleLimit, OverrunArray,
      RemoveRule, CopyRule, NoRule, Finish, Respond, Goto
  <2>3. CASE RecvAnswer(r)
    BY <1>2, <2>3 DEF RecvAnswer, Respond, Goto
  <2>4. CASE Forward(r) \/ ForwardFails(r) \/ RecvFails(r) \/ SendReply(r)
    BY <1>2, <2>4 DEF Forward, ForwardFails, RecvFails, SendReply, Respond, Goto
  <2>5. CASE Drop(r) \/ \E m \in Messages : Receive(r, m)
    BY <1>2, <2>5 DEF Drop, Receive
  <2> QED BY <2>1, <2>2, <2>3, <2>4, <2>5 DEF Step, Handler, Relay
<1> QED BY <1>1, <1>2

(* The words in a thread's hands come from strtok only. *)
LEMMA TokensGrow ==
    ASSUME TypeOK, NEW r \in Requests, Step(r), NEW o \in Requests
    PROVE  toks'[o] = toks[o] \/ toks'[o] = <<>> \/ ScanToken(o)
<1> USE DEF TypeOK
<1>1. CASE o # r
  BY <1>1, OthersKept
<1>2. CASE o = r
  <2>1. CASE Parse(r)
    BY <1>2, <2>1 DEF Parse, LoadSave, TokenMissing, TokenTaken, NoColon, Parsed, StoreSave
  <2>2. CASE Acquire(r) \/ Critical(r)
    BY <2>2 DEF Acquire, Critical, Search, UpdateRule, AddRule, RuleLimit, OverrunArray,
      RemoveRule, CopyRule, NoRule, Finish, parser
  <2>3. CASE Relay(r)
    BY <2>3 DEF Relay, Forward, ForwardFails, RecvAnswer, RecvFails, parser
  <2>4. CASE SendReply(r) \/ Drop(r) \/ \E m \in Messages : Receive(r, m)
    BY <1>2, <2>4 DEF SendReply, Drop, Receive, parser
  <2> QED BY <2>1, <2>2, <2>3, <2>4 DEF Step, Handler
<1> QED BY <1>1, <1>2

----------------------------------------------------------------------------
(* The addresses that came. *)

(* Datagrams stay where they are: what came stays come. *)
LEMMA FitBefore ==
    ASSUME TableInv, Next, AddressesFit'
    PROVE  AddressesFit
<1>1. ASSUME NEW o \in Received PROVE o \in Received' /\ msg'[o] = msg[o]
  <2>1. CASE Quiet
    BY <1>1, <2>1 DEF Quiet, vars, Received
  <2>2. ASSUME NEW r \in Requests, Step(r) PROVE o \in Received' /\ msg'[o] = msg[o]
    BY <1>1, <2>2, DatagramKept DEF Received, TableInv, ParseInv
  <2> QED BY <2>1, <2>2, NextIsStep
<1> QED BY <1>1 DEF AddressesFit

(* A word that strtok returns stands in a datagram. *)
LEMMA WordsFitStep ==
    ASSUME TableInv, Next
    PROVE  WordsFit'
<1> SUFFICES ASSUME AddressesFit', NEW o \in Requests, NEW k \in DOMAIN toks'[o]
             PROVE  toks'[o][k] \notin LongWords
  BY DEF WordsFit, LongWords
<1>1. AddressesFit
  BY FitBefore
<1>2. \A i \in DOMAIN toks[o] : toks[o][i] \notin LongWords
  BY <1>1 DEF TableInv, WordsFit
<1>3. CASE toks'[o] = toks[o] \/ toks'[o] = <<>>
  BY <1>2, <1>3
<1>4. CASE ScanToken(o)
  <2>1. PICK p \in Landings(held[o]) : toks' = [toks EXCEPT ![o] = Append(@, TokenAt(p))]
    BY <1>4 DEF ScanToken
  <2>2. Valid(held[o])
    BY <1>4 DEF ScanToken, TableInv, ParseInv, PointersValid
  <2>3. Valid(p) /\ TokenAt(p) \in Tokens \cup {None}
    BY <2>1, <2>2, LandingFacts
  <2>4. TokenAt(p) \notin LongWords
    <3>1. p.buf \in Received /\ msg[p.buf].toks \in Seq(Tokens)
      BY <2>3, SdnAssumption DEF Valid, Pointers, Received, TableInv, ParseInv, MessageKept
    <3>2. CASE p.at = 0
      BY <3>2, SdnAssumption DEF TokenAt, LongWords
    <3>3. CASE p.at # 0
      <4>1. p.at \in DOMAIN msg[p.buf].toks
        BY <2>3, <3>1, <3>3 DEF Valid, Pointers
      <4> QED BY <1>1, <3>1, <3>3, <4>1 DEF TokenAt, AddressesFit
    <3> QED BY <3>2, <3>3
  <2>5. toks[o] \in Seq(Tokens \cup {None})
    BY DEF TableInv, ParseInv, TypeOK
  <2>6. toks'[o] = Append(toks[o], TokenAt(p))
    BY <2>1 DEF TableInv, ParseInv, TypeOK
  <2>7. (k \in DOMAIN toks[o] /\ toks'[o][k] = toks[o][k]) \/ toks'[o][k] = TokenAt(p)
    BY <2>3, <2>5, <2>6, AppendProperties, LenProperties
  <2> QED BY <1>2, <2>4, <2>7
<1>5. CASE Quiet
  BY <1>3, <1>5 DEF Quiet, vars
<1>6. ASSUME NEW r \in Requests, Step(r)
      PROVE  toks'[o] = toks[o] \/ toks'[o] = <<>> \/ ScanToken(o)
  BY <1>6, TokensGrow DEF TableInv, ParseInv
<1> QED BY <1>3, <1>4, <1>5, <1>6, NextIsStep

----------------------------------------------------------------------------
(* The lock and the table. *)

(* The mutex is held by the thread that is inside, and by nobody else. *)
LEMMA HolderStep ==
    ASSUME TableInv, Next
    PROVE  HolderInside'
<1>1. ASSUME NEW r \in Requests, NEW m \in Messages, Receive(r, m) PROVE
  HolderInside'
  BY <1>1, SdnAssumption DEF Receive, Goto, table, socks, TableInv, ParseInv,
    TypeOK, PCs, HolderInside
<1>2. ASSUME NEW r \in Requests, Drop(r) PROVE HolderInside'
  BY <1>2, SdnAssumption DEF Drop, Goto, parser, table, socks, TableInv,
    ParseInv, TypeOK, PCs, HolderInside
<1>3. ASSUME NEW r \in Requests, LoadSave(r) PROVE HolderInside'
  BY <1>3, SdnAssumption DEF LoadSave, Goto, table, socks, TableInv, ParseInv,
    TypeOK, PCs, HolderInside
<1>4. ASSUME NEW r \in Requests, ScanToken(r) PROVE HolderInside'
  BY <1>4, SdnAssumption DEF ScanToken, Goto, Disturb, table, socks, TableInv,
    ParseInv, TypeOK, PCs, HolderInside
<1>5. ASSUME NEW r \in Requests, TokenMissing(r) PROVE HolderInside'
  BY <1>5, SdnAssumption DEF TokenMissing, StoreSave, Disturb, Respond, Goto,
    Reply, table, socks, TableInv, ParseInv, TypeOK, PCs, HolderInside
<1>6. ASSUME NEW r \in Requests, TokenTaken(r) PROVE HolderInside'
  BY <1>6, SdnAssumption DEF TokenTaken, StoreSave, Disturb, Goto, table,
    socks, TableInv, ParseInv, TypeOK, PCs, HolderInside
<1>7. ASSUME NEW r \in Requests, NoColon(r) PROVE HolderInside'
  BY <1>7, SdnAssumption DEF NoColon, StoreSave, Disturb, Respond, Goto,
    Reply, table, socks, TableInv, ParseInv, TypeOK, PCs, HolderInside
<1>8. ASSUME NEW r \in Requests, Parsed(r) PROVE HolderInside'
  BY <1>8, SdnAssumption DEF Parsed, StoreSave, Disturb, Goto, table, socks,
    TableInv, ParseInv, TypeOK, PCs, HolderInside
<1>9. ASSUME NEW r \in Requests, Acquire(r) PROVE HolderInside'
  BY <1>9, SdnAssumption DEF Acquire, Goto, parser, socks, TableInv, ParseInv,
    TypeOK, PCs, HolderInside
<1>10. ASSUME NEW r \in Requests, Search(r) PROVE HolderInside'
  BY <1>10, SdnAssumption DEF Search, Goto, parser, table, socks, TableInv,
    ParseInv, TypeOK, PCs, HolderInside
<1>11. ASSUME NEW r \in Requests, UpdateRule(r) PROVE HolderInside'
  BY <1>11, SdnAssumption DEF UpdateRule, Finish, Respond, Goto, Reply,
    parser, socks, TableInv, ParseInv, TypeOK, PCs, HolderInside
<1>12. ASSUME NEW r \in Requests, AddRule(r) PROVE HolderInside'
  BY <1>12, SdnAssumption DEF AddRule, Finish, Respond, Goto, Reply, parser,
    socks, TableInv, ParseInv, TypeOK, PCs, HolderInside
<1>13. ASSUME NEW r \in Requests, RuleLimit(r) PROVE HolderInside'
  BY <1>13, SdnAssumption DEF RuleLimit, Finish, Respond, Goto, Reply, parser,
    socks, TableInv, ParseInv, TypeOK, PCs, HolderInside
<1>14. ASSUME NEW r \in Requests, RemoveRule(r) PROVE HolderInside'
  BY <1>14, SdnAssumption DEF RemoveRule, Finish, Respond, Goto, Reply,
    parser, socks, TableInv, ParseInv, TypeOK, PCs, HolderInside
<1>15. ASSUME NEW r \in Requests, CopyRule(r) PROVE HolderInside'
  BY <1>15, SdnAssumption DEF CopyRule, Finish, Goto, parser, socks, TableInv,
    ParseInv, TypeOK, PCs, HolderInside
<1>16. ASSUME NEW r \in Requests, NoRule(r) PROVE HolderInside'
  BY <1>16, SdnAssumption DEF NoRule, Finish, Respond, Goto, Reply, parser,
    socks, TableInv, ParseInv, TypeOK, PCs, HolderInside
<1>17. ASSUME NEW r \in Requests, Forward(r) PROVE HolderInside'
  BY <1>17, SdnAssumption DEF Forward, Goto, parser, table, TableInv, ParseInv,
    TypeOK, PCs, HolderInside
<1>18. ASSUME NEW r \in Requests, ForwardFails(r) PROVE HolderInside'
  BY <1>18, SdnAssumption DEF ForwardFails, Respond, Goto, Reply, parser,
    table, socks, TableInv, ParseInv, TypeOK, PCs, HolderInside
<1>19. ASSUME NEW r \in Requests, RecvAnswer(r) PROVE HolderInside'
  <2>1. pc' = [pc EXCEPT ![r] = "send"] /\ mutex' = mutex /\ pc[r] = "wait"
    BY <1>19 DEF RecvAnswer, Respond, Goto, table
  <2> QED BY <2>1 DEF TableInv, ParseInv, TypeOK, HolderInside
<1>20. ASSUME NEW r \in Requests, RecvFails(r) PROVE HolderInside'
  BY <1>20, SdnAssumption DEF RecvFails, Respond, Goto, Reply, parser, table,
    socks, TableInv, ParseInv, TypeOK, PCs, HolderInside
<1>21. ASSUME NEW r \in Requests, SendReply(r) PROVE HolderInside'
  BY <1>21, SdnAssumption DEF SendReply, Goto, table, TableInv, ParseInv,
    TypeOK, PCs, HolderInside
<1>22. CASE Quiet
  BY <1>22 DEF Quiet, vars, TableInv, ParseInv, TypeOK, PCs, HolderInside
<1>23. ASSUME NEW r \in Requests, OverrunArray(r) PROVE HolderInside'
  BY <1>23 DEF OverrunArray, Goto, parser, table, socks, TableInv, ParseInv,
    TypeOK, PCs, HolderInside
<1> QED BY <1>1, <1>2, <1>3, <1>4, <1>5, <1>6, <1>7, <1>8, <1>9, <1>10, <1>11,
  <1>12, <1>13, <1>14, <1>15, <1>16, <1>17, <1>18, <1>19, <1>20, <1>21, <1>22,
  <1>23 DEF Next, Handler, Parse, Critical, Relay

(* Nothing but the three table operations changes the rules. *)
LEMMA RulesKept ==
    ASSUME Next, rules' # rules
    PROVE  \E r \in Requests : UpdateRule(r) \/ AddRule(r) \/ RemoveRule(r)
<1>1. ASSUME NEW r \in Requests, Parse(r) PROVE FALSE
  BY <1>1 DEF Parse, LoadSave, ScanToken, TokenMissing, TokenTaken, NoColon, Parsed,
    StoreSave, table
<1>2. ASSUME NEW r \in Requests, Relay(r) \/ SendReply(r) PROVE FALSE
  BY <1>2 DEF Relay, Forward, ForwardFails, RecvAnswer, RecvFails, SendReply, table
<1>3. ASSUME NEW r \in Requests, Acquire(r) \/ Drop(r) \/ (\E m \in Messages : Receive(r, m))
      PROVE FALSE
  BY <1>3 DEF Acquire, Drop, Receive, table
<1>4. ASSUME NEW r \in Requests,
             Search(r) \/ RuleLimit(r) \/ OverrunArray(r) \/ CopyRule(r) \/ NoRule(r)
      PROVE FALSE
  BY <1>4 DEF Search, RuleLimit, OverrunArray, CopyRule, NoRule, table
<1>5. CASE Quiet
  BY <1>5 DEF Quiet, vars
<1> QED BY <1>1, <1>2, <1>3, <1>4, <1>5 DEF Next, Handler, Critical

(* An update keeps the destination of the rule, an addition brings a new     *)
(* destination into a table with room, a removal forgets one rule.           *)
LEMMA TableConsistentStep ==
    ASSUME TableInv, Next
    PROVE  TableConsistent'
<1> SUFFICES ASSUME AddressesFit' PROVE Consistent'
  BY DEF TableConsistent
<1>0. AddressesFit /\ Consistent
  BY FitBefore DEF TableInv, TableConsistent
<1> USE LenProperties DEF TableInv, ParseInv, TypeOK
<1>1. CASE rules' = rules
  BY <1>0, <1>1 DEF Consistent
<1>2. ASSUME NEW r \in Requests, UpdateRule(r) PROVE Consistent'
  <2>1. idx[r] \in DOMAIN rules /\ rules[idx[r]].dest = Dest(r)
    BY <1>2, InsideFacts DEF UpdateRule, Finish
  <2>2. rules' = [rules EXCEPT ![idx[r]] = Asked(r)] /\ Asked(r).dest = Dest(r)
    BY <1>0, <1>2, UpdatedRules, ReachFacts DEF UpdateRule, Finish
  <2>3. Len(rules') = Len(rules) /\ DOMAIN rules' = DOMAIN rules
    BY <1>2, UpdatedRules
  <2>4. \A i \in DOMAIN rules : rules'[i].dest = rules[i].dest
    BY <2>1, <2>2
  <2> QED BY <1>0, <2>3, <2>4 DEF Consistent
<1>3. ASSUME NEW r \in Requests, AddRule(r) PROVE Consistent'
  <2>1. \A i \in DOMAIN rules : rules[i].dest # Dest(r)
    BY <1>3, InsideFacts DEF AddRule, Finish
  <2>2. rules' = Append(rules, Asked(r)) /\ Asked(r).dest = Dest(r)
    BY <1>3, ReachFacts DEF AddRule, Finish
  <2>3. Len(rules) < MAX_RULES /\ MAX_RULES \in Nat /\ Len(rules) \in Nat
    BY <1>3, SdnAssumption DEF AddRule
  <2>4. /\ Len(rules') = Len(rules) + 1 /\ DOMAIN rules' = 1..(Len(rules) + 1)
        /\ \A i \in 1..Len(rules) : rules'[i] = rules[i]
        /\ rules'[Len(rules) + 1].dest = Dest(r)
    BY <2>2
  <2>5. Len(rules') <= MAX_RULES
    BY <2>3, <2>4
  <2>6. ASSUME NEW i \in 1..(Len(rules) + 1), NEW j \in 1..(Len(rules) + 1),
               rules'[i].dest = rules'[j].dest
        PROVE  i = j
    <3> DEFINE n == Len(rules)
    <3>1. n \in Nat /\ DOMAIN rules = 1..n
      BY <2>3
    <3>2. \A k \in 1..n : rules'[k].dest = rules[k].dest /\ rules[k].dest # Dest(r)
      BY <2>1, <2>4, <3>1
    <3>3. rules'[n + 1].dest = Dest(r)
      BY <2>4
    <3>4. \A k, l \in 1..n : rules[k].dest = rules[l].dest => k = l
      BY <1>0, <3>1 DEF Consistent
    <3>5. i \in 1..(n + 1) /\ j \in 1..(n + 1) /\ rules'[i].dest = rules'[j].dest
      BY <2>6
    <3> HIDE DEF n
    <3>6. CASE i \in 1..n /\ j \in 1..n
      BY <3>2, <3>4, <3>5, <3>6
    <3>7. CASE i = n + 1 /\ j \in 1..n
      BY <3>2, <3>3, <3>5, <3>7
    <3>8. CASE i \in 1..n /\ j = n + 1
      BY <3>2, <3>3, <3>5, <3>8
    <3> QED BY <3>1, <3>5, <3>6, <3>7, <3>8
  <2> QED BY <2>4, <2>5, <2>6 DEF Consistent
<1>4. ASSUME NEW r \in Requests, RemoveRule(r), rules' # rules PROVE Consistent'
  <2>1. idx[r] \in 1..Len(rules) /\ rules' = RemoveAt(rules, idx[r])
    BY <1>4, InsideFacts DEF RemoveRule, Finish
  <2>2. /\ rules' \in Seq(Rules) /\ Len(rules') = Len(rules) - 1
        /\ \A i \in 1..(Len(rules) - 1) :
             rules'[i] = IF i < idx[r] THEN rules[i] ELSE rules[i + 1]
    BY <2>1, RemoveAtFacts
  <2>3. Len(rules) \in Nat /\ DOMAIN rules' = 1..(Len(rules) - 1) /\ DOMAIN rules = 1..Len(rules)
    BY <2>2
  <2>4. Len(rules') <= MAX_RULES
    BY <1>0, <2>2, <2>3, SdnAssumption DEF Consistent
  <2>5. ASSUME NEW i \in 1..(Len(rules) - 1), NEW j \in 1..(Len(rules) - 1),
               rules'[i].dest = rules'[j].dest
        PROVE  i = j
    <3> DEFINE at(x) == IF x < idx[r] THEN x ELSE x + 1
    <3>1. /\ at(i) \in 1..Len(rules) /\ at(j) \in 1..Len(rules)
          /\ rules'[i] = rules[at(i)] /\ rules'[j] = rules[at(j)]
      BY <2>1, <2>2, <2>3
    <3>2. at(i) = at(j)
      BY <1>0, <2>3, <2>5, <3>1 DEF Consistent
    <3> QED BY <2>1, <2>3, <3>2
  <2> QED BY <2>3, <2>4, <2>5 DEF Consistent
<1> QED BY <1>1, <1>2, <1>3, <1>4, RulesKept

(* A thread that is past its scan is not disturbed: whoever else moves, the  *)
(* thread keeps its index and the table stays as it was scanned.             *)
LEMMA ScanKept ==
    ASSUME TableInv, Next, NEW q \in Requests, pc'[q] = "apply"
    PROVE  \/ Search(q)
           \/ /\ pc[q] = "apply" /\ rules' = rules /\ idx'[q] = idx[q]
              /\ toks'[q] = toks[q] /\ msg'[q] = msg[q]
<1> DEFINE Kept == /\ pc[q] = "apply" /\ rules' = rules /\ idx'[q] = idx[q]
                   /\ toks'[q] = toks[q] /\ msg'[q] = msg[q]
<1> USE DEF TableInv, ParseInv, TypeOK
<1>1. ASSUME NEW r \in Requests, NEW m \in Messages, Receive(r, m) PROVE Kept
  BY <1>1 DEF Receive, Goto, table, socks
<1>2. ASSUME NEW r \in Requests, Drop(r) PROVE Kept
  BY <1>2 DEF Drop, Goto, parser, table, socks
<1>3. ASSUME NEW r \in Requests, LoadSave(r) PROVE Kept
  BY <1>3 DEF LoadSave, Goto, table, socks
<1>4. ASSUME NEW r \in Requests, ScanToken(r) PROVE Kept
  BY <1>4 DEF ScanToken, Goto, Disturb, table, socks
<1>5. ASSUME NEW r \in Requests, TokenMissing(r) PROVE Kept
  BY <1>5 DEF TokenMissing, StoreSave, Disturb, Respond, Goto, Reply, table,
    socks
<1>6. ASSUME NEW r \in Requests, TokenTaken(r) PROVE Kept
  BY <1>6 DEF TokenTaken, StoreSave, Disturb, Goto, table, socks
<1>7. ASSUME NEW r \in Requests, NoColon(r) PROVE Kept
  BY <1>7 DEF NoColon, StoreSave, Disturb, Respond, Goto, Reply, table, socks
<1>8. ASSUME NEW r \in Requests, Parsed(r) PROVE Kept
  BY <1>8 DEF Parsed, StoreSave, Disturb, Goto, table, socks
<1>9. ASSUME NEW r \in Requests, Acquire(r) PROVE Kept
  BY <1>9 DEF Acquire, Goto, parser, socks
<1>10. ASSUME NEW r \in Requests, Search(r) PROVE Search(q) \/ Kept
  <2>1. CASE r = q
    BY <1>10, <2>1
  <2>2. CASE r # q
    BY <1>10, <2>2 DEF Search, Goto, parser, table, socks
  <2> QED BY <2>1, <2>2
<1>11. ASSUME NEW r \in Requests, UpdateRule(r) PROVE FALSE
  BY <1>11 DEF UpdateRule, Finish, Respond, Goto, Reply, parser, socks,
    HolderInside
<1>12. ASSUME NEW r \in Requests, AddRule(r) PROVE FALSE
  BY <1>12 DEF AddRule, Finish, Respond, Goto, Reply, parser, socks,
    HolderInside
<1>13. ASSUME NEW r \in Requests, RuleLimit(r) PROVE Kept
  BY <1>13 DEF RuleLimit, Finish, Respond, Goto, Reply, parser, socks
<1>14. ASSUME NEW r \in Requests, RemoveRule(r) PROVE FALSE
  BY <1>14 DEF RemoveRule, Finish, Respond, Goto, Reply, parser, socks,
    HolderInside
<1>15. ASSUME NEW r \in Requests, CopyRule(r) PROVE Kept
  BY <1>15 DEF CopyRule, Finish, Goto, parser, socks
<1>16. ASSUME NEW r \in Requests, NoRule(r) PROVE Kept
  BY <1>16 DEF NoRule, Finish, Respond, Goto, Reply, parser, socks
<1>17. ASSUME NEW r \in Requests, Forward(r) PROVE Kept
  BY <1>17 DEF Forward, Goto, parser, table
<1>18. ASSUME NEW r \in Requests, ForwardFails(r) PROVE Kept
  BY <1>18 DEF ForwardFails, Respond, Goto, Reply, parser, table, socks
<1>19. ASSUME NEW r \in Requests, RecvAnswer(r) PROVE Kept
  <2>1. pc' = [pc EXCEPT ![r] = "send"]
    BY <1>19 DEF RecvAnswer, Respond, Goto
  <2> QED BY <1>19, <2>1 DEF RecvAnswer, parser, table
<1>20. ASSUME NEW r \in Requests, RecvFails(r) PROVE Kept
  BY <1>20 DEF RecvFails, Respond, Goto, Reply, parser, table, socks
<1>21. ASSUME NEW r \in Requests, SendReply(r) PROVE Kept
  BY <1>21 DEF SendReply, Goto, table
<1>22. CASE Quiet
  BY <1>22 DEF Quiet, vars
<1>23. ASSUME NEW r \in Requests, OverrunArray(r) PROVE Kept
  BY <1>23 DEF OverrunArray, Goto, parser, table
<1> QED BY <1>1, <1>2, <1>3, <1>4, <1>5, <1>6, <1>7, <1>8, <1>9, <1>10, <1>11,
  <1>12, <1>13, <1>14, <1>15, <1>16, <1>17, <1>18, <1>19, <1>20, <1>21, <1>22,
  <1>23 DEF Next, Handler, Parse, Critical, Relay

(* Finding an index makes it right, and it stays right till it is used. *)
LEMMA ScanStillRightStep ==
    ASSUME TableInv, Next
    PROVE  ScanStillRight'
<1> SUFFICES ASSUME NEW q \in Requests, pc'[q] = "apply"
             PROVE  mutex' = q /\ idx'[q] = FirstMatch(Dest(q))'
  BY DEF ScanStillRight
<1>1. mutex' = q
  BY HolderStep DEF HolderInside
<1> DEFINE Same == rules' = rules /\ toks'[q] = toks[q] /\ msg'[q] = msg[q]
<1>2. Same => FirstMatch(Dest(q))' = FirstMatch(Dest(q))
  BY DEF FirstMatch, Matches, Dest, Kind
<1>3. CASE Search(q)
  <2>1. Same /\ idx'[q] = FirstMatch(Dest(q))
    BY <1>3 DEF Search, parser, table, TableInv, ParseInv, TypeOK
  <2> QED BY <1>1, <1>2, <2>1
<1>4. CASE /\ pc[q] = "apply" /\ rules' = rules /\ idx'[q] = idx[q]
           /\ toks'[q] = toks[q] /\ msg'[q] = msg[q]
  <2>1. idx[q] = FirstMatch(Dest(q))
    BY <1>4 DEF TableInv, ScanStillRight
  <2> QED BY <1>1, <1>2, <1>4, <2>1
<1> QED BY <1>3, <1>4, ScanKept

----------------------------------------------------------------------------
(* The theorems. *)

(* The invariant holds before the first datagram. *)
LEMMA InvInit == Init => TableInv
<1> SUFFICES ASSUME Init PROVE TableInv
  OBVIOUS
<1>1. TypeOK
  BY SdnAssumption DEF Init, TypeOK, PCs, Verdicts, Reply
<1>2. MessageKept /\ PointersValid /\ TokensTaken /\ RouteCopied
  BY DEF Init, MessageKept, PointersValid, TokensTaken, RouteCopied
<1>3. HolderInside /\ TableConsistent /\ ScanStillRight /\ WordsFit
  BY SdnAssumption DEF Init, HolderInside, TableConsistent, Consistent, ScanStillRight, WordsFit
<1> QED BY <1>1, <1>2, <1>3 DEF TableInv, ParseInv

(* Each step of main or of a handler keeps it. *)
LEMMA InvStep == TableInv /\ [Next]_vars => TableInv'
<1>1. ASSUME TableInv, Next PROVE TableInv'
  BY <1>1, MessageKeptStep, RouteCopiedStep, PointersValidStep, TokensTakenStep,
    TypeStep, WordsFitStep, HolderStep, TableConsistentStep, ScanStillRightStep DEF TableInv, ParseInv
<1>2. ASSUME TableInv, UNCHANGED vars PROVE TableInv'
  <2> USE <1>2 DEF vars, TableInv, ParseInv
  <2>1. TypeOK'
    BY DEF TypeOK
  <2>2. (MessageKept /\ PointersValid /\ TokensTaken /\ RouteCopied)'
    BY DEF MessageKept, PointersValid, Valid, TokensTaken, AllTokens, Needed, Kind, RouteCopied
  <2>3. (HolderInside /\ TableConsistent /\ WordsFit)'
    BY DEF HolderInside, TableConsistent, Consistent, WordsFit, AddressesFit, Received
  <2>4. ScanStillRight'
    BY DEF ScanStillRight, FirstMatch, Matches, Dest, Kind
  <2> QED BY <2>1, <2>2, <2>3, <2>4
<1> QED BY <1>1, <1>2

(* The inductive invariant holds of the proxy with any number of threads,    *)
(* datagrams, rules and ports, strtok's races and freed buffers included.    *)
THEOREM TableInvariant == Spec => []TableInv
BY InvInit, InvStep, PTL DEF Spec

(* The variables have their types: no handler uses a missing word, a rule    *)
(* outside the table or an index that is not one (sdn.c:138-381).            *)
THEOREM TypeCorrect == Spec => []TypeOK
<1>1. TableInv => TypeOK
  BY DEF TableInv, ParseInv
<1> QED BY <1>1, TableInvariant, PTL

(* As long as no datagram brings an ip longer than rules[i].ip holds: however *)
(* many handlers set and unset rules at the same time, and whatever words    *)
(* strtok's race gives them, no destination has two rules and the table has  *)
(* at most MAX_RULES.                                                        *)
THEOREM TableIsConsistent == Spec => []TableConsistent
<1>1. TableInv => TableConsistent
  BY DEF TableInv
<1> QED BY <1>1, TableInvariant, PTL

(* Between scan and change nobody else gets at the table: the index a        *)
(* handler found is right when it uses it (sdn.c:181-202, 230-237, 287-294). *)
THEOREM ScanIsStillRight == Spec => []ScanStillRight
<1>1. TableInv => ScanStillRight
  BY DEF TableInv
<1> QED BY <1>1, TableInvariant, PTL

----------------------------------------------------------------------------
(* What one handler reads and says, whatever the other handlers do meanwhile. *)

(* The reply a handler ends with fits the way it took. *)
LEMMA RepliesFitStep ==
    ASSUME TableInv, RepliesFit, Next
    PROVE  RepliesFit'
<1> USE DEF TableInv, ParseInv, TypeOK
<1>1. ASSUME NEW r \in Requests, Step(r), NEW o \in Requests, o # r PROVE ReplyFits(o)'
  BY <1>1, OthersKept DEF RepliesFit, ReplyFits, Reply
<1>2. ASSUME NEW r \in Requests, Step(r) PROVE ReplyFits(r)'
  <2> USE DEF RepliesFit, ReplyFits, Goto
  <2>1. CASE Drop(r) \/ \E m \in Messages : Receive(r, m)
    BY <2>1 DEF Drop, Receive
  <2>2. CASE LoadSave(r) \/ ScanToken(r)
    BY <2>2 DEF LoadSave, ScanToken
  <2>3. CASE TokenMissing(r) \/ TokenTaken(r) \/ NoColon(r) \/ Parsed(r)
    <3>1. pc[r] = "store"
      BY <2>3 DEF TokenMissing, TokenTaken, NoColon, Parsed, StoreSave, TokensTaken
    <3> QED BY <2>3, <3>1 DEF TokenMissing, TokenTaken, NoColon, Parsed, StoreSave, Respond
  <2>4. CASE Acquire(r) \/ Search(r) \/ OverrunArray(r)
    BY <2>4 DEF Acquire, Search, OverrunArray
  <2>5. CASE UpdateRule(r) \/ AddRule(r) \/ RuleLimit(r) \/ RemoveRule(r) \/ NoRule(r)
    BY <2>5 DEF UpdateRule, AddRule, RuleLimit, RemoveRule, NoRule, Finish, Respond
  <2>6. CASE CopyRule(r)
    <3>1. rules[idx[r]].addr \in Addrs
      BY <2>6, InsideFacts DEF CopyRule, Finish, Rules
    <3> QED BY <2>6, <3>1 DEF CopyRule, Finish
  <2>7. CASE ForwardFails(r) \/ RecvFails(r)
    BY <2>7 DEF ForwardFails, RecvFails, Respond, RouteCopied
  <2>8. CASE Forward(r)
    BY <2>8 DEF Forward
  <2>9. CASE RecvAnswer(r)
    <3>1. /\ pc[r] = "wait" /\ route'[r] = route[r] /\ route[r] \in Addrs
          /\ pc'[r] = "send"
          /\ \/ reply'[r] = Reply("unexpected")
             \/ /\ reply'[r].verdict = "answer" /\ reply'[r].from = route[r]
                /\ reply'[r].of \in Requests
      BY <2>9 DEF RecvAnswer, Respond, Expected, AnswerOf, RouteCopied
    <3> QED BY <3>1
  <2>10. CASE SendReply(r)
    BY <2>10 DEF SendReply
  <2> QED BY <1>2, <2>1, <2>2, <2>3, <2>4, <2>5, <2>6, <2>7, <2>8, <2>9, <2>10
    DEF Step, Handler, Parse, Critical, Relay
<1>3. CASE Quiet
  BY <1>3 DEF Quiet, vars, RepliesFit, ReplyFits, Reply
<1> QED BY <1>1, <1>2, <1>3, NextIsStep DEF RepliesFit

----------------------------------------------------------------------------
(* What an undisturbed handler reads. *)

(* A thread that is parsing and stays undisturbed has strtok to itself. *)
LEMMA AloneInStrtok ==
    ASSUME TypeOK, NEW r \in Requests, Step(r), NEW o \in Requests, o # r, ~overlapped'[o]
    PROVE  /\ ~overlapped[o]
           /\ Parsing(o) => save' = save /\ cut'[o] = cut[o]
<1> USE DEF TypeOK
<1>1. CASE ScanToken(r) \/ TokenMissing(r) \/ TokenTaken(r) \/ NoColon(r) \/ Parsed(r)
  <2>1. Disturb(r)
    BY <1>1 DEF ScanToken, TokenMissing, TokenTaken, NoColon, Parsed, StoreSave
  <2> QED BY <2>1 DEF Disturb
<1>2. CASE LoadSave(r) \/ Acquire(r) \/ Critical(r)
  BY <1>2 DEF LoadSave, Acquire, Critical, Search, UpdateRule, AddRule, RuleLimit, OverrunArray, RemoveRule,
    CopyRule, NoRule, Finish, parser
<1>3. CASE Relay(r) \/ SendReply(r) \/ Drop(r) \/ \E m \in Messages : Receive(r, m)
  BY <1>3 DEF Relay, Forward, ForwardFails, RecvAnswer, RecvFails, SendReply, Drop, Receive, parser
<1> QED BY <1>1, <1>2, <1>3 DEF Step, Handler, Parse

(* A buffer is not cut before its datagram comes. *)
LEMMA CleanBuffersStep ==
    ASSUME TableInv, OwnWords, NEW r \in Requests, Step(r),
           NEW o \in Requests, pc'[o] = "free"
    PROVE  cut'[o] = {}
<1> USE DEF TableInv, ParseInv, TypeOK
<1>1. pc[o] = "free"
  <2>1. pc'[r] # "free"
    <3>1. CASE RecvAnswer(r)
      BY <3>1 DEF RecvAnswer, Respond, Goto
    <3>2. CASE Parse(r)
      BY <3>2 DEF Parse, LoadSave, ScanToken, TokenMissing, TokenTaken, NoColon, Parsed,
        Respond, Goto
    <3>3. CASE Critical(r) \/ Acquire(r)
      BY <3>3 DEF Acquire, Critical, Search, UpdateRule, AddRule, RuleLimit, OverrunArray, RemoveRule,
        CopyRule, NoRule, Finish, Respond, Goto
    <3>4. CASE \/ Forward(r) \/ ForwardFails(r) \/ RecvFails(r) \/ SendReply(r) \/ Drop(r)
               \/ \E m \in Messages : Receive(r, m)
      BY <3>4 DEF Forward, ForwardFails, RecvFails, SendReply, Drop, Receive, Respond, Goto
    <3> QED BY <3>1, <3>2, <3>3, <3>4 DEF Step, Handler, Relay
  <2> QED BY <2>1, OthersKept
<1>2. cut[o] = {}
  BY <1>1 DEF OwnWords
<1>3. CASE ScanToken(r)
  <2>1. Valid(held[r])
    BY <1>3 DEF ScanToken, PointersValid
  <2>2. PICK p \in Landings(held[r]) : cut' = [cut EXCEPT ![p.buf] = @ \cup ({p.at} \ {0})]
    BY <1>3 DEF ScanToken
  <2>3. p.buf # o
    BY <1>1, <2>1, LandingFacts DEF Valid
  <2> QED BY <1>2, <2>2, <2>3
<1>4. CASE ~ScanToken(r)
  <2>1. cut' = cut
    BY <1>4 DEF Step, Handler, Parse, LoadSave, TokenMissing, TokenTaken, NoColon, Parsed,
      StoreSave, Acquire, Critical, Search, UpdateRule, AddRule, RuleLimit, OverrunArray, RemoveRule,
      CopyRule, NoRule, Finish, Relay, Forward, ForwardFails, RecvAnswer, RecvFails,
      SendReply, Drop, Receive, parser
  <2> QED BY <1>2, <2>1
<1> QED BY <1>3, <1>4

(* The steps of the other handlers leave an undisturbed one its words. *)
LEMMA OthersWordsKept ==
    ASSUME TableInv, OwnWords, NEW r \in Requests, Step(r),
           NEW o \in Requests, o # r, ~overlapped'[o]
    PROVE  /\ Parsing(o)' => WordsInOrder(o)'
           /\ ParsedRight(o)'
<1>1. /\ pc'[o] = pc[o] /\ msg'[o] = msg[o] /\ toks'[o] = toks[o]
      /\ held'[o] = held[o] /\ reply'[o] = reply[o] /\ ~overlapped[o]
      /\ Parsing(o) => save' = save /\ cut'[o] = cut[o]
  BY OthersKept, AloneInStrtok DEF TableInv, ParseInv
<1>2. ASSUME Parsing(o)' PROVE WordsInOrder(o)'
  <2>1. WordsInOrder(o) /\ save' = save /\ cut'[o] = cut[o]
    BY <1>1, <1>2 DEF Parsing, OwnWords
  <2> QED BY <1>1, <2>1 DEF WordsInOrder, Taken, Ahead
<1>3. ParsedRight(o)'
  <2>1. ParsedRight(o)
    BY <1>1 DEF OwnWords, UndisturbedParse
  <2> QED BY <1>1, <2>1 DEF ParsedRight, Live, Parsing, Needed, Kind
<1> QED BY <1>2, <1>3

(* A handler that goes on parsing undisturbed takes its words in order. *)
LEMMA WordsInOrderStep ==
    ASSUME TableInv, OwnWords, NEW r \in Requests, Step(r), Parsing(r)', ~overlapped'[r]
    PROVE  WordsInOrder(r)'
<1> USE DEF TableInv, ParseInv, TypeOK
<1>1. ASSUME NEW m \in Messages, Receive(r, m) PROVE WordsInOrder(r)'
  <2>1. /\ cut'[r] = {} /\ toks'[r] = <<>> /\ msg'[r] = m /\ pc'[r] = "scan"
        /\ held'[r] = [buf |-> r, at |-> IF m.toks = <<>> THEN 0 ELSE 1]
    BY <1>1 DEF Receive, Goto, TokensTaken, OwnWords
  <2>2. m.toks \in Seq(Tokens)
    BY SdnAssumption
  <2>3. Len(m.toks) \in Nat /\ (m.toks = <<>> <=> ~(0 < Len(m.toks)))
    BY <2>2, EmptySeq, LenProperties
  <2> QED BY <2>1, <2>3 DEF WordsInOrder, Taken, Ahead
<1>2. ASSUME pc[r] \in {"scan", "store", "load"}
      PROVE  /\ Len(toks[r]) \in Nat /\ toks[r] \in Seq(Tokens \cup {None})
             /\ msg[r].toks \in Seq(Tokens) /\ Len(msg[r].toks) \in Nat
  <2>1. msg[r] \in Messages
    BY <1>2 DEF MessageKept
  <2>2. msg[r].toks \in Seq(Tokens)
    BY <2>1, SdnAssumption
  <2> QED BY <2>2, LenProperties
<1>3. CASE LoadSave(r)
  <2>1. ~overlapped[r] /\ pc[r] = "load"
    BY <1>3 DEF LoadSave
  <2>2. WordsInOrder(r)
    BY <2>1 DEF OwnWords, Parsing
  <2> QED BY <1>3, <2>1, <2>2 DEF LoadSave, Goto, table, socks, WordsInOrder, Taken, Ahead
<1>4. CASE ScanToken(r)
  <2>1. pc[r] = "scan" /\ pc'[r] = "store" /\ msg' = msg
    BY <1>4 DEF ScanToken, Goto
  <2>2. ~overlapped[r]
    BY <1>4 DEF ScanToken, Disturb
  <2> PICK n \in Nat : n = Len(toks[r])
    BY <1>2, <2>1
  <2>3. cut[r] \subseteq 1..n /\ Taken(r, n) /\ held[r] = Ahead(r, n)
    BY <2>1, <2>2 DEF OwnWords, Parsing, WordsInOrder
  <2>4. Landings(held[r]) = {held[r]}
    BY <2>1, <2>3 DEF Landings, Live, Ahead
  <2>5. /\ toks'[r] = Append(toks[r], TokenAt(held[r]))
        /\ cut'[r] = cut[r] \cup ({held[r].at} \ {0})
        /\ held'[r] = Behind(held[r])
    BY <1>4, <2>3, <2>4 DEF ScanToken, Ahead
  <2>6. TokenAt(held[r]) = IF n < Len(msg[r].toks) THEN msg[r].toks[n + 1] ELSE None
    BY <1>2, <2>1, <2>3 DEF TokenAt, Ahead
  <2>7. TokenAt(held[r]) \in Tokens \cup {None}
    BY <1>2, <2>1, <2>6
  <2>8. /\ Len(toks'[r]) = n + 1 /\ toks'[r][n + 1] = TokenAt(held[r])
        /\ \A i \in 1..n : toks'[r][i] = toks[r][i]
    BY <1>2, <2>1, <2>5, <2>7, AppendProperties
  <2>9. cut'[r] \subseteq 1..(n + 1)
    BY <1>2, <2>1, <2>3, <2>5 DEF Ahead
  <2>10. held'[r] = Ahead(r, n + 1)
    BY <1>2, <2>1, <2>3, <2>5 DEF Behind, Ahead
  <2>11. n \in 0..Len(msg[r].toks) /\ \A i \in 1..n : toks'[r][i] = msg[r].toks[i]
    BY <2>3, <2>8 DEF Taken
  <2>12. Len(msg[r].toks) \in Nat
    BY <1>2, <2>1
  <2>13. (n + 1) - 1 = n
    OBVIOUS
  <2> HIDE DEF TableInv, ParseInv, TypeOK
  <2>14. /\ Taken(r, Len(toks[r]) - 1)'
         /\ (held[r] = Ahead(r, Len(toks[r])))'
    BY <2>1, <2>8, <2>10, <2>11, <2>13 DEF Taken, Ahead
  <2> QED BY <2>1, <2>6, <2>8, <2>9, <2>12, <2>14 DEF WordsInOrder
<1>5. CASE TokenTaken(r)
  <2>1. /\ pc[r] = "store" /\ pc'[r] = "load" /\ save' = held[r]
        /\ ~overlapped[r] /\ LastToken(r) # None
        /\ UNCHANGED <<cut, toks, msg>>
    BY <1>5 DEF TokenTaken, StoreSave, Disturb, Goto
  <2>2. WordsInOrder(r)
    BY <2>1 DEF OwnWords, Parsing
  <2>3. Len(toks[r]) <= Len(msg[r].toks)
    BY <1>2, <2>1, <2>2 DEF WordsInOrder, LastToken
  <2>4. Taken(r, Len(toks[r]))
    <3>1. \A i \in 1..(Len(toks[r]) - 1) : toks[r][i] = msg[r].toks[i]
      BY <2>1, <2>2 DEF WordsInOrder, Taken
    <3>2. toks[r][Len(toks[r])] = msg[r].toks[Len(toks[r])]
      BY <2>1, <2>2, <2>3 DEF WordsInOrder
    <3> QED BY <1>2, <2>1, <2>3, <3>1, <3>2 DEF Taken
  <2> QED BY <2>1, <2>2, <2>4 DEF WordsInOrder, Taken, Ahead
<1>6. CASE TokenMissing(r) \/ NoColon(r) \/ Parsed(r)
  BY <1>6 DEF TokenMissing, NoColon, Parsed, Respond, Goto, Parsing
<1>7. CASE Acquire(r) \/ Critical(r)
  BY <1>7 DEF Acquire, Critical, Search, UpdateRule, AddRule, RuleLimit, OverrunArray, RemoveRule,
    CopyRule, NoRule, Finish, Respond, Goto, Parsing
<1>8. CASE RecvAnswer(r)
  BY <1>8 DEF RecvAnswer, Respond, Goto, Parsing
<1>9. CASE Forward(r) \/ ForwardFails(r) \/ RecvFails(r) \/ SendReply(r) \/ Drop(r)
  BY <1>9 DEF Forward, ForwardFails, RecvFails, SendReply, Drop, Respond, Goto, Parsing
<1> QED BY <1>1, <1>3, <1>4, <1>5, <1>6, <1>7, <1>8, <1>9 DEF Step, Handler, Parse, Relay

(* strtok runs out of words, or the last one is no address: the datagram was *)
(* malformed.  Otherwise the handler goes on with the words it needs.        *)
LEMMA ParseEnds ==
    ASSUME TableInv, RepliesFit, OwnWords, NEW r \in Requests, ~overlapped'[r],
           TokenMissing(r) \/ NoColon(r) \/ Parsed(r)
    PROVE  ParsedRight(r)'
<1> DEFINE words == msg[r].toks
<1>1. pc[r] = "store" /\ ~overlapped[r] /\ toks' = toks /\ msg' = msg
  BY DEF TokenMissing, NoColon, Parsed, StoreSave, Disturb
<1>2. WordsInOrder(r)
  BY <1>1 DEF OwnWords, Parsing
<1>3. msg[r] \in Messages /\ words \in Seq(Tokens)
  BY <1>1, SdnAssumption DEF TableInv, ParseInv, MessageKept
<1> PICK n \in 1..Needed(r) : n = Len(toks[r])
  BY <1>1 DEF TableInv, ParseInv, TokensTaken
<1>4. /\ n - 1 \in 0..Len(words) /\ \A i \in 1..(n - 1) : toks[r][i] = words[i]
      /\ LastToken(r) = IF n <= Len(words) THEN words[n] ELSE None
  BY <1>1, <1>2 DEF WordsInOrder, Taken, LastToken
<1>5. LastToken(r) = None <=> ~(n <= Len(words))
  BY <1>3, <1>4, SdnAssumption
<1>6. Len(words) \in Nat /\ Needed(r) \in {2, 3} /\ (Needed(r) = 3 <=> Kind(r) = "set")
  BY <1>3 DEF Needed
<1> HIDE DEF words
<1>7. ASSUME TokenMissing(r) PROVE ParsedRight(r)'
  <2>1. reply'[r].verdict = "invalid"
    BY <1>7 DEF TokenMissing, Respond, Reply, TableInv, ParseInv, TypeOK
  <2>2. ~(n <= Len(words))
    BY <1>5, <1>7 DEF TokenMissing
  <2>3. ~WellFormed(msg[r])
    BY <1>6, <2>2 DEF WellFormed, Kind, words
  <2> QED BY <1>1, <2>1, <2>3 DEF ParsedRight
<1>8. ASSUME NoColon(r) PROVE ParsedRight(r)'
  <2>1. reply'[r].verdict = "badaddr"
    BY <1>8 DEF NoColon, Respond, Reply, TableInv, ParseInv, TypeOK
  <2>2. n = 3 /\ words[3] \notin Addrs /\ Kind(r) = "set"
    BY <1>4, <1>5, <1>6, <1>8 DEF NoColon
  <2>3. ~WellFormed(msg[r])
    BY <2>2 DEF WellFormed, Kind, words
  <2> QED BY <1>1, <2>1, <2>3 DEF ParsedRight
<1>9. ASSUME Parsed(r) PROVE ParsedRight(r)'
  <2>1. reply'[r] = Reply("none")
    BY <1>1, <1>9 DEF Parsed, RepliesFit, ReplyFits
  <2>2. n = Needed(r) /\ n <= Len(words) /\ (Kind(r) = "set" => words[n] \in Addrs)
    BY <1>4, <1>5, <1>9 DEF Parsed
  <2>3. WellFormed(msg[r])
    BY <1>6, <2>2 DEF WellFormed, Kind, words
  <2>4. \A i \in 1..n : toks[r][i] = words[i]
    BY <1>4, <1>6, <2>2 DEF LastToken
  <2>5. toks[r] = SubSeq(words, 1, n)
    <3>1. \A i \in 1..n : words[i] \in Tokens
      BY <1>3, <1>6, <2>2, ElementOfSeq
    <3>2. /\ SubSeq(words, 1, n) \in Seq(Tokens)
          /\ Len(SubSeq(words, 1, n)) = n
          /\ \A i \in 1..n : SubSeq(words, 1, n)[i] = words[i]
      <4>1. /\ SubSeq(words, 1, n) \in Seq(Tokens)
            /\ Len(SubSeq(words, 1, n)) = IF 1 <= n THEN n - 1 + 1 ELSE 0
            /\ \A i \in 1..(n - 1 + 1) : SubSeq(words, 1, n)[i] = words[1 + i - 1]
        BY <3>1, <1>6, SubSeqProperties
      <4> QED BY <4>1, <1>6
    <3>3. toks[r] \in Seq(Tokens \cup {None})
      BY DEF TableInv, ParseInv, TypeOK
    <3>4. SubSeq(words, 1, n) \in Seq(Tokens \cup {None})
      BY <3>2
    <3> QED BY <2>4, <3>2, <3>3, <3>4, SeqEqual
  <2> QED BY <1>1, <2>1, <2>2, <2>3, <2>5 DEF ParsedRight, Reply, Needed, Kind, words
<1> QED BY <1>7, <1>8, <1>9

(* Past its last strtok a handler keeps its words and what it made of them. *)
LEMMA ParsedRightStep ==
    ASSUME TableInv, RepliesFit, OwnWords, NEW r \in Requests, Step(r), ~overlapped'[r]
    PROVE  ParsedRight(r)'
<1>1. CASE \/ TokenTaken(r) \/ LoadSave(r) \/ ScanToken(r) \/ Drop(r) \/ SendReply(r)
           \/ \E m \in Messages : Receive(r, m)
  <2>1. pc'[r] \in {"load", "scan", "store", "lost", "done"}
    BY <1>1 DEF TokenTaken, LoadSave, ScanToken, Drop, SendReply, Receive, Goto,
      TableInv, ParseInv, TypeOK
  <2> QED BY <2>1 DEF ParsedRight, Live, Parsing
<1>2. CASE TokenMissing(r) \/ NoColon(r) \/ Parsed(r)
  BY <1>2, ParseEnds
<1>3. CASE Acquire(r) \/ Critical(r) \/ Relay(r)
  <2>1. /\ pc[r] \in {"lock", "search", "apply", "forward", "wait"}
        /\ UNCHANGED <<toks, msg, overlapped>>
    <3>1. CASE Acquire(r) \/ Search(r) \/ OverrunArray(r)
      BY <3>1 DEF Acquire, Search, OverrunArray, parser
    <3>2. CASE UpdateRule(r) \/ AddRule(r) \/ RuleLimit(r) \/ RemoveRule(r) \/ CopyRule(r) \/ NoRule(r)
      BY <3>2 DEF UpdateRule, AddRule, RuleLimit, RemoveRule, CopyRule, NoRule, Finish, parser
    <3>3. CASE Relay(r)
      BY <3>3 DEF Relay, Forward, ForwardFails, RecvAnswer, RecvFails, parser
    <3> QED BY <1>3, <3>1, <3>2, <3>3 DEF Critical
  <2>2. reply[r].verdict = "none"
    BY <2>1 DEF RepliesFit, ReplyFits, Reply
  <2>3. WellFormed(msg[r]) /\ toks[r] = SubSeq(msg[r].toks, 1, Needed(r))
    BY <2>1, <2>2 DEF OwnWords, UndisturbedParse, ParsedRight, Live, Parsing
  <2>4. reply'[r].verdict \notin {"invalid", "badaddr"}
    <3> USE DEF TableInv, ParseInv, TypeOK
    <3>1. CASE Acquire(r) \/ Search(r) \/ OverrunArray(r) \/ CopyRule(r) \/ Forward(r)
      BY <2>2, <3>1 DEF Acquire, Search, OverrunArray, CopyRule, Forward
    <3>2. CASE UpdateRule(r) \/ AddRule(r) \/ RuleLimit(r) \/ RemoveRule(r) \/ NoRule(r)
      BY <3>2 DEF UpdateRule, AddRule, RuleLimit, RemoveRule, NoRule, Respond, Reply
    <3>3. CASE ForwardFails(r) \/ RecvFails(r) \/ RecvAnswer(r)
      BY <3>3 DEF ForwardFails, RecvFails, RecvAnswer, AnswerOf, Respond, Reply
    <3> QED BY <1>3, <3>1, <3>2, <3>3 DEF Critical, Relay
  <2> QED BY <2>1, <2>3, <2>4 DEF ParsedRight, Needed, Kind
<1> QED BY <1>1, <1>2, <1>3 DEF Step, Handler, Parse

----------------------------------------------------------------------------
(* The answers under way and the answers told. *)

(* Who has been told what, and when. *)
LEMMA TellFacts ==
    ASSUME TypeOK, RepliesFit, NEW q \in Requests
    PROVE  /\ reply[q].verdict # "answer" => reply[q].of = None
           /\ reply[q].verdict = "answer" => pc[q] \in {"send", "done"} /\ reply[q].of \in Requests
BY DEF RepliesFit, ReplyFits, Reply, TypeOK

(* A step before the request is sent touches neither ports nor answers. *)
LEMMA EarlyStep ==
    ASSUME TypeOK, RepliesFit, NEW r \in Requests, Step(r),
           ~(Forward(r) \/ RecvAnswer(r) \/ RecvFails(r) \/ SendReply(r))
    PROVE  /\ pc[r] \notin {"wait", "send", "done"} /\ pc'[r] \notin {"wait", "done"}
           /\ UNCHANGED socks
           /\ reply'[r].verdict # "answer" /\ reply'[r].of = None
<1> USE DEF TypeOK
<1>1. pc[r] \notin {"wait", "send", "done"} =>
        reply[r].verdict # "answer" /\ reply[r].of = None
  BY DEF RepliesFit, ReplyFits, Reply
<1>2. CASE Drop(r) \/ \E m \in Messages : Receive(r, m)
  BY <1>1, <1>2 DEF Drop, Receive, Goto
<1>3. CASE LoadSave(r) \/ ScanToken(r)
  BY <1>1, <1>3 DEF LoadSave, ScanToken, Goto
<1>4. CASE TokenMissing(r) \/ TokenTaken(r) \/ NoColon(r) \/ Parsed(r)
  BY <1>1, <1>4 DEF TokenMissing, TokenTaken, NoColon, Parsed, StoreSave, Respond, Reply, Goto
<1>5. CASE Acquire(r) \/ Search(r) \/ OverrunArray(r) \/ CopyRule(r)
  BY <1>1, <1>5 DEF Acquire, Search, OverrunArray, CopyRule, Finish, Goto
<1>6. CASE UpdateRule(r) \/ AddRule(r) \/ RuleLimit(r) \/ RemoveRule(r) \/ NoRule(r)
  BY <1>6 DEF UpdateRule, AddRule, RuleLimit, RemoveRule, NoRule, Finish, Respond, Reply, Goto
<1>7. CASE ForwardFails(r)
  BY <1>7 DEF ForwardFails, Respond, Reply, Goto
<1> QED BY <1>2, <1>3, <1>4, <1>5, <1>6, <1>7 DEF Step, Handler, Parse, Critical, Relay

(* Such a step leaves alone what is under way and what was told. *)
LEMMA EarlyRelay ==
    ASSUME TypeOK, RepliesFit, RelayInv, NEW r \in Requests, Step(r),
           ~(Forward(r) \/ RecvAnswer(r) \/ RecvFails(r) \/ SendReply(r))
    PROVE  RelayInv'
<1>1. /\ pc[r] \notin {"wait", "send", "done"} /\ pc'[r] \notin {"wait", "done"}
      /\ port' = port /\ net' = net
      /\ reply'[r].verdict # "answer" /\ reply'[r].of = None
  BY EarlyStep DEF socks
<1>2. \A o \in Requests : o # r =>
        pc'[o] = pc[o] /\ route'[o] = route[o] /\ reply'[o] = reply[o]
  BY OthersKept
<1>3. PortsOwned'
  BY <1>1, <1>2 DEF RelayInv, PortsOwned
<1>4. AnswersUnderWay'
  <2> SUFFICES ASSUME NEW a \in net PROVE
        /\ pc'[a.req] \in {"wait", "send", "done"} /\ a.from = route'[a.req]
        /\ pc'[a.req] # "done" => a.port = port[a.req]
        /\ \A q \in Requests : reply'[q].of # a.req
        /\ \A b \in net : b.req = a.req => b = a
    BY <1>1 DEF AnswersUnderWay
  <2>1. a.req \in Requests /\ a.req # r
    BY <1>1 DEF RelayInv, AnswersUnderWay, TypeOK
  <2>2. a.req # None
    BY <2>1, SdnAssumption
  <2>3. \A q \in Requests : reply'[q].of # a.req
    BY <1>1, <1>2, <2>1, <2>2 DEF RelayInv, AnswersUnderWay
  <2> QED BY <1>2, <2>1, <2>3 DEF RelayInv, AnswersUnderWay
<1>5. LateAnswersOnly'
  <2> SUFFICES ASSUME NEW q \in Requests, reply'[q].verdict = "answer", NEW o, o = reply'[q].of
               PROVE  /\ route'[o] = route'[q]
                      /\ o # q => pc'[o] = "done" /\ reply'[o].of # o
                      /\ \A x \in Requests : reply'[x].of = o => x = q
    BY DEF LateAnswersOnly
  <2>1. q # r /\ reply'[q] = reply[q]
    BY <1>1, <1>2
  <2>2. o \in Requests /\ pc[q] \in {"send", "done"}
    BY <2>1, TellFacts
  <2>3. /\ route[o] = route[q]
        /\ o # q => pc[o] = "done" /\ reply[o].of # o
        /\ \A x \in Requests : reply[x].of = o => x = q
    BY <2>1 DEF RelayInv, LateAnswersOnly
  <2>4. o # r
    BY <1>1, <2>1, <2>3
  <2> QED BY <1>1, <1>2, <2>1, <2>2, <2>3, <2>4, SdnAssumption
<1> QED BY <1>3, <1>4, <1>5 DEF RelayInv

(* A request goes out on a port of its own; nobody was told its answer yet. *)
LEMMA ForwardRelay ==
    ASSUME TypeOK, RepliesFit, RelayInv, NEW r \in Requests, Forward(r)
    PROVE  RelayInv'
<1> USE DEF TypeOK
<1>1. PICK p \in Ports \ OpenPorts :
        /\ port' = [port EXCEPT ![r] = p]
        /\ net' = net \cup {[port |-> p, from |-> route[r], req |-> r]}
  BY DEF Forward
<1>2. /\ pc[r] = "forward" /\ pc' = [pc EXCEPT ![r] = "wait"]
      /\ UNCHANGED <<route, reply>>
  BY DEF Forward, Goto
<1>3. p # None /\ \A o \in Requests : port[o] # p
  BY SdnAssumption DEF OpenPorts
<1>4. PortsOwned'
  BY <1>1, <1>2, <1>3 DEF RelayInv, PortsOwned
<1>5. \A a \in net : a.req \in Requests /\ a.req # r
  BY <1>2 DEF RelayInv, AnswersUnderWay
<1>6. \A q \in Requests : reply[q].of # r
  <2> SUFFICES ASSUME NEW q \in Requests, reply[q].of = r PROVE FALSE
    OBVIOUS
  <2>1. reply[q].verdict = "answer" /\ pc[q] \in {"send", "done"}
    BY TellFacts, SdnAssumption
  <2>2. q = r \/ pc[r] = "done"
    BY <2>1 DEF RelayInv, LateAnswersOnly
  <2> QED BY <1>2, <2>1, <2>2
<1>7. AnswersUnderWay'
  <2> SUFFICES ASSUME NEW a \in net' PROVE
        /\ pc'[a.req] \in {"wait", "send", "done"} /\ a.from = route[a.req]
        /\ pc'[a.req] # "done" => a.port = port'[a.req]
        /\ \A q \in Requests : reply[q].of # a.req
        /\ \A b \in net' : b.req = a.req => b = a
    BY <1>2 DEF AnswersUnderWay
  <2>1. CASE a \in net
    BY <1>1, <1>2, <1>5, <2>1 DEF RelayInv, AnswersUnderWay
  <2>2. CASE a \notin net
    BY <1>1, <1>2, <1>5, <1>6, <2>2
  <2> QED BY <2>1, <2>2
<1>8. LateAnswersOnly'
  <2> SUFFICES ASSUME NEW q \in Requests, reply'[q].verdict = "answer", NEW o, o = reply'[q].of
               PROVE  /\ route'[o] = route'[q]
                      /\ o # q => pc'[o] = "done" /\ reply'[o].of # o
                      /\ \A x \in Requests : reply'[x].of = o => x = q
    BY DEF LateAnswersOnly
  <2>1. reply[q].verdict = "answer" /\ o = reply[q].of /\ o # r /\ o \in Requests
    BY <1>2, <1>6, TellFacts
  <2>2. /\ route[o] = route[q]
        /\ o # q => pc[o] = "done" /\ reply[o].of # o
        /\ \A x \in Requests : reply[x].of = o => x = q
    BY <2>1 DEF RelayInv, LateAnswersOnly
  <2> QED BY <1>2, <2>1, <2>2
<1> QED BY <1>4, <1>7, <1>8 DEF RelayInv

(* An answer comes to the socket that has its port now. *)
LEMMA RecvRelay ==
    ASSUME TypeOK, RepliesFit, RelayInv, NEW r \in Requests, RecvAnswer(r)
    PROVE  RelayInv'
<1> USE DEF TypeOK
<1>1. PICK a \in net :
        /\ a.port = port[r] /\ net' = net \ {a}
        /\ \/ a.from = route[r] /\ reply' = [reply EXCEPT ![r] = AnswerOf(a)]
           \/ reply' = [reply EXCEPT ![r] = Reply("unexpected")]
  BY DEF RecvAnswer, Respond, Expected
<1>2. /\ pc[r] = "wait" /\ pc' = [pc EXCEPT ![r] = "send"]
      /\ UNCHANGED <<route, port>>
  BY DEF RecvAnswer, Respond, Goto
<1>3. PortsOwned'
  BY <1>2 DEF RelayInv, PortsOwned
<1>4. /\ a.req \in Requests /\ a.from = route[a.req]
      /\ \A q \in Requests : reply[q].of # a.req
      /\ \A b \in net : b.req = a.req => b = a
  BY DEF RelayInv, AnswersUnderWay
<1>5. a.req # r => pc[a.req] = "done"
  BY <1>1, <1>2 DEF RelayInv, AnswersUnderWay, PortsOwned
<1>6. /\ reply'[r].of \in {a.req, None} /\ (reply'[r].verdict = "answer" <=> reply'[r].of = a.req)
      /\ reply'[r].verdict = "answer" => a.from = route[r]
      /\ \A o \in Requests : o # r => reply'[o] = reply[o]
  BY <1>1, <1>4, SdnAssumption DEF AnswerOf, Reply
<1>7. AnswersUnderWay'
  <2> SUFFICES ASSUME NEW b \in net, b # a PROVE
        /\ pc'[b.req] \in {"wait", "send", "done"} /\ b.from = route[b.req]
        /\ pc'[b.req] # "done" => b.port = port[b.req]
        /\ \A q \in Requests : reply'[q].of # b.req
        /\ \A c \in net : c.req = b.req => c = b
    BY <1>1, <1>2 DEF AnswersUnderWay
  <2>1. b.req \in Requests /\ b.req # a.req
    BY <1>4
  <2>2. \A q \in Requests : reply'[q].of # b.req
    <3>1. \A q \in Requests : reply[q].of # b.req
      BY DEF RelayInv, AnswersUnderWay
    <3>2. reply'[r].of # b.req
      BY <1>6, <2>1, SdnAssumption
    <3> QED BY <1>6, <3>1, <3>2
  <2> QED BY <1>2, <2>1, <2>2 DEF RelayInv, AnswersUnderWay
<1>8. LateAnswersOnly'
  <2> SUFFICES ASSUME NEW q \in Requests, reply'[q].verdict = "answer", NEW o, o = reply'[q].of
               PROVE  /\ route[o] = route[q]
                      /\ o # q => pc'[o] = "done" /\ reply'[o].of # o
                      /\ \A x \in Requests : reply'[x].of = o => x = q
    BY <1>2 DEF LateAnswersOnly
  <2>1. CASE q = r
    <3>1. o = a.req /\ a.from = route[r]
      BY <1>6, <2>1
    <3>2. o # r => pc'[o] = "done" /\ reply'[o].of # o
      BY <1>2, <1>4, <1>5, <1>6, <3>1
    <3>3. \A x \in Requests : reply'[x].of = o => x = r
      BY <1>4, <1>6, <3>1
    <3> QED BY <1>4, <2>1, <3>1, <3>2, <3>3
  <2>2. CASE q # r
    <3>1. /\ reply'[q] = reply[q] /\ o \in Requests /\ o # a.req
          /\ route[o] = route[q]
          /\ o # q => pc[o] = "done" /\ reply[o].of # o
          /\ \A x \in Requests : reply[x].of = o => x = q
      BY <1>4, <1>6, <2>2, TellFacts DEF RelayInv, LateAnswersOnly
    <3>2. o # q => o # r
      BY <1>2, <3>1
    <3>3. reply'[r].of # o
      BY <1>6, <3>1, SdnAssumption
    <3> QED BY <1>2, <1>6, <2>2, <3>1, <3>2, <3>3
  <2> QED BY <2>1, <2>2
<1> QED BY <1>3, <1>7, <1>8 DEF RelayInv

(* A request that gives up leaves its answer under way; one that replies     *)
(* gives its port back.                                                      *)
LEMMA EndRelay ==
    ASSUME TypeOK, RepliesFit, RelayInv, NEW r \in Requests, RecvFails(r) \/ SendReply(r)
    PROVE  RelayInv'
<1> USE DEF TypeOK
<1>1. /\ \/ pc[r] = "wait" /\ pc' = [pc EXCEPT ![r] = "send"] /\ port' = port
            /\ reply' = [reply EXCEPT ![r] = Reply("noanswer")]
         \/ pc[r] = "send" /\ pc' = [pc EXCEPT ![r] = "done"] /\ reply' = reply
            /\ port' = [port EXCEPT ![r] = None]
      /\ UNCHANGED <<route, net>>
  BY DEF RecvFails, SendReply, Respond, Goto, socks
<1>2. pc[r] = "wait" => reply[r].verdict # "answer" /\ reply[r].of = None
  BY TellFacts
<1>3. ASSUME NEW q \in Requests
      PROVE  /\ reply'[q].of = reply[q].of
             /\ reply'[q].verdict = "answer" <=> reply[q].verdict = "answer"
  <2>1. CASE reply'[q] = reply[q]
    BY <2>1
  <2>2. CASE pc[r] = "wait" /\ q = r
    <3>1. reply'[q] = [verdict |-> "noanswer", from |-> None, of |-> None]
      BY <1>1, <2>2 DEF Reply
    <3> QED BY <1>2, <2>2, <3>1
  <2> QED BY <1>1, <2>1, <2>2
<1>4. PortsOwned'
  BY <1>1 DEF RelayInv, PortsOwned
<1>5. \A o \in Requests : /\ pc[o] \in {"wait", "send", "done"} => pc'[o] \in {"wait", "send", "done"}
                          /\ pc[o] = "done" => pc'[o] = "done"
                          /\ pc'[o] # "done" => pc[o] # "done" /\ port'[o] = port[o]
  BY <1>1
<1>6. AnswersUnderWay'
  BY <1>1, <1>3, <1>5 DEF RelayInv, AnswersUnderWay
<1>7. LateAnswersOnly'
  <2> SUFFICES ASSUME NEW q \in Requests, reply[q].verdict = "answer", NEW o, o = reply[q].of
               PROVE  /\ route[o] = route[q]
                      /\ o # q => pc'[o] = "done" /\ reply'[o].of # o
                      /\ \A x \in Requests : reply'[x].of = o => x = q
    BY <1>1, <1>3 DEF LateAnswersOnly
  <2>1. o \in Requests
    BY TellFacts
  <2> QED BY <1>3, <1>5, <2>1 DEF RelayInv, LateAnswersOnly
<1> QED BY <1>4, <1>6, <1>7 DEF RelayInv

LEMMA RelayInvStep ==
    ASSUME TypeOK, RepliesFit, RelayInv, Next
    PROVE  RelayInv'
<1>1. ASSUME NEW r \in Requests, Step(r) PROVE RelayInv'
  BY <1>1, EarlyRelay, ForwardRelay, RecvRelay, EndRelay
<1>2. ASSUME Quiet PROVE RelayInv'
  BY <1>2 DEF Quiet, vars, RelayInv, PortsOwned, AnswersUnderWay, LateAnswersOnly
<1> QED BY <1>1, <1>2, NextIsStep

----------------------------------------------------------------------------
LEMMA OwnWordsStep ==
    ASSUME TableInv, RepliesFit, OwnWords, Next
    PROVE  OwnWords'
<1>1. ASSUME NEW r \in Requests, Step(r), NEW o \in Requests, ~overlapped'[o]
      PROVE  (Parsing(o)' => WordsInOrder(o)') /\ ParsedRight(o)'
  BY <1>1, OthersWordsKept, WordsInOrderStep, ParsedRightStep
<1>2. ASSUME NEW r \in Requests, Step(r) PROVE OwnWords'
  BY <1>1, <1>2, CleanBuffersStep DEF OwnWords, UndisturbedParse
<1>3. ASSUME Quiet PROVE OwnWords'
  BY <1>3 DEF Quiet, vars, OwnWords, UndisturbedParse, ParsedRight, WordsInOrder, Taken,
    Ahead, Parsing, Live, Needed, Kind
<1> QED BY <1>2, <1>3, NextIsStep

LEMMA StuttersKeepHandlers ==
    ASSUME RepliesFit, OwnWords, RelayInv, UNCHANGED vars
    PROVE  RepliesFit' /\ OwnWords' /\ RelayInv'
BY DEF vars, RelayInv, PortsOwned, AnswersUnderWay, LateAnswersOnly, RepliesFit, ReplyFits, Reply, OwnWords, UndisturbedParse, ParsedRight,
  WordsInOrder, Taken, Ahead, Parsing, Live, Needed, Kind

LEMMA HandlersInit ==
    ASSUME Init
    PROVE  RepliesFit /\ OwnWords /\ RelayInv
BY SdnAssumption DEF Init, Reply, RelayInv, PortsOwned, AnswersUnderWay, LateAnswersOnly,
  RepliesFit, ReplyFits, OwnWords, UndisturbedParse, ParsedRight, Live, Parsing

(* The inductive invariant holds: the table, the parser, the lock and, on top *)
(* of them, what each handler has read and said (sdn.c:115-404).             *)
THEOREM InductiveInvariant == Spec => []SdnInv
<1>1. Init => RepliesFit /\ OwnWords /\ RelayInv
  BY HandlersInit
<1>2. TableInv /\ RepliesFit /\ OwnWords /\ RelayInv /\ [Next]_vars
        => RepliesFit' /\ OwnWords' /\ RelayInv'
  <2>1. TableInv => TypeOK
    BY DEF TableInv, ParseInv
  <2> QED BY <2>1, RepliesFitStep, OwnWordsStep, RelayInvStep, StuttersKeepHandlers
<1>3. Spec => [](RepliesFit /\ OwnWords /\ RelayInv)
  BY <1>1, <1>2, TableInvariant, PTL DEF Spec
<1> QED BY <1>3, TableInvariant, PTL DEF SdnInv

(* A handler that was alone in strtok works on the words of its own datagram *)
(* and refuses it exactly when it is malformed (sdn.c:144-171, 214-223,      *)
(* 267-281), whatever the other handlers do before, between and after.       *)
THEOREM ParseIsUndisturbed == Spec => []UndisturbedParse
<1>1. SdnInv => UndisturbedParse
  BY DEF SdnInv, OwnWords
<1> QED BY <1>1, InductiveInvariant, PTL

(* Whatever ports are used again and however late answers come, no answer is *)
(* told twice, and one told to the wrong client is of the same instance and  *)
(* of a request that is over and was told something else (sdn.c:308-380).    *)
THEOREM WrongAnswersAreLate == Spec => []LateAnswersOnly
<1>1. SdnInv => LateAnswersOnly
  BY DEF SdnInv, RelayInv
<1> QED BY <1>1, InductiveInvariant, PTL

=============================================================================

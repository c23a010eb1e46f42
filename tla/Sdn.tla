-------------------------------- MODULE Sdn --------------------------------
(* The SDN proxy, src/sdn/sdn.c.  main receives datagrams on UDP port 12345   *)
(* and starts one detached thread per datagram.  A thread cuts its datagram   *)
(* into tokens with strtok, reads or changes the rule table under             *)
(* rules_mutex, and either replies at once or relays a number to the          *)
(* instance that serves the destination and waits at most 5 s for the answer. *)
(*                                                                            *)
(* strtok keeps the place where the next call goes on in ONE static pointer   *)
(* of the C library.  strtok(NULL, " ") loads it, looks for the next token,   *)
(* writes a NUL over the space behind it and stores the pointer back: three   *)
(* steps here, which threads interleave.  A datagram is its sequence of       *)
(* tokens and a position in its buffer the index of the token starting there, *)
(* 0 standing for a position that holds a NUL.                                *)
(*                                                                            *)
(* rules[i].ip holds 16 bytes and strcpy (sdn.c:184, 200) does not count: an  *)
(* address whose ip is longer runs over the rules behind its own, and from    *)
(* the end of the table out of the array.  What the table is good for is      *)
(* therefore stated for as long as the addresses that came fit.               *)
EXTENDS Integers, Sequences, FiniteSets, SequencesExt

CONSTANTS
    Requests,     \* one per datagram: names the handler thread and its buffer
    Messages,     \* the datagrams clients send: records [kind, toks]
    Tokens,       \* the words those datagrams are made of
    atoi,         \* what atoi returns for each token
    Addrs,        \* the tokens that contain a colon
    BadAddrs,     \* those among them that inet_pton refuses
    Spill,        \* word -> over how many rules behind its own its ip runs
    Ports,        \* ephemeral ports the kernel hands out
    MAX_RULES,    \* sdn.c:15
    MaxInFlight,  \* bound: handler threads alive at one time
    None

Kinds == {"set", "unset", "data"}

ASSUME SdnAssumption ==
    /\ atoi \in [Tokens -> Int]
    /\ Messages \subseteq [kind : Kinds, toks : Seq(Tokens)]
    /\ \A m \in Messages : m.kind # "data" => m.toks # <<>>
    /\ Addrs \subseteq Tokens
    /\ BadAddrs \subseteq Addrs
    /\ Spill \in [Tokens -> Nat]
    /\ \A a \in Addrs : Spill[a] > 0 => a \in BadAddrs
    /\ MAX_RULES \in Nat \ {0}
    /\ None \notin Tokens /\ None \notin Messages /\ None \notin Requests
    /\ None \notin Ports /\ None \notin [buf : Requests, at : Nat]

VARIABLES
    \* the process
    rules,        \* rules[1..rule_count], each [dest, addr]
    mutex,        \* rules_mutex: the thread that holds it, or None
    save,         \* strtok's static pointer, None until the first call
    \* one thread per request
    pc,           \* where the thread stands
    msg,          \* the datagram in args->buffer
    cut,          \* the tokens of the buffer with a NUL written behind them
    held,         \* the position the running strtok call works on
    toks,         \* what strtok returned so far, None for NULL
    overlapped,   \* history: another thread was in strtok while this one parsed
    idx,          \* the loop variable i after the scan, 0 when it ran out
    route,        \* found_rule's address
    port,         \* the port of server_sockfd, None when it is not open
    reply,        \* what is or will be sent to the client
    \* the network
    net           \* answers under way from instances to ephemeral ports

table == <<rules, mutex>>
parser == <<save, cut, held, toks, overlapped>>
socks == <<port, net>>
vars == <<rules, mutex, save, pc, msg, cut, held, toks, overlapped, idx,
          route, port, reply, net>>

Dests == {atoi[t] : t \in Tokens}
Rules == [dest : Dests, addr : Addrs]
Pointers == [buf : Requests, at : Nat]

PCs == {"free", "lost", "scan", "store", "load", "lock", "search", "apply",
        "wrecked", "forward", "wait", "send", "done"}

Verdicts == {"none", "invalid", "badaddr", "done", "limit", "norule",
             "notsent", "noanswer", "unexpected", "answer"}

(* The verdict is the text of the reply; an answer also says which instance  *)
(* sent it and, as history, for which request that instance computed it.     *)
Reply(v) == [verdict |-> v, from |-> None, of |-> None]
AnswerOf(a) == [verdict |-> "answer", from |-> a.from, of |-> a.req]

Init ==
    /\ rules = <<>>
    /\ mutex = None
    /\ save = None
    /\ pc = [r \in Requests |-> "free"]
    /\ msg = [r \in Requests |-> None]
    /\ cut = [r \in Requests |-> {}]
    /\ held = [r \in Requests |-> None]
    /\ toks = [r \in Requests |-> <<>>]
    /\ overlapped = [r \in Requests |-> FALSE]
    /\ idx = [r \in Requests |-> 0]
    /\ route = [r \in Requests |-> None]
    /\ port = [r \in Requests |-> None]
    /\ reply = [r \in Requests |-> Reply("none")]
    /\ net = {}

Goto(r, l) == pc' = [pc EXCEPT ![r] = l]

Respond(r, v) ==
    /\ Goto(r, "send")
    /\ reply' = [reply EXCEPT ![r] = Reply(v)]

Live(r) == pc[r] \notin {"free", "lost", "done"}
InFlight == {r \in Requests : Live(r)}

----------------------------------------------------------------------------
(* main: receive a datagram, start its thread.                              *)

(* The thread dispatches on its own buffer and enters strtok(buffer, " "). *)
Receive(r, m) ==
    /\ pc[r] = "free"
    /\ Cardinality(InFlight) < MaxInFlight
    /\ Goto(r, "scan")
    /\ msg' = [msg EXCEPT ![r] = m]
    /\ held' = [held EXCEPT ![r] = [buf |-> r, at |-> IF m.toks = <<>> THEN 0 ELSE 1]]
    /\ UNCHANGED <<save, cut, toks, overlapped, table, idx, route, reply, socks>>

(* recvfrom, malloc or pthread_create failed: main goes on without replying. *)
Drop(r) ==
    /\ pc[r] = "free"
    /\ Goto(r, "lost")
    /\ UNCHANGED <<parser, table, msg, idx, route, reply, socks>>

----------------------------------------------------------------------------
(* strtok and the parsing part of the three handlers.                       *)

Kind(r) == msg[r].kind
(* Mutant: set forgets its third strtok. *)
NeededShort(r) == 2

Needed(r) == IF Kind(r) = "set" THEN 3 ELSE 2
Parsing(r) == pc[r] \in {"scan", "store", "load"}

(* Where a pointer leads.  Into a buffer that is not freed: to its position. *)
(* free(args) leaves strtok's pointer behind; then it leads to the old bytes, *)
(* or, once malloc has given them to a later request, into that one's buffer. *)
Landings(p) ==
    IF Live(p.buf) THEN {p}
    ELSE UNION {[buf : {b}, at : 0..Len(msg[b].toks)] : b \in {p.buf} \cup InFlight}

TokenAt(p) == IF p.at = 0 THEN None ELSE msg[p.buf].toks[p.at]

(* A token whose end is a NUL, by its place or by an earlier cut, is the     *)
(* last one strtok finds; behind any other the search goes on.               *)
Behind(p) ==
    IF p.at = 0 \/ p.at = Len(msg[p.buf].toks) \/ p.at \in cut[p.buf]
    THEN [buf |-> p.buf, at |-> 0]
    ELSE [buf |-> p.buf, at |-> p.at + 1]

(* Every other thread that is between its first token and its last one now  *)
(* shares strtok's state with r.                                            *)
Disturb(r) ==
    overlapped' = [o \in Requests |-> overlapped[o] \/ (o # r /\ Parsing(o))]

(* Mutant: strtok is handed the buffer again in place of NULL. *)
LoadStart(r) ==
    /\ pc[r] = "load"
    /\ Goto(r, "scan")
    /\ held' = [held EXCEPT ![r] = [buf |-> r, at |-> 1]]
    /\ UNCHANGED <<save, cut, toks, overlapped, table, msg, idx, route, reply, socks>>

LoadSave(r) ==
    /\ pc[r] = "load"
    /\ Goto(r, "scan")
    /\ held' = [held EXCEPT ![r] = save]
    /\ UNCHANGED <<save, cut, toks, overlapped, table, msg, idx, route, reply, socks>>

ScanToken(r) ==
    /\ pc[r] = "scan"
    /\ Goto(r, "store")
    /\ \E p \in Landings(held[r]) :
         /\ toks' = [toks EXCEPT ![r] = Append(@, TokenAt(p))]
         /\ cut' = [cut EXCEPT ![p.buf] = @ \cup ({p.at} \ {0})]
         /\ held' = [held EXCEPT ![r] = Behind(p)]
    /\ Disturb(r)
    /\ UNCHANGED <<save, table, msg, idx, route, reply, socks>>

StoreSave(r) ==
    /\ pc[r] = "store"
    /\ save' = held[r]
    /\ Disturb(r)
    /\ UNCHANGED <<cut, held, toks, table, msg, idx, route, socks>>

LastToken(r) == toks[r][Len(toks[r])]

(* strtok returned NULL: "Invalid ... format". *)
TokenMissing(r) ==
    /\ StoreSave(r)
    /\ LastToken(r) = None
    /\ Respond(r, "invalid")

TokenTaken(r) ==
    /\ StoreSave(r)
    /\ LastToken(r) # None
    /\ Len(toks[r]) < Needed(r)
    /\ Goto(r, "load")
    /\ UNCHANGED reply

(* No colon in what strtok returned for ip:port. *)
NoColon(r) ==
    /\ StoreSave(r)
    /\ LastToken(r) # None
    /\ Len(toks[r]) = Needed(r)
    /\ Kind(r) = "set"
    /\ LastToken(r) \notin Addrs
    /\ Respond(r, "badaddr")

(* Mutant: the test for the colon is gone. *)
ParsedAnything(r) ==
    /\ StoreSave(r)
    /\ LastToken(r) # None
    /\ Len(toks[r]) = Needed(r)
    /\ Goto(r, "lock")
    /\ UNCHANGED reply

Parsed(r) ==
    /\ StoreSave(r)
    /\ LastToken(r) # None
    /\ Len(toks[r]) = Needed(r)
    /\ Kind(r) = "set" => LastToken(r) \in Addrs
    /\ Goto(r, "lock")
    /\ UNCHANGED reply

----------------------------------------------------------------------------
(* The critical sections of the three handlers.                             *)

Dest(r) == atoi[toks[r][IF Kind(r) = "data" THEN 1 ELSE 2]]

(* Mutant: the handler does not lock. *)
AcquireHeld(r) ==
    /\ pc[r] = "lock"
    /\ mutex' = r
    /\ Goto(r, "search")
    /\ UNCHANGED <<parser, rules, msg, idx, route, reply, socks>>

Acquire(r) ==
    /\ pc[r] = "lock"
    /\ mutex = None
    /\ mutex' = r
    /\ Goto(r, "search")
    /\ UNCHANGED <<parser, rules, msg, idx, route, reply, socks>>

(* The for loop over the rules: the first one that matches. *)
Matches(d) == {i \in DOMAIN rules : rules[i].dest = d}
FirstMatch(d) == IF Matches(d) = {} THEN 0 ELSE Min(Matches(d))

Search(r) ==
    /\ pc[r] = "search"
    /\ idx' = [idx EXCEPT ![r] = FirstMatch(Dest(r))]
    /\ Goto(r, "apply")
    /\ UNCHANGED <<parser, table, msg, route, reply, socks>>

(* The body of the handler's loop or what follows it, up to the unlock. *)
Finish(r, kind) ==
    /\ pc[r] = "apply"
    /\ Kind(r) = kind
    /\ mutex' = None
    /\ UNCHANGED <<parser, msg, idx, socks>>

(* Mutant: the rule that is found is left as it was. *)
UpdateLost(r) ==
    /\ Finish(r, "set")
    /\ idx[r] # 0
    /\ Respond(r, "done")
    /\ UNCHANGED <<rules, route>>

(* The rule a set command asks for and the index it is written at; struct    *)
(* rule has its destination in front of ip[16] and its port behind, so a     *)
(* long ip overwrites whole rules from their destination on.  (Its own port  *)
(* is written after it; inet_pton takes at most 15 characters.)              *)
Asked(r) == [dest |-> Dest(r), addr |-> toks[r][3]]
Slot(r) == IF idx[r] = 0 THEN Len(rules) + 1 ELSE idx[r]
Reach(r) == Slot(r) + Spill[toks[r][3]]
Overwritten(r) == {i \in DOMAIN rules : idx[r] < i /\ i <= Reach(r)}

(* The bytes that land in another rule may make any rule of it. *)
UpdateRule(r) ==
    /\ Finish(r, "set")
    /\ idx[r] # 0
    /\ Reach(r) <= MAX_RULES
    /\ \E other \in [Overwritten(r) -> Rules] :
         rules' = [i \in DOMAIN rules |-> IF i = idx[r] THEN Asked(r)
                                          ELSE IF i \in Overwritten(r) THEN other[i]
                                          ELSE rules[i]]
    /\ Respond(r, "done")
    /\ UNCHANGED route

(* Mutant: one rule more than the array holds. *)
AddRuleOver(r) ==
    /\ Finish(r, "set")
    /\ idx[r] = 0
    /\ Len(rules) <= MAX_RULES
    /\ rules' = Append(rules, Asked(r))
    /\ Respond(r, "done")
    /\ UNCHANGED route

AddRule(r) ==
    /\ Finish(r, "set")
    /\ idx[r] = 0
    /\ Len(rules) < MAX_RULES
    /\ Reach(r) <= MAX_RULES
    /\ rules' = Append(rules, Asked(r))
    /\ Respond(r, "done")
    /\ UNCHANGED route

(* strcpy leaves the array.  What lies behind it, and so what becomes of the  *)
(* process, is not defined: the model follows this handler no further, and   *)
(* it keeps the mutex.                                                       *)
OverrunArray(r) ==
    /\ pc[r] = "apply"
    /\ Kind(r) = "set"
    /\ Slot(r) <= MAX_RULES
    /\ Reach(r) > MAX_RULES
    /\ Goto(r, "wrecked")
    /\ UNCHANGED <<parser, table, msg, idx, route, reply, socks>>

RuleLimit(r) ==
    /\ Finish(r, "set")
    /\ idx[r] = 0
    /\ Len(rules) >= MAX_RULES
    /\ Respond(r, "limit")
    /\ UNCHANGED <<rules, route>>

(* Mutant: the rules move down, rule_count stays. *)
RemoveUncounted(r) ==
    /\ Finish(r, "unset")
    /\ rules' = [i \in DOMAIN rules |-> IF idx[r] \in 1..i /\ i < Len(rules)
                                        THEN rules[i + 1] ELSE rules[i]]
    /\ Respond(r, "done")
    /\ UNCHANGED route

RemoveRule(r) ==
    /\ Finish(r, "unset")
    /\ rules' = IF idx[r] = 0 THEN rules ELSE RemoveAt(rules, idx[r])
    /\ Respond(r, "done")
    /\ UNCHANGED route

CopyRule(r) ==
    /\ Finish(r, "data")
    /\ idx[r] # 0
    /\ route' = [route EXCEPT ![r] = rules[idx[r]].addr]
    /\ Goto(r, "forward")
    /\ UNCHANGED <<rules, reply>>

(* Mutant: the reply for want of a rule comes without the unlock. *)
NoRuleLocked(r) ==
    /\ pc[r] = "apply"
    /\ Kind(r) = "data"
    /\ idx[r] = 0
    /\ Respond(r, "norule")
    /\ UNCHANGED <<parser, msg, idx, socks, table, route>>

NoRule(r) ==
    /\ Finish(r, "data")
    /\ idx[r] = 0
    /\ Respond(r, "norule")
    /\ UNCHANGED <<rules, route>>

----------------------------------------------------------------------------
(* The relay part of handle_normal_message, after the unlock.               *)

(* socket, inet_pton or sendto failed; the socket is closed again. *)
ForwardFails(r) ==
    /\ pc[r] = "forward"
    /\ Respond(r, "notsent")
    /\ UNCHANGED <<parser, table, msg, idx, route, socks>>

OpenPorts == {port[o] : o \in Requests} \ {None}

(* Mutant: a port that another socket holds is handed out again. *)
ForwardShared(r) ==
    /\ pc[r] = "forward"
    /\ route[r] \notin BadAddrs
    /\ \E p \in Ports :
         /\ port' = [port EXCEPT ![r] = p]
         /\ net' = net \cup {[port |-> p, from |-> route[r], req |-> r]}
    /\ Goto(r, "wait")
    /\ UNCHANGED <<parser, table, msg, idx, route, reply>>

(* The first sendto binds the new socket to a free port.  The number's way   *)
(* to the instance and the answer's way back are one message of net; nothing *)
(* obliges it to arrive, and it outlives the socket that waits for it.       *)
Forward(r) ==
    /\ pc[r] = "forward"
    /\ route[r] \notin BadAddrs
    /\ \E p \in Ports \ OpenPorts :
         /\ port' = [port EXCEPT ![r] = p]
         /\ net' = net \cup {[port |-> p, from |-> route[r], req |-> r]}
    /\ Goto(r, "wait")
    /\ UNCHANGED <<parser, table, msg, idx, route, reply>>

(* Mutant: the sender is not compared. *)
ExpectedAny(r, a) == TRUE

(* recvfrom returns a datagram that reached the port; lines 366-367 compare  *)
(* its sender with the rule.                                                 *)
Expected(r, a) == a.from = route[r]

RecvAnswer(r) ==
    /\ pc[r] = "wait"
    /\ \E a \in net :
         /\ a.port = port[r]
         /\ net' = net \ {a}
         /\ IF Expected(r, a)
            THEN /\ Goto(r, "send")
                 /\ reply' = [reply EXCEPT ![r] = AnswerOf(a)]
            ELSE Respond(r, "unexpected")
    /\ UNCHANGED <<parser, table, msg, idx, route, port>>

(* SO_RCVTIMEO ran out, or recvfrom failed for another reason. *)
RecvFails(r) ==
    /\ pc[r] = "wait"
    /\ Respond(r, "noanswer")
    /\ UNCHANGED <<parser, table, msg, idx, route, socks>>

(* sendto the client, close the socket, free(args).  The thread's variables  *)
(* end with it; the old bytes of its buffer stay where they are.             *)
SendReply(r) ==
    /\ pc[r] = "send"
    /\ Goto(r, "done")
    /\ port' = [port EXCEPT ![r] = None]
    /\ toks' = [toks EXCEPT ![r] = <<>>]
    /\ held' = [held EXCEPT ![r] = None]
    /\ overlapped' = [overlapped EXCEPT ![r] = FALSE]
    /\ idx' = [idx EXCEPT ![r] = 0]
    /\ UNCHANGED <<save, cut, table, msg, route, reply, net>>

----------------------------------------------------------------------------
Parse(r) ==
    \/ LoadSave(r) \/ ScanToken(r)
    \/ TokenMissing(r) \/ TokenTaken(r) \/ NoColon(r) \/ Parsed(r)

Critical(r) ==
    \/ Search(r)
    \/ UpdateRule(r) \/ AddRule(r) \/ RuleLimit(r) \/ OverrunArray(r)
    \/ RemoveRule(r)
    \/ CopyRule(r) \/ NoRule(r)

Relay(r) == Forward(r) \/ ForwardFails(r) \/ RecvAnswer(r) \/ RecvFails(r)

Handler(r) == Parse(r) \/ Acquire(r) \/ Critical(r) \/ Relay(r) \/ SendReply(r)

(* main blocks in recvfrom and no thread is left: no datagram to come.  Or   *)
(* the memory behind the table is overwritten and nothing is known any more. *)
Quiet ==
    /\ \/ \A r \in Requests : pc[r] \in {"lost", "done"}
       \/ \E r \in Requests : pc[r] = "wrecked"
    /\ UNCHANGED vars

Next ==
    \/ \E r \in Requests : Drop(r) \/ (\E m \in Messages : Receive(r, m))
    \/ \E r \in Requests : Handler(r)
    \/ Quiet

Spec == Init /\ [][Next]_vars

(* The kernel runs every thread that can run; a receive with SO_RCVTIMEO     *)
(* returns.  Datagrams need not arrive, answers neither.                     *)
FairSpec == Spec /\ \A r \in Requests : WF_vars(Handler(r))

----------------------------------------------------------------------------
(* Properties.                                                              *)

TypeOK ==
    /\ rules \in Seq(Rules)
    /\ mutex \in Requests \cup {None}
    /\ save \in Pointers \cup {None}
    /\ pc \in [Requests -> PCs]
    /\ msg \in [Requests -> Messages \cup {None}]
    /\ cut \in [Requests -> SUBSET Nat]
    /\ held \in [Requests -> Pointers \cup {None}]
    /\ toks \in [Requests -> Seq(Tokens \cup {None})]
    /\ overlapped \in [Requests -> BOOLEAN]
    /\ idx \in [Requests -> Nat]
    /\ route \in [Requests -> Addrs \cup {None}]
    /\ port \in [Requests -> Ports \cup {None}]
    /\ reply \in [Requests -> [verdict : Verdicts, from : Addrs \cup {None},
                               of : Requests \cup {None}]]
    /\ net \subseteq [port : Ports, from : Addrs, req : Requests]

(* No datagram that came so far has an address too long for rules[i].ip.  It *)
(* says nothing of who sends them: the proxy checks nothing of the kind.     *)
LongWords == {a \in Addrs : Spill[a] > 0}
Received == {r \in Requests : pc[r] \notin {"free", "lost"}}
AddressesFit ==
    \A r \in Received : \A k \in DOMAIN msg[r].toks : msg[r].toks[k] \notin LongWords

Consistent ==
    /\ Len(rules) <= MAX_RULES
    /\ \A i, j \in DOMAIN rules : rules[i].dest = rules[j].dest => i = j

(* However the handlers interleave, even with the wrong words in their       *)
(* hands, a destination has at most one rule and the table never outgrows    *)
(* its array: what rules_mutex is for (sdn.c:177-204, 226-245).  Only as     *)
(* long as every ip fits ip[16]: one strcpy of a longer one (sdn.c:184, 200) *)
(* gives the next rule another destination or leaves the array.              *)
TableConsistent == AddressesFit => Consistent

(* An index found by the scan is acted upon while it is still right: it      *)
(* names the rule of the thread's destination, and 0 means there is none.    *)
ScanStillRight ==
    \A r \in Requests : pc[r] = "apply" =>
        /\ mutex = r
        /\ idx[r] = FirstMatch(Dest(r))

WellFormed(m) ==
    IF m.kind = "set" THEN Len(m.toks) >= 3 /\ m.toks[3] \in Addrs ELSE Len(m.toks) >= 2

ParsedRight(r) ==
    Live(r) /\ ~Parsing(r) =>
         IF WellFormed(msg[r])
         THEN /\ toks[r] = SubSeq(msg[r].toks, 1, Needed(r))
              /\ reply[r].verdict \notin {"invalid", "badaddr"}
         ELSE reply[r].verdict \in {"invalid", "badaddr"}

(* A handler that no other thread disturbed inside strtok works on the words *)
(* of its own datagram and refuses it exactly when it is malformed, whatever *)
(* buffers were freed, reused or cut before it started (sdn.c:144-171).      *)
UndisturbedParse == \A r \in Requests : ~overlapped[r] => ParsedRight(r)

(* An answer is told once, and when it is told to another client than the    *)
(* one it was computed for, it is a late one: that client's request went to  *)
(* the same instance, is over and was told something else.  This is all that *)
(* a new socket per request and the comparison of the sender ensure          *)
(* (sdn.c:308, 366-380); ports are used again and answers outlive sockets.   *)
LateAnswersOnly ==
    \A r \in Requests : reply[r].verdict = "answer" =>
        LET o == reply[r].of IN
        /\ route[o] = route[r]
        /\ o # r => pc[o] = "done" /\ reply[o].of # o
        /\ \A q \in Requests : reply[q].of = o => q = r

(* Every datagram a thread was started for is replied to: nobody waits for   *)
(* rules_mutex, for strtok or for an instance for ever, as long as the *)
(* addresses that come fit the table.                                        *)
EveryRequestAnswered ==
    \A r \in Requests : pc[r] = "scan" ~> pc[r] = "done" \/ ~AddressesFit

(* FinalReport.pdf section 7.4 claims concurrent requests are processed; the *)
(* comments at sdn.c:145, 154 and 271 say what each strtok returns.  With    *)
(* two threads in strtok they are wrong: a handler works with words of       *)
(* another client's datagram.                                                *)
OwnTokens == \A r \in Requests : ParsedRight(r)

(* FinalReport.pdf section 7.4: "responses are returned to the clients       *)
(* correctly".  The answer a client gets was computed for its own number.    *)
OwnAnswer ==
    \A r \in Requests :
        reply[r].verdict = "answer" /\ ~overlapped[r] => reply[r].of = r

----------------------------------------------------------------------------
(* The inductive invariant behind the safety properties.  The first part is   *)
(* for TypeOK, TableConsistent and ScanStillRight.                           *)

HolderInside ==
    \A r \in Requests : mutex = r <=> pc[r] \in {"search", "apply", "wrecked"}

MessageKept ==
    \A r \in Requests : pc[r] \notin {"free", "lost"} => msg[r] \in Messages

(* strtok never follows NULL, and leaves a buffer only at its end. *)
Valid(p) ==
    /\ p \in Pointers
    /\ pc[p.buf] \notin {"free", "lost"}
    /\ p.at <= Len(msg[p.buf].toks)

PointersValid ==
    /\ save # None => Valid(save)
    /\ \A r \in Requests : pc[r] = "load" => save # None
    /\ \A r \in Requests : pc[r] \in {"scan", "store"} => Valid(held[r])

(* No handler enters its critical section with a word missing. *)
AllTokens(r, n) == \A i \in 1..n : toks[r][i] \in Tokens
TokensTaken == \A r \in Requests :
    /\ pc[r] = "free" => toks[r] = <<>>
    /\ pc[r] \in {"scan", "load"} => Len(toks[r]) < Needed(r) /\ AllTokens(r, Len(toks[r]))
    /\ pc[r] = "store" => Len(toks[r]) \in 1..Needed(r) /\ AllTokens(r, Len(toks[r]) - 1)
    /\ pc[r] \in {"lock", "search", "apply"} =>
         /\ Len(toks[r]) = Needed(r)
         /\ AllTokens(r, Needed(r))
         /\ Kind(r) = "set" => toks[r][3] \in Addrs

(* What handlers have in their hands came in some datagram. *)
WordsFit == AddressesFit =>
    \A r \in Requests : \A k \in DOMAIN toks[r] : toks[r][k] \notin LongWords

RouteCopied ==
    \A r \in Requests : pc[r] \in {"forward", "wait"} => route[r] \in Addrs

ParseInv == TypeOK /\ MessageKept /\ PointersValid /\ TokensTaken /\ RouteCopied
TableInv == ParseInv /\ WordsFit /\ HolderInside /\ TableConsistent /\ ScanStillRight

(* What LateAnswersOnly and AtomicRouteMap need besides: a handler routes and *)
(* says nothing before its time, and what it says fits the way it took.      *)
ReplyFits(r) ==
    /\ pc[r] \notin {"forward", "wait", "send", "done"} => route[r] = None
    /\ pc[r] \notin {"send", "done"} => reply[r] = Reply("none")
    /\ pc[r] \in {"send", "done"} =>
         \/ /\ route[r] = None
            /\ \E v \in {"invalid", "badaddr", "done", "limit", "norule"} : reply[r] = Reply(v)
         \/ /\ route[r] \in Addrs
            /\ \/ \E v \in {"notsent", "noanswer", "unexpected"} : reply[r] = Reply(v)
               \/ /\ reply[r].verdict = "answer" /\ reply[r].from = route[r]
                  /\ reply[r].of \in Requests

RepliesFit == \A r \in Requests : ReplyFits(r)

(* And UndisturbedParse: nobody has cut a buffer before its datagram came,   *)
(* and a handler alone in strtok has gone through its own words in order and *)
(* has the next one ahead of it.                                             *)
Taken(r, n) == n \in 0..Len(msg[r].toks) /\ \A i \in 1..n : toks[r][i] = msg[r].toks[i]
Ahead(r, n) == [buf |-> r, at |-> IF n < Len(msg[r].toks) THEN n + 1 ELSE 0]

WordsInOrder(r) ==
    LET n == Len(toks[r]) IN
    /\ cut[r] \subseteq 1..n
    /\ pc[r] = "scan" => Taken(r, n) /\ held[r] = Ahead(r, n)
    /\ pc[r] = "load" => Taken(r, n) /\ save = Ahead(r, n)
    /\ pc[r] = "store" =>
         /\ Taken(r, n - 1) /\ held[r] = Ahead(r, n)
         /\ toks[r][n] = IF n <= Len(msg[r].toks) THEN msg[r].toks[n] ELSE None

OwnWords ==
    /\ \A r \in Requests : pc[r] = "free" => cut[r] = {}
    /\ \A r \in Requests : Parsing(r) /\ ~overlapped[r] => WordsInOrder(r)
    /\ UndisturbedParse

(* And LateAnswersOnly: a port has one socket, a request one answer, which    *)
(* is under way to the request's own port or to one it has given back.       *)
PortsOwned ==
    \A r \in Requests :
        /\ pc[r] = "wait" => port[r] # None
        /\ port[r] # None => /\ pc[r] \in {"wait", "send"}
                            /\ \A o \in Requests : port[o] = port[r] => o = r

AnswersUnderWay ==
    \A a \in net :
        /\ pc[a.req] \in {"wait", "send", "done"} /\ a.from = route[a.req]
        /\ pc[a.req] # "done" => a.port = port[a.req]
        /\ \A r \in Requests : reply[r].of # a.req
        /\ \A b \in net : b.req = a.req => b = a

RelayInv == PortsOwned /\ AnswersUnderWay /\ LateAnswersOnly

SdnInv == TableInv /\ RepliesFit /\ OwnWords /\ RelayInv

----------------------------------------------------------------------------
(* Sdn implements RouteMap: a handler takes effect between its Receive and   *)
(* its SendReply, at the instant it leaves its critical section or gives up  *)
(* on the datagram.                                                          *)
Status(r) ==
    CASE pc[r] = "free" -> "idle"
      [] pc[r] = "lost" -> "lost"
      [] pc[r] \in {"scan", "store", "load"} -> "called"
      [] pc[r] \in {"lock", "search", "apply", "wrecked"} -> "understood"
      [] pc[r] \in {"forward", "wait", "send"} -> "applied"
      [] pc[r] = "done" -> "answered"

Understood(r) ==
    IF Status(r) # "understood" THEN [kind |-> "none", dest |-> None, addr |-> None]
    ELSE [kind |-> Kind(r), dest |-> Dest(r),
          addr |-> IF Kind(r) = "set" THEN toks[r][3] ELSE None]

Told(r) == [verdict |-> reply[r].verdict, addr |-> reply[r].from]

Result(r) ==
    IF route[r] # None THEN [verdict |-> "route", addr |-> route[r]]
    ELSE Told(r)

Routes == INSTANCE RouteMap WITH
    inForce <- AddressesFit,
    table  <- {rules[i] : i \in DOMAIN rules},
    status <- [r \in Requests |-> Status(r)],
    op     <- [r \in Requests |-> Understood(r)],
    result <- [r \in Requests |-> Result(r)],
    reply  <- [r \in Requests |-> IF pc[r] = "done" THEN Told(r)
                                  ELSE [verdict |-> "none", addr |-> None]]

(* Set, unset and lookup behave as if each happened at one instant between   *)
(* request and reply, and no reply contradicts what happened: sdn.c as a     *)
(* whole against the table it promises, for as long as the addresses fit.    *)
AtomicRouteMap == Routes!Spec
=============================================================================

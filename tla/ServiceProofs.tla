--------------------------- MODULE ServiceProofs ---------------------------
(* Theorems about Service for any number of machines, programs, clients,     *)
(* commands and crashes.                                                     *)
EXTENDS Service, SequenceLemmas, FiniteSetTheorems

----------------------------------------------------------------------------
(* The prompt's table. *)

LEMMA FindVmFacts ==
    ASSUME vm_list \in Seq(VMConfigs), OneEntryEach, NEW n
    PROVE  /\ find_vm(n) \in Nat
           /\ find_vm(n) = 0 => \A i \in DOMAIN vm_list : vm_list[i].vm_number # n
           /\ find_vm(n) # 0 => /\ find_vm(n) \in DOMAIN vm_list
                                /\ vm_list[find_vm(n)].vm_number = n
<1> DEFINE I == {i \in 1 .. Len(vm_list) : vm_list[i].vm_number = n}
<1>1. DOMAIN vm_list = 1 .. Len(vm_list) /\ Len(vm_list) \in Nat
  BY LenProperties
<1>2. find_vm(n) = IF I # {} THEN Min(I) ELSE 0
  BY DEF find_vm, SelectInSeq
<1>3. CASE I = {}
  BY <1>1, <1>2, <1>3
<1>4. CASE I # {}
  <2>1. PICK m \in DOMAIN vm_list : vm_list[m].vm_number = n
    BY <1>1, <1>4
  <2>2. I = {m}
    BY <1>1, <2>1 DEF OneEntryEach
  <2>3. Min({m}) = m
    BY <1>1, <2>1 DEF Min
  <2>4. find_vm(n) = m
    <3> HIDE DEF I
    <3> QED BY <1>2, <1>4, <2>2, <2>3
  <2> QED BY <1>1, <2>1, <2>4
<1> QED BY <1>3, <1>4

(* NumbersResolve without find_vm: entry by entry. *)
Agrees ==
    /\ \A i \in DOMAIN vm_list : known[vm_list[i].vm_number] = vm_list[i].place
    /\ \A n \in VmNumbers : (\A i \in DOMAIN vm_list : vm_list[i].vm_number # n) => known[n] = None

LEMMA AgreesResolves ==
    vm_list \in Seq(VMConfigs) /\ OneEntryEach => (Agrees <=> NumbersResolve)
<1> SUFFICES ASSUME vm_list \in Seq(VMConfigs), OneEntryEach
             PROVE  Agrees <=> NumbersResolve
  OBVIOUS
<1>1. \A i \in DOMAIN vm_list : vm_list[i] \in VMConfigs
  OBVIOUS
<1>2. ASSUME Agrees, NEW n \in VmNumbers
      PROVE  known[n] = (IF find_vm(n) = 0 THEN None ELSE PlaceOf(n))
  BY <1>2, FindVmFacts DEF Agrees, PlaceOf
<1>3. ASSUME NumbersResolve PROVE Agrees
  <2>1. ASSUME NEW i \in DOMAIN vm_list
        PROVE  known[vm_list[i].vm_number] = vm_list[i].place
    <3>1. vm_list[i].vm_number \in VmNumbers
      BY <1>1 DEF VMConfigs
    <3>2. find_vm(vm_list[i].vm_number) = i
      BY FindVmFacts DEF OneEntryEach
    <3>3. i # 0
      BY LenProperties
    <3> QED BY <1>3, <3>1, <3>2, <3>3 DEF NumbersResolve, PlaceOf
  <2>2. ASSUME NEW n \in VmNumbers, \A i \in DOMAIN vm_list : vm_list[i].vm_number # n
        PROVE  known[n] = None
    <3>1. find_vm(n) = 0
      BY <2>2, FindVmFacts
    <3> QED BY <1>3, <3>1 DEF NumbersResolve
  <2> QED BY <2>1, <2>2 DEF Agrees
<1> QED BY <1>2, <1>3 DEF NumbersResolve
(* Each edit keeps one entry per machine and the agreement with the operator. *)
LEMMA TableEdited ==
    ASSUME ManagerTypeOK, OneEntryEach, NumbersResolve, NEW n \in VmNumbers,
           RemoveVm(n) \/ \E p \in Places : UpdateVm(n, p) \/ AddVm(n, p)
    PROVE  ManagerTypeOK' /\ OneEntryEach' /\ NumbersResolve' /\ prompt' = prompt
<1>1. /\ vm_list \in Seq(VMConfigs) /\ Len(vm_list) \in Nat /\ Len(vm_list) <= MAX_VMS
      /\ DOMAIN vm_list = 1 .. Len(vm_list) /\ known \in [VmNumbers -> Places \cup {None}]
  BY LenProperties DEF ManagerTypeOK
<1>2. Agrees
  BY <1>1, AgreesResolves
<1>3. \A i \in DOMAIN vm_list : vm_list[i] \in VMConfigs
  BY <1>1
<1>4. /\ find_vm(n) = 0 => \A i \in DOMAIN vm_list : vm_list[i].vm_number # n
      /\ find_vm(n) # 0 => find_vm(n) \in DOMAIN vm_list /\ vm_list[find_vm(n)].vm_number = n
  BY <1>1, FindVmFacts
<1> SUFFICES /\ vm_list' \in Seq(VMConfigs) /\ Len(vm_list') <= MAX_VMS
             /\ known' \in [VmNumbers -> Places \cup {None}]
             /\ OneEntryEach' /\ Agrees' /\ prompt' = prompt
  <2>1. (vm_list \in Seq(VMConfigs) /\ OneEntryEach => (Agrees <=> NumbersResolve))'
    BY AgreesResolves, PTL
  <2> QED BY <2>1 DEF ManagerTypeOK
<1>5. prompt' = prompt
  BY DEF RemoveVm, UpdateVm, AddVm, Edit
<1>6. CASE \E p \in Places : UpdateVm(n, p)
  <2> PICK p \in Places : UpdateVm(n, p)
    BY <1>6
  <2> PICK k \in DOMAIN vm_list : k = find_vm(n) /\ vm_list[k].vm_number = n
    BY <1>4 DEF UpdateVm
  <2>1. /\ vm_list' = [vm_list EXCEPT ![k].place = p]
        /\ known' = [known EXCEPT ![n] = p]
    BY DEF UpdateVm, Edit
  <2>2. /\ DOMAIN vm_list' = DOMAIN vm_list
        /\ \A i \in DOMAIN vm_list :
             /\ vm_list'[i] \in VMConfigs
             /\ vm_list'[i].vm_number = vm_list[i].vm_number
             /\ vm_list'[i].place = IF i = k THEN p ELSE vm_list[i].place
    BY <1>3, <2>1 DEF VMConfigs
  <2>3. vm_list' \in Seq(VMConfigs) /\ Len(vm_list') = Len(vm_list)
    BY <1>1, <2>1, <2>2
  <2>4. OneEntryEach'
    BY <2>2 DEF OneEntryEach
  <2>5. Agrees'
    BY <1>1, <1>2, <1>3, <2>1, <2>2 DEF Agrees, OneEntryEach, VMConfigs
  <2> QED BY <1>1, <1>5, <2>1, <2>3, <2>4, <2>5
<1>7. CASE \E p \in Places : AddVm(n, p)
  <2> PICK p \in Places : AddVm(n, p)
    BY <1>7
  <2> DEFINE vm == [vm_number |-> n, place |-> p]
  <2>1. /\ vm_list' = Append(vm_list, vm) /\ known' = [known EXCEPT ![n] = p]
        /\ Len(vm_list) < MAX_VMS /\ \A i \in DOMAIN vm_list : vm_list[i].vm_number # n
    BY <1>4 DEF AddVm, Edit
  <2>2. vm \in VMConfigs /\ vm.vm_number = n /\ vm.place = p
    BY DEF VMConfigs
  <2> HIDE DEF vm
  <2>3. /\ vm_list' \in Seq(VMConfigs) /\ Len(vm_list') = Len(vm_list) + 1
        /\ vm_list'[Len(vm_list) + 1] = vm
        /\ \A i \in 1 .. Len(vm_list) : vm_list'[i] = vm_list[i]
    BY <1>1, <2>1, <2>2, AppendProperties
  <2>4. DOMAIN vm_list' = DOMAIN vm_list \cup {Len(vm_list) + 1}
    BY <1>1, <2>3, LenProperties
  <2>5. OneEntryEach'
    BY <1>1, <2>1, <2>2, <2>3, <2>4 DEF OneEntryEach
  <2>6. Agrees'
    BY <1>1, <1>2, <1>3, <2>1, <2>2, <2>3, <2>4 DEF Agrees, VMConfigs
  <2>7. Len(vm_list') <= MAX_VMS
    BY <1>1, <2>1, <2>3, SmanagerAssumption
  <2> QED BY <1>1, <1>5, <2>1, <2>3, <2>5, <2>6, <2>7
<1>8. CASE RemoveVm(n)
  <2> PICK k \in DOMAIN vm_list : k = find_vm(n) /\ vm_list[k].vm_number = n
    BY <1>4, <1>8 DEF RemoveVm
  <2>1. vm_list' = RemoveAt(vm_list, k) /\ known' = [known EXCEPT ![n] = None]
    BY <1>8 DEF RemoveVm, Edit
  <2>2. /\ vm_list' \in Seq(VMConfigs) /\ Len(vm_list') = Len(vm_list) - 1
        /\ \A i \in 1 .. (Len(vm_list) - 1) :
             vm_list'[i] = IF i < k THEN vm_list[i] ELSE vm_list[i + 1]
    BY <1>1, <2>1, RemoveAtFacts
  <2>3. DOMAIN vm_list' = 1 .. (Len(vm_list) - 1)
    BY <2>2, LenProperties
  <2>4. \A i \in DOMAIN vm_list' : \E j \in DOMAIN vm_list :
          vm_list'[i] = vm_list[j] /\ j # k /\ j = IF i < k THEN i ELSE i + 1
    BY <1>1, <2>2, <2>3
  <2>5. \A j \in DOMAIN vm_list : j # k =>
          \E i \in DOMAIN vm_list' : vm_list'[i] = vm_list[j]
    <3> SUFFICES ASSUME NEW j \in DOMAIN vm_list, j # k
                 PROVE  \E i \in DOMAIN vm_list' : vm_list'[i] = vm_list[j]
      OBVIOUS
    <3>1. CASE j < k
      BY <1>1, <2>2, <2>3, <3>1
    <3>2. CASE ~(j < k)
      <4>1. j - 1 \in 1 .. (Len(vm_list) - 1) /\ ~(j - 1 < k) /\ (j - 1) + 1 = j
        BY <1>1, <3>2
      <4> QED BY <2>2, <2>3, <4>1
    <3> QED BY <3>1, <3>2
  <2>6. OneEntryEach'
    <3> SUFFICES ASSUME NEW i1 \in DOMAIN vm_list', NEW i2 \in DOMAIN vm_list',
                        vm_list'[i1].vm_number = vm_list'[i2].vm_number
                 PROVE  i1 = i2
      BY DEF OneEntryEach
    <3>1. PICK j1 \in DOMAIN vm_list : vm_list'[i1] = vm_list[j1] /\ j1 = IF i1 < k THEN i1 ELSE i1 + 1
      BY <2>4
    <3>2. PICK j2 \in DOMAIN vm_list : vm_list'[i2] = vm_list[j2] /\ j2 = IF i2 < k THEN i2 ELSE i2 + 1
      BY <2>4
    <3>3. j1 = j2
      BY <3>1, <3>2 DEF OneEntryEach
    <3> QED BY <1>1, <2>3, <3>1, <3>2, <3>3
  <2>7. Agrees'
    <3>1. ASSUME NEW i \in DOMAIN vm_list'
          PROVE  known'[vm_list'[i].vm_number] = vm_list'[i].place
      <4>1. PICK j \in DOMAIN vm_list : vm_list'[i] = vm_list[j] /\ j # k
        BY <2>4
      <4>2. vm_list[j].vm_number # n
        BY <4>1 DEF OneEntryEach
      <4> QED BY <1>1, <1>2, <1>3, <2>1, <4>1, <4>2 DEF Agrees, VMConfigs
    <3>2. ASSUME NEW m \in VmNumbers, \A i \in DOMAIN vm_list' : vm_list'[i].vm_number # m
          PROVE  known'[m] = None
      <4>1. CASE m = n
        BY <1>1, <2>1, <4>1
      <4>2. CASE m # n
        <5>1. \A j \in DOMAIN vm_list : vm_list[j].vm_number # m
          BY <2>5, <3>2, <4>2
        <5> QED BY <1>1, <1>2, <2>1, <4>2, <5>1 DEF Agrees
      <4> QED BY <4>1, <4>2
    <3> QED BY <3>1, <3>2 DEF Agrees
  <2>8. known' \in [VmNumbers -> Places \cup {None}]
    BY <1>1, <2>1
  <2>9. Len(vm_list') <= MAX_VMS
    BY <1>1, <2>2, SmanagerAssumption
  <2> QED BY <1>5, <2>2, <2>6, <2>7, <2>8, <2>9
<1> QED BY <1>6, <1>7, <1>8

----------------------------------------------------------------------------
(* What a step of the proxy or of a client does to the requests. *)

Untouched(r) ==
    /\ status'[r] = status[r] /\ op'[r] = op[r] /\ result'[r] = result[r]
    /\ reply'[r] = reply[r] /\ line'[r] = line[r] /\ value'[r] = value[r]

OthersUntouched(r) == \A o \in Requests : o # r => Untouched(o)

RequestsUntouched == UNCHANGED <<status, op, result, reply, line, value>>

LEMMA UnderstandFacts ==
    ASSUME Types, NEW r \in Requests, Understand(r)
    PROVE  /\ OthersUntouched(r) /\ UNCHANGED <<table, result, reply, line, instances>>
           /\ status[r] = "called" /\ status'[r] = "understood"
           /\ op'[r] = Routes!Operation(line[r].kind, line[r].dest,
                                        IF line[r].kind = "set" THEN line[r].arg ELSE None)
BY DEF Types, Understand, Routes!Understand, OthersUntouched, Untouched, instances

(* The operation takes effect: a rule is set or taken away, or an address is *)
(* learnt from the rule of the destination.                                  *)
LEMMA ApplyFacts ==
    ASSUME Types, NEW r \in Requests, InOrder(r), Apply(r)
    PROVE  /\ OthersUntouched(r) /\ UNCHANGED <<reply, line, instances>>
           /\ status[r] = "understood" /\ status'[r] = "applied"
           /\ op' = [op EXCEPT ![r] = Routes!NoOperation]
           /\ \/ /\ \E v \in {"done", "norule"} : result'[r] = Routes!Outcome(v, None)
                 /\ \A b \in table' : \/ b \in table
                                       \/ /\ line[r].kind = "set"
                                          /\ b.dest \in AllDests /\ b.addr = line[r].arg
                                          /\ b = [dest |-> b.dest, addr |-> b.addr]
              \/ /\ table' = table /\ line[r].kind = "data"
                 /\ \E b \in table : result'[r] = Routes!Outcome("route", b.addr)
<1> USE DEF Types
<1>1. status[r] = "understood" /\ UNCHANGED <<line, instances>>
  BY DEF Apply, Routes!Set, Routes!Unset, Routes!Lookup, Routes!LookupFails, Routes!Apply
<1>2. /\ op[r].kind = line[r].kind /\ op[r].dest = line[r].dest
      /\ line[r].kind = "set" => op[r].addr = line[r].arg
  BY <1>1 DEF InOrder, Routes!Operation
<1>3. line[r].dest \in AllDests
  BY <1>1 DEF InOrder, LineOK
<1>4. ASSUME NEW out, NEW kind, Routes!Apply(r, kind, out)
      PROVE  /\ OthersUntouched(r) /\ reply' = reply /\ line[r].kind = kind
             /\ status'[r] = "applied" /\ result'[r] = out
             /\ op' = [op EXCEPT ![r] = Routes!NoOperation]
  BY <1>1, <1>2, <1>4 DEF Routes!Apply, Routes!Conclude, OthersUntouched, Untouched, instances
<1>5. CASE Routes!Set(r)
  <2>1. Routes!Apply(r, "set", Routes!Outcome("done", None))
    BY <1>5 DEF Routes!Set
  <2>2. \A b \in table' : b \in table \/ b = [dest |-> line[r].dest, addr |-> op[r].addr]
    BY <1>2, <1>5 DEF Routes!Set, Routes!Without
  <2> QED BY <1>1, <1>2, <1>3, <1>4, <2>1, <2>2
<1>6. CASE Routes!Unset(r)
  <2>1. Routes!Apply(r, "unset", Routes!Outcome("done", None))
    BY <1>6 DEF Routes!Unset
  <2>2. table' \subseteq table
    BY <1>6 DEF Routes!Unset, Routes!Without
  <2> QED BY <1>1, <1>4, <2>1, <2>2
<1>7. CASE Routes!Lookup(r)
  <2>1. PICK b \in table : Routes!Apply(r, "data", Routes!Outcome("route", b.addr))
    BY <1>7 DEF Routes!Lookup
  <2>2. table' = table
    BY <1>7 DEF Routes!Lookup
  <2> QED BY <1>1, <1>4, <2>1, <2>2
<1>8. CASE Routes!LookupFails(r)
  <2>1. Routes!Apply(r, "data", Routes!Outcome("norule", None)) /\ table' = table
    BY <1>8 DEF Routes!LookupFails
  <2> QED BY <1>1, <1>4, <2>1
<1> QED BY <1>5, <1>6, <1>7, <1>8 DEF Apply

LEMMA TellFacts ==
    ASSUME Types, NEW r \in Requests, InOrder(r), Tell(r)
    PROVE  /\ OthersUntouched(r)
           /\ UNCHANGED <<table, op, result, line, value, listening, primes, manager, daemons, history>>
           /\ status[r] = "applied" /\ status'[r] = "answered"
           /\ flight' = [flight EXCEPT ![r] = "none"]
           /\ DOMAIN reply' = Requests
           /\ IF result[r].verdict = "route"
              THEN \/ flight[r] = "back" /\ reply'[r].verdict = "answer"
                   \/ flight[r] = "lost" /\ reply'[r].verdict = "noanswer"
              ELSE reply'[r].verdict \in {"done", "norule"}
<1> USE DEF Types
<1>1. /\ status[r] = "applied" /\ status' = [status EXCEPT ![r] = "answered"]
      /\ UNCHANGED <<table, op, result, line, value, listening, primes, manager, daemons, history>>
      /\ flight' = [flight EXCEPT ![r] = "none"]
  BY DEF Tell, Routes!Answer
<1>2. \E x : reply' = [reply EXCEPT ![r] = x]
  BY DEF Tell, Routes!Answer
<1>3. OthersUntouched(r) /\ DOMAIN reply' = Requests /\ status'[r] = "answered"
  BY <1>1, <1>2 DEF OthersUntouched, Untouched
<1>4. ASSUME result[r].verdict = "route"
      PROVE  \/ flight[r] = "back" /\ reply'[r].verdict = "answer"
             \/ flight[r] = "lost" /\ reply'[r].verdict = "noanswer"
  BY <1>1, <1>4 DEF Tell, Routed
<1>5. ASSUME result[r].verdict # "route"
      PROVE  reply'[r].verdict \in {"done", "norule"}
  <2>1. reply'[r] = result[r]
    BY <1>5 DEF Tell, Routes!Answer
  <2> QED BY <1>1, <1>5, <2>1 DEF InOrder, Routes!Outcome
<1> QED BY <1>1, <1>3, <1>4, <1>5

(* A line leaves for a request that was idle; a rule is given for somebody   *)
(* who listens, and not while a command is under way.                        *)
LEMMA SendFacts ==
    ASSUME Types, SendRule \/ \E u \in Users : SendNumber(u)
    PROVE  \E r \in Requests :
             /\ OthersUntouched(r)
             /\ UNCHANGED <<table, op, result, reply, manager, daemons, instances, crashed>>
             /\ status[r] = "idle" /\ status' = [status EXCEPT ![r] = "called"]
             /\ DOMAIN line' = Requests /\ line'[r] # None /\ LineOK(line'[r])
             /\ line'[r].kind = "set" =>
                  \/ line'[r].arg \in listening /\ prompt = None
                  \/ line'[r].arg = Container
<1> USE DEF Types
<1>1. ASSUME NEW u \in Clients, NEW l, LineOK(l), Send(u, l),
             l.kind = "set" => \/ l.arg \in listening /\ prompt = None
                               \/ l.arg = Container
      PROVE  \E r \in Requests :
               /\ OthersUntouched(r)
               /\ UNCHANGED <<table, op, result, reply, manager, daemons, instances, crashed>>
               /\ status[r] = "idle" /\ status' = [status EXCEPT ![r] = "called"]
               /\ DOMAIN line' = Requests /\ line'[r] = l
  <2> DEFINE r == <<u, Cardinality(Asking(u)) + 1>>
  <2>1. Turns[u] \in Nat
    BY ServiceAssumption
  <2>2. Cardinality(Asking(u)) \in Nat
    <3>1. IsFiniteSet(1 .. Turns[u])
      BY <2>1, FS_Interval
    <3>2. Asking(u) \in SUBSET (1 .. Turns[u])
      BY DEF Asking
    <3> QED BY <3>1, <3>2, FS_Subset, FS_CardinalityType
  <2>3. r \in Requests
    BY <1>1, <2>1, <2>2 DEF Send, Requests
  <2>4. /\ Routes!Call(r) /\ status'[r] = "called" /\ line' = [line EXCEPT ![r] = l]
        /\ UNCHANGED <<manager, daemons, instances, crashed>>
    BY <1>1 DEF Send
  <2> HIDE DEF r
  <2>5. /\ status[r] = "idle" /\ status' = [status EXCEPT ![r] = "called"]
        /\ UNCHANGED <<table, op, result, reply>>
    BY <2>3, <2>4 DEF Routes!Call
  <2> QED BY <2>3, <2>4, <2>5 DEF OthersUntouched, Untouched, instances
<1>2. ASSUME NEW l, LineOK(l) PROVE l # None
  BY <1>2, ServiceAssumption DEF LineOK, ArgsOf
<1>3. CASE SendRule
  <2>1. CASE \E i \in Instances : i \in listening /\ prompt = None
                                  /\ Send(Operator, Line("set", i[2], i))
    <3> PICK i \in Instances : /\ i \in listening /\ prompt = None
                               /\ Send(Operator, Line("set", i[2], i))
      BY <2>1
    <3> DEFINE l == Line("set", i[2], i)
    <3>1. LineOK(l) /\ l.arg = i
      BY DEF Line, LineOK, ArgsOf, Addrs, Instances, AllDests
    <3> HIDE DEF l
    <3> QED BY <1>1, <1>2, <3>1 DEF Clients, l
  <2>2. CASE Send(Operator, Line("set", PrimeDest, Container))
    <3> DEFINE l == Line("set", PrimeDest, Container)
    <3>1. LineOK(l) /\ l.arg = Container
      BY DEF Line, LineOK, ArgsOf, Addrs, AllDests
    <3>2. Send(Operator, l)
      BY <2>2
    <3> HIDE DEF l
    <3> QED BY <1>1, <1>2, <3>1, <3>2 DEF Clients
  <2>3. CASE \E d \in AllDests : Send(Operator, Line("unset", d, NaN))
    <3> PICK d \in AllDests : Send(Operator, Line("unset", d, NaN))
      BY <2>3
    <3> DEFINE l == Line("unset", d, NaN)
    <3>1. LineOK(l) /\ l.kind = "unset"
      BY DEF Line, LineOK, ArgsOf
    <3>2. Send(Operator, l)
      OBVIOUS
    <3> HIDE DEF l
    <3> QED BY <1>1, <1>2, <3>1, <3>2 DEF Clients
  <2> QED BY <1>3, <2>1, <2>2, <2>3 DEF SendRule
<1>4. CASE \E u \in Users : SendNumber(u)
  <2> PICK u \in Users : \E x \in Numbers[u] : Send(u, Line("data", x.dest, x.arg))
    BY <1>4 DEF SendNumber
  <2> PICK x \in Numbers[u] : Send(u, Line("data", x.dest, x.arg))
    OBVIOUS
  <2> DEFINE l == Line("data", x.dest, x.arg)
  <2>1. LineOK(l) /\ l.kind = "data"
    BY ServiceAssumption DEF Line, LineOK, ArgsOf
  <2>2. Send(u, l)
    OBVIOUS
  <2> HIDE DEF l
  <2> QED BY <1>1, <1>2, <2>1, <2>2 DEF Clients
<1> QED BY <1>3, <1>4

----------------------------------------------------------------------------
(* Types.  What an int keeps of a number first. *)

LEMMA WrapFacts ==
    ASSUME NEW n \in Int
    PROVE  /\ Wrap(n) \in INT_MIN .. INT_MAX
           /\ n \in INT_MIN .. INT_MAX => Wrap(n) = n
<1> DEFINE N == 2 * (INT_MAX + 1)
<1>1. N \in Nat /\ N > 0 /\ INT_MIN \in Int /\ INT_MAX \in Int /\ INT_MAX = INT_MIN + N - 1
  BY ServersAssumption DEF INT_MIN
<1>2. Wrap(n) = ((n - INT_MIN) % N) + INT_MIN
  BY DEF Wrap
<1> HIDE DEF N
<1>3. (n - INT_MIN) % N \in 0 .. (N - 1)
  BY <1>1
<1>4. n \in INT_MIN .. INT_MAX => (n - INT_MIN) % N = n - INT_MIN
  BY <1>1
<1> QED BY <1>1, <1>2, <1>3, <1>4

LEMMA SquareFacts ==
    ASSUME NEW w \in Int \cup {NaN}
    PROVE  Square(w) \in INT_MIN .. INT_MAX
<1> PICK n \in Int : n = atoi(w)
  BY DEF atoi
<1>1. n * n \in Nat
  OBVIOUS
<1>2. INT_MIN <= 0 /\ INT_MIN \in Int /\ INT_MAX \in Int
  BY ServersAssumption DEF INT_MIN
<1> QED BY <1>1, <1>2, WrapFacts DEF Square

(* A number in range is packed into three indices below RADIX. *)
LEMMA Unpacked ==
    ASSUME NEW w \in Int \cup {NaN}, InRange(w)
    PROVE  /\ w \in Nat
           /\ IncomingIndex(w) \in 0 .. RADIX - 1 /\ ReturningIndex(w) \in 0 .. RADIX - 1
           /\ AdditionalVal(w) \in 0 .. RADIX - 1
<1>1. w \in Nat /\ w < RADIX * RADIX * RADIX /\ RADIX \in Nat /\ RADIX > 0
  BY ServersAssumption DEF InRange
<1>2. ASSUME NEW x \in Nat, NEW m \in Nat, NEW n \in Nat, n > 0, x < m * n
      PROVE  x \div n \in 0 .. (m - 1)
  <2> PICK y \in Int : y = x \div n
    BY <1>2
  <2>1. n * y <= x /\ x < n * y + n
    BY <1>2
  <2>2. y >= 0
    BY <1>2, <2>1
  <2>3. y < m
    <3> SUFFICES ASSUME y >= m PROVE FALSE
      OBVIOUS
    <3>1. n * y >= n * m
      BY <1>2
    <3> QED BY <1>2, <2>1, <3>1
  <2> QED BY <2>2, <2>3
<1> PICK q \in Nat : q = RADIX * RADIX /\ q > 0
  BY <1>1
<1>3. IncomingIndex(w) \in 0 .. RADIX - 1
  <2>1. w < RADIX * q
    BY <1>1
  <2> QED BY <1>1, <1>2, <2>1 DEF IncomingIndex
<1>4. ReturningIndex(w) \in 0 .. RADIX - 1
  BY <1>1 DEF ReturningIndex
<1>5. AdditionalVal(w) \in 0 .. RADIX - 1
  <2>1. w % q \in Nat /\ w % q < RADIX * RADIX
    BY <1>1
  <2> QED BY <1>1, <1>2, <2>1 DEF AdditionalVal
<1> QED BY <1>1, <1>3, <1>4, <1>5

LEMMA PrimeFacts ==
    ASSUME primes \in [0 .. RADIX - 1 -> INT_MIN .. INT_MAX], NEW w \in Int \cup {NaN}
    PROVE  /\ PrimesAfter(primes, w) \in [0 .. RADIX - 1 -> INT_MIN .. INT_MAX]
           /\ PrimeReply(primes, w) \in INT_MIN .. INT_MAX
<1>1. INT_MIN \in Int /\ INT_MAX \in Int /\ -2 \in INT_MIN .. INT_MAX /\ -1 \in INT_MIN .. INT_MAX
  BY ServersAssumption DEF INT_MIN
<1>2. PrimesAfter(primes, w) \in [0 .. RADIX - 1 -> INT_MIN .. INT_MAX]
  <2>1. CASE InRange(w)
    <3>1. IncomingIndex(w) \in 0 .. RADIX - 1 /\ AdditionalVal(w) \in Int
      BY <2>1, Unpacked
    <3>2. primes[IncomingIndex(w)] + AdditionalVal(w) \in Int
      BY <1>1, <3>1
    <3>3. Wrap(primes[IncomingIndex(w)] + AdditionalVal(w)) \in INT_MIN .. INT_MAX
      BY <3>2, WrapFacts
    <3> QED BY <2>1, <3>1, <3>3 DEF PrimesAfter
  <2> QED BY <2>1 DEF PrimesAfter
<1>3. CASE InRange(w)
  BY <1>2, <1>3, Unpacked DEF PrimeReply
<1>4. CASE ~InRange(w)
  BY <1>1, <1>2, <1>4 DEF PrimeReply, Terminate, Error
<1> QED BY <1>2, <1>3, <1>4

----------------------------------------------------------------------------
(* The manager. *)
LEMMA ManagerStep ==
    ASSUME ServiceInv, Next
    PROVE  /\ ManagerTypeOK' /\ OneEntryEach' /\ NumbersResolve'
           /\ prompt' \in Connections \cup {None}
<1>1. /\ ManagerTypeOK /\ OneEntryEach /\ NumbersResolve
      /\ prompt \in Connections \cup {None}
  BY DEF ServiceInv, Types, TypeOK
<1>2. ASSUME UNCHANGED <<vm_list, known>> PROVE ManagerTypeOK' /\ OneEntryEach' /\ NumbersResolve'
  <2>1. \A n \in VmNumbers : find_vm(n)' = find_vm(n)
    BY <1>2 DEF find_vm, SelectInSeq
  <2>2. \A n \in VmNumbers : PlaceOf(n)' = PlaceOf(n)
    BY <1>2, <2>1 DEF PlaceOf
  <2> QED BY <1>1, <1>2, <2>1, <2>2 DEF ManagerTypeOK, OneEntryEach, NumbersResolve
<1>3. CASE \E n \in VmNumbers : EditTable(n)
  BY <1>1, <1>3, TableEdited DEF EditTable
<1>4. CASE \E n \in VmNumbers, c \in Connections, cmd \in {"start", "stop"}, d \in Dests :
             Command(c, n, cmd, d)
  <2>1. UNCHANGED <<vm_list, known>> /\ prompt' \in Connections
    BY <1>4 DEF Command, SendCommand
  <2> QED BY <1>2, <2>1
<1>5. CASE Respond
  <2>1. UNCHANGED <<vm_list, known>> /\ prompt' = None
    BY <1>5 DEF Respond, ShowResponse
  <2> QED BY <1>2, <2>1
<1>6. CASE UNCHANGED manager
  BY <1>1, <1>2, <1>6 DEF manager
<1>7. CASE \/ \E c \in Connections : DaemonStep(c)
           \/ \E i \in Instances : Boot(i) \/ Listen(i) \/ Stop(i) \/ Crash(i)
           \/ \E r \in Requests : SquareNumber(r) \/ UsePrimes(r)
  <2>1. UNCHANGED manager
    BY <1>7 DEF DaemonStep, Boot, Listen, Stop, Crash, SquareNumber, UsePrimes
  <2> QED BY <1>6, <2>1
<1>8. CASE \E r \in Requests : Proxy(r)
  <2>1. UNCHANGED manager
    BY <1>8 DEF Proxy, Understand, Apply, Forward, Tell
  <2> QED BY <1>6, <2>1
<1>9. CASE SendRule \/ \E u \in Users : SendNumber(u)
  <2>1. UNCHANGED manager
    BY <1>9, SendFacts DEF ServiceInv
  <2> QED BY <1>6, <2>1
<1> QED BY <1>3, <1>4, <1>5, <1>7, <1>8, <1>9 DEF Next

(* The daemons. *)
DaemonTypes ==
    /\ sandbox \in [Machines -> [Dests -> {"none", "booting", "up", "dead"}]]
    /\ order \in [Connections -> Commands \cup {None}]
    /\ told \in [Connections -> {"none", "started", "stopped", "notfound"}]

LEMMA OrderIsCommand ==
    ASSUME DaemonTypes, NEW c \in Connections, Boxes!Pending(c)
    PROVE  order[c] \in Commands /\ order[c].vm \in Machines /\ order[c].prog \in Dests
BY DEF DaemonTypes, Boxes!Pending, Commands

LEMMA DaemonTypesStep ==
    ASSUME ServiceInv, Next
    PROVE  DaemonTypes'
<1>1. DaemonTypes
  BY DEF ServiceInv, Types, TypeOK, DaemonTypes
<1>2. ASSUME NEW m \in Machines, NEW p \in Dests, NEW s \in {"none", "booting", "up", "dead"},
             Boxes!Becomes(m, p, s)
      PROVE  sandbox' \in [Machines -> [Dests -> {"none", "booting", "up", "dead"}]]
  BY <1>1, <1>2 DEF DaemonTypes, Boxes!Becomes
<1>3. ASSUME NEW c \in Connections, NEW cmd, NEW a \in {"started", "stopped", "notfound"},
             Boxes!Answer(c, cmd, a)
      PROVE  /\ told' \in [Connections -> {"none", "started", "stopped", "notfound"}]
             /\ order' = order /\ Boxes!Pending(c)
  BY <1>1, <1>3 DEF DaemonTypes, Boxes!Answer
<1>4. CASE \E n \in VmNumbers, c \in Connections, cmd \in {"start", "stop"}, d \in Dests :
             Command(c, n, cmd, d)
  BY <1>1, <1>4 DEF Command, Boxes!Connect, DaemonTypes, Commands
<1>5. ASSUME NEW c \in Connections, DaemonStep(c) PROVE DaemonTypes'
  <2>1. CASE Boxes!Create(c)
    <3>1. Boxes!Becomes(order[c].vm, order[c].prog, "booting") /\ Boxes!Pending(c) /\ UNCHANGED <<order, told>>
      BY <2>1 DEF Boxes!Create
    <3> QED BY <1>1, <1>2, <3>1, OrderIsCommand DEF DaemonTypes
  <2>2. CASE Boxes!Started(c)
    BY <1>1, <1>3, <2>2 DEF Boxes!Started, DaemonTypes
  <2>3. CASE Boxes!Stopped(c)
    <3>1. Boxes!Becomes(order[c].vm, order[c].prog, "none") /\ Boxes!Answer(c, "stop", "stopped")
      BY <2>3 DEF Boxes!Stopped
    <3> QED BY <1>1, <1>2, <1>3, <3>1, OrderIsCommand DEF DaemonTypes
  <2>4. CASE Boxes!NotFound(c)
    BY <1>1, <1>3, <2>4 DEF Boxes!NotFound, DaemonTypes
  <2> QED BY <1>5, <2>1, <2>2, <2>3, <2>4 DEF DaemonStep
<1>6. ASSUME NEW i \in Instances, Boot(i) \/ Stop(i) \/ Crash(i) PROVE DaemonTypes'
  <2>1. i[1] \in Machines /\ i[2] \in Dests
    BY DEF Instances
  <2>2. /\ Boxes!Becomes(i[1], i[2], "up") \/ Boxes!Becomes(i[1], i[2], "dead")
        /\ UNCHANGED <<order, told>>
    BY <1>6 DEF Boot, Stop, Crash, Boxes!Boot, Boxes!End
  <2> QED BY <1>1, <1>2, <2>1, <2>2 DEF DaemonTypes
<1>7. CASE UNCHANGED daemons
  BY <1>1, <1>7 DEF daemons, DaemonTypes
<1>8. CASE \/ \E n \in VmNumbers : EditTable(n)
           \/ Respond
           \/ \E i \in Instances : Listen(i)
           \/ \E r \in Requests : SquareNumber(r) \/ UsePrimes(r) \/ Proxy(r)
  <2>1. UNCHANGED daemons
    BY <1>8 DEF EditTable, Respond, Listen, SquareNumber, UsePrimes, Proxy, Understand,
      Apply, Forward, Tell
  <2> QED BY <1>7, <2>1
<1>9. CASE SendRule \/ \E u \in Users : SendNumber(u)
  <2>1. UNCHANGED daemons
    BY <1>9, SendFacts DEF ServiceInv
  <2> QED BY <1>7, <2>1
<1> QED BY <1>4, <1>5, <1>6, <1>8, <1>9 DEF Next

(* The requests and the table. *)
RequestTypes ==
    /\ table \subseteq [dest : AllDests, addr : Addrs]
    /\ status \in [Requests -> {"idle", "called", "understood", "applied", "answered"}]
    /\ op \in [Requests -> Routes!Operations \cup {Routes!NoOperation}]
    /\ DOMAIN result = Requests /\ DOMAIN reply = Requests
    /\ DOMAIN line = Requests /\ \A r \in Requests : line[r] # None => LineOK(line[r])

LEMMA RequestTypesStep ==
    ASSUME ServiceInv, Next
    PROVE  RequestTypes'
<1>1. RequestTypes /\ Types
  BY DEF ServiceInv, Types, RequestTypes
<1>2. ASSUME UNCHANGED <<table, status, op, result, reply, line>> PROVE RequestTypes'
  BY <1>1, <1>2 DEF RequestTypes, LineOK, ArgsOf
<1>3. CASE \/ \E n \in VmNumbers : EditTable(n)
           \/ Respond
           \/ \E c \in Connections : DaemonStep(c)
           \/ \E i \in Instances : Boot(i) \/ Listen(i) \/ Stop(i) \/ Crash(i)
           \/ \E r \in Requests : SquareNumber(r) \/ UsePrimes(r) \/ Forward(r)
  <2>1. UNCHANGED <<table, status, op, result, reply, line>>
    BY <1>3 DEF EditTable, Respond, DaemonStep, Boot, Listen, Stop, Crash, SquareNumber,
      UsePrimes, Forward, routing
  <2> QED BY <1>2, <2>1
<1>4. CASE \E n \in VmNumbers, c \in Connections, cmd \in {"start", "stop"}, d \in Dests :
             Command(c, n, cmd, d)
  <2>1. UNCHANGED <<table, status, op, result, reply, line>>
    BY <1>4 DEF Command, routing
  <2> QED BY <1>2, <2>1
<1>5. ASSUME NEW r \in Requests, Understand(r) PROVE RequestTypes'
  <2>1. LineOK(line[r])
    BY <1>5 DEF ServiceInv, InOrder, Types, Understand
  <2>2. Routes!Operation(line[r].kind, line[r].dest, IF line[r].kind = "set" THEN line[r].arg ELSE None)
          \in Routes!Operations
    BY <2>1 DEF LineOK, ArgsOf, Routes!Operations, Routes!Operation
  <2>3. PICK o \in Routes!Operations : Routes!Understand(r, o)
    BY <1>5, <2>2 DEF Understand
  <2>4. UNCHANGED <<table, result, reply, line>>
    BY <1>5 DEF Understand, Routes!Understand
  <2>5. status' = [status EXCEPT ![r] = "understood"] /\ op' = [op EXCEPT ![r] = o]
    BY <2>3 DEF Routes!Understand
  <2> QED BY <1>1, <2>4, <2>5 DEF RequestTypes, LineOK, ArgsOf
<1>6. ASSUME NEW r \in Requests, Apply(r) PROVE RequestTypes'
  <2>1. InOrder(r)
    BY DEF ServiceInv
  <2>2. /\ status' = [status EXCEPT ![r] = "applied"]
        /\ DOMAIN result' = DOMAIN result
    BY <1>6 DEF Apply, Routes!Set, Routes!Unset, Routes!Lookup, Routes!LookupFails, Routes!Apply,
      Routes!Conclude
  <2>3. /\ op' = [op EXCEPT ![r] = Routes!NoOperation] /\ UNCHANGED <<reply, line>>
        /\ status[r] = "understood"
        /\ \A b \in table' : \/ b \in table
                              \/ /\ line[r].kind = "set"
                                 /\ b.dest \in AllDests /\ b.addr = line[r].arg
                                 /\ b = [dest |-> b.dest, addr |-> b.addr]
    BY <1>1, <1>6, <2>1, ApplyFacts
  <2>4. line[r].kind = "set" => line[r].arg \in Addrs
    BY <1>1, <2>1, <2>3 DEF RequestTypes, InOrder, LineOK, ArgsOf
  <2>5. table' \subseteq [dest : AllDests, addr : Addrs]
    <3> SUFFICES ASSUME NEW b \in table' PROVE b \in [dest : AllDests, addr : Addrs]
      OBVIOUS
    <3> QED BY <1>1, <2>3, <2>4 DEF RequestTypes
  <2> QED BY <1>1, <2>2, <2>3, <2>5 DEF RequestTypes, LineOK, ArgsOf
<1>7. ASSUME NEW r \in Requests, Tell(r) PROVE RequestTypes'
  <2>1. status' = [status EXCEPT ![r] = "answered"]
    BY <1>7 DEF Tell, Routes!Answer
  <2>2. UNCHANGED <<table, op, result, line>> /\ DOMAIN reply' = Requests
    BY <1>1, <1>7, TellFacts DEF ServiceInv
  <2> QED BY <1>1, <2>1, <2>2 DEF RequestTypes, LineOK, ArgsOf
<1>8. ASSUME SendRule \/ \E u \in Users : SendNumber(u) PROVE RequestTypes'
  <2>1. PICK r \in Requests :
          /\ OthersUntouched(r) /\ UNCHANGED <<table, op, result, reply>>
          /\ status' = [status EXCEPT ![r] = "called"]
          /\ DOMAIN line' = Requests /\ LineOK(line'[r])
    BY <1>1, <1>8, SendFacts
  <2>2. \A o \in Requests : o = r \/ line'[o] = line[o]
    BY <2>1 DEF OthersUntouched, Untouched
  <2>3. ASSUME NEW o \in Requests, line'[o] # None PROVE LineOK(line'[o])
    BY <1>1, <2>1, <2>2, <2>3 DEF RequestTypes
  <2> HIDE DEF LineOK
  <2>4. \A o \in Requests : line'[o] # None => LineOK(line'[o])
    BY <2>3
  <2>5. (\A o \in Requests : line[o] # None => LineOK(line[o]))'
    BY <2>4 DEF LineOK, ArgsOf
  <2> QED BY <1>1, <2>1, <2>5 DEF RequestTypes
<1> QED BY <1>3, <1>4, <1>5, <1>6, <1>7, <1>8 DEF Next, Proxy

(* The instances. *)
LEMMA RoutedFacts ==
    ASSUME Types, NEW r \in Requests, InOrder(r), Routed(r)
    PROVE  Route(r) \in Addrs /\ line[r].arg \in Int \cup {NaN}
<1>1. status[r] = "applied" /\ result[r].verdict = "route"
  BY DEF Routed
<1>2. PICK a \in Addrs : result[r] = Routes!Outcome("route", a) /\ line[r].kind = "data"
  BY <1>1 DEF InOrder, Routes!Outcome
<1>3. Route(r) = a
  BY <1>2 DEF Route, Routes!Outcome
<1>4. LineOK(line[r])
  BY <1>1 DEF Types, InOrder
<1> QED BY <1>2, <1>3, <1>4 DEF LineOK, ArgsOf

InstanceTypes ==
    /\ flight \in [Requests -> {"none", "sent", "back", "lost"}]
    /\ value \in [Requests -> (INT_MIN .. INT_MAX) \cup {NaN}]
    /\ listening \subseteq Addrs
    /\ primes \in [0 .. RADIX - 1 -> INT_MIN .. INT_MAX]

LEMMA InstanceTypesStep ==
    ASSUME ServiceInv, Next
    PROVE  InstanceTypes'
<1>1. InstanceTypes /\ Types /\ \A r \in Requests : InOrder(r)
  BY DEF ServiceInv, Types, TypeOK, InstanceTypes
<1>2. ASSUME UNCHANGED instances PROVE InstanceTypes'
  BY <1>1, <1>2 DEF instances, InstanceTypes
<1>3. ASSUME NEW r \in Requests, flight[r] = "sent" PROVE line[r].arg \in Int \cup {NaN}
  BY <1>1, <1>3, RoutedFacts DEF InOrder
<1>4. ASSUME NEW i \in Instances, Listen(i) PROVE InstanceTypes'
  BY <1>1, <1>4 DEF Listen, InstanceTypes, Addrs
<1>5. ASSUME NEW i \in Instances, Stop(i) \/ Crash(i) PROVE InstanceTypes'
  BY <1>1, <1>5 DEF Stop, Crash, Close, InstanceTypes
<1>6. ASSUME NEW r \in Requests, SquareNumber(r) PROVE InstanceTypes'
  BY <1>1, <1>3, <1>6, SquareFacts DEF SquareNumber, InstanceTypes
<1>7. ASSUME NEW r \in Requests, UsePrimes(r) PROVE InstanceTypes'
  <2>1. line[r].arg \in Int \cup {NaN}
    BY <1>3, <1>7 DEF UsePrimes
  <2>2. /\ PrimesAfter(primes, line[r].arg) \in [0 .. RADIX - 1 -> INT_MIN .. INT_MAX]
        /\ PrimeReply(primes, line[r].arg) \in INT_MIN .. INT_MAX
    BY <1>1, <2>1, PrimeFacts DEF InstanceTypes
  <2>3. listening' \subseteq listening /\ flight' \in [Requests -> {"none", "sent", "back", "lost"}]
    BY <1>1, <1>7 DEF UsePrimes, InstanceTypes
  <2>4. /\ value' = [value EXCEPT ![r] = PrimeReply(primes, line[r].arg)]
        /\ primes' = PrimesAfter(primes, line[r].arg)
    BY <1>7 DEF UsePrimes
  <2> QED BY <1>1, <2>2, <2>3, <2>4 DEF InstanceTypes
<1>8. ASSUME NEW r \in Requests, Forward(r) \/ Tell(r) PROVE InstanceTypes'
  BY <1>1, <1>8 DEF Forward, Tell, InstanceTypes
<1>9. CASE \/ \E n \in VmNumbers : EditTable(n)
           \/ Respond
           \/ \E c \in Connections : DaemonStep(c)
           \/ \E i \in Instances : Boot(i)
           \/ \E r \in Requests : Understand(r) \/ Apply(r)
  <2>1. UNCHANGED instances
    BY <1>9 DEF EditTable, Respond, DaemonStep, Boot, Understand, Apply
  <2> QED BY <1>2, <2>1
<1>10. CASE \E n \in VmNumbers, c \in Connections, cmd \in {"start", "stop"}, d \in Dests :
             Command(c, n, cmd, d)
  BY <1>2, <1>10 DEF Command
<1>11. CASE SendRule \/ \E u \in Users : SendNumber(u)
  BY <1>1, <1>2, <1>11, SendFacts
<1> QED BY <1>4, <1>5, <1>6, <1>7, <1>8, <1>9, <1>10, <1>11 DEF Next, Proxy

LEMMA TypesStep ==
    ASSUME ServiceInv, Next
    PROVE  Types'
BY ManagerStep, DaemonTypesStep, RequestTypesStep, InstanceTypesStep
DEF Types, TypeOK, DaemonTypes, RequestTypes, InstanceTypes

----------------------------------------------------------------------------
(* One request after the other. *)

LEMMA KeptInOrder ==
    ASSUME NEW r \in Requests, InOrder(r), Untouched(r),
           flight'[r] = flight[r] \/ (flight[r] = "sent" /\ flight'[r] = "lost")
    PROVE  InOrder(r)'
<1>1. /\ Routed(r)' = Routed(r) /\ Route(r)' = Route(r) /\ Answered(r)' = Answered(r)
      /\ flight'[r] = "back" => flight[r] = "back"
      /\ flight'[r] # "none" => flight[r] # "none"
  BY DEF Untouched, Routed, Route, Answered
<1> QED BY <1>1 DEF InOrder, Untouched, Routes!Operation, Routes!Outcome, Routes!Nothing

(* While r is handled, nobody loses sight of the others. *)
OthersInFlight(r) ==
    \A o \in Requests : o # r =>
        flight'[o] = flight[o] \/ (flight[o] = "sent" /\ flight'[o] = "lost")

LEMMA OthersInOrder ==
    ASSUME \A o \in Requests : InOrder(o), NEW r \in Requests, OthersUntouched(r),
           OthersInFlight(r), InOrder(r)'
    PROVE  \A o \in Requests : InOrder(o)'
BY KeptInOrder DEF OthersUntouched, OthersInFlight

LEMMA InOrderStep ==
    ASSUME ServiceInv, Next
    PROVE  \A r \in Requests : InOrder(r)'
<1>1. Types /\ \A r \in Requests : InOrder(r)
  BY DEF ServiceInv
<1>2. ASSUME RequestsUntouched, \A o \in Requests :
               flight'[o] = flight[o] \/ (flight[o] = "sent" /\ flight'[o] = "lost")
      PROVE  \A r \in Requests : InOrder(r)'
  BY <1>1, <1>2, KeptInOrder DEF RequestsUntouched, Untouched
<1>3. CASE \/ \E n \in VmNumbers : EditTable(n)
           \/ Respond
           \/ \E c \in Connections : DaemonStep(c)
           \/ \E i \in Instances : Boot(i) \/ Listen(i)
  <2>1. RequestsUntouched /\ flight' = flight
    BY <1>3 DEF EditTable, Respond, DaemonStep, Boot, Listen, routing, instances, RequestsUntouched
  <2> QED BY <1>2, <2>1
<1>4. CASE \E n \in VmNumbers, c \in Connections, cmd \in {"start", "stop"}, d \in Dests :
             Command(c, n, cmd, d)
  <2>1. RequestsUntouched /\ flight' = flight
    BY <1>4 DEF Command, routing, instances, RequestsUntouched
  <2> QED BY <1>2, <2>1
<1>5. CASE \E i \in Instances : Stop(i) \/ Crash(i)
  <2>1. RequestsUntouched /\ \A o \in Requests :
          flight'[o] = flight[o] \/ (flight[o] = "sent" /\ flight'[o] = "lost")
    BY <1>5 DEF Stop, Crash, Close, routing, RequestsUntouched
  <2> QED BY <1>2, <2>1
<1>6. ASSUME NEW r \in Requests, SquareNumber(r) \/ UsePrimes(r) \/ Forward(r)
      PROVE  \A o \in Requests : InOrder(o)'
  <2>1. OthersUntouched(r) /\ OthersInFlight(r)
    BY <1>1, <1>6 DEF SquareNumber, UsePrimes, Forward, routing, Types, TypeOK, OthersUntouched,
      Untouched, OthersInFlight
  <2>2. UNCHANGED <<status, op, result, reply, line>> /\ Routed(r)
    BY <1>1, <1>6 DEF SquareNumber, UsePrimes, Forward, routing, InOrder
  <2>3. Routed(r)' /\ Route(r)' = Route(r) /\ ~Answered(r)'
    BY <1>1, <2>2 DEF Routed, Route, Answered, InOrder, Routes!Nothing, Routes!Outcome
  <2>4. InOrder(r)'
    BY <1>1, <2>2, <2>3 DEF InOrder, Routes!Operation, Routes!Outcome, Routes!Nothing
  <2> QED BY <1>1, <2>1, <2>4, OthersInOrder
<1>7. ASSUME NEW r \in Requests, Understand(r)
      PROVE  \A o \in Requests : InOrder(o)'
  <2>1. /\ OthersUntouched(r) /\ UNCHANGED <<result, reply, line, value, flight>>
        /\ status[r] = "called" /\ status'[r] = "understood"
        /\ op'[r] = Routes!Operation(line[r].kind, line[r].dest,
                                     IF line[r].kind = "set" THEN line[r].arg ELSE None)
    BY <1>1, <1>7, UnderstandFacts DEF instances
  <2>2. flight[r] = "none" /\ ~Answered(r)
    BY <1>1, <2>1 DEF InOrder, Routed, Answered, Routes!Nothing, Routes!Outcome
  <2>3. InOrder(r)'
    BY <1>1, <2>1, <2>2 DEF InOrder, Answered, Routes!Operation, Routes!Nothing, Routes!Outcome
  <2> QED BY <1>1, <2>1, <2>3, OthersInOrder DEF OthersInFlight
<1>8. ASSUME NEW r \in Requests, Apply(r)
      PROVE  \A o \in Requests : InOrder(o)'
  <2>1. /\ OthersUntouched(r) /\ UNCHANGED <<reply, line, value, flight>>
        /\ status[r] = "understood" /\ status'[r] = "applied"
        /\ \/ \E v \in {"done", "norule"} : result'[r] = Routes!Outcome(v, None)
           \/ line[r].kind = "data" /\ \E b \in table : result'[r] = Routes!Outcome("route", b.addr)
    BY <1>1, <1>8, ApplyFacts DEF instances
  <2>2. flight[r] = "none" /\ ~Answered(r)
    BY <1>1, <2>1 DEF InOrder, Routed, Answered, Routes!Nothing, Routes!Outcome
  <2>3. \A b \in table : b.addr \in Addrs
    BY <1>1 DEF Types
  <2>4. \/ \E v \in {"done", "norule"} : result'[r] = Routes!Outcome(v, None)
        \/ line[r].kind = "data" /\ \E a \in Addrs : result'[r] = Routes!Outcome("route", a)
    BY <2>1, <2>3
  <2>5. InOrder(r)'
    BY <1>1, <2>1, <2>2, <2>4 DEF InOrder, Answered, Routes!Nothing, Routes!Outcome
  <2> QED BY <1>1, <2>1, <2>5, OthersInOrder DEF OthersInFlight
<1>9. ASSUME NEW r \in Requests, Tell(r)
      PROVE  \A o \in Requests : InOrder(o)'
  <2>1. /\ OthersUntouched(r) /\ UNCHANGED <<result, line, value>>
        /\ status[r] = "applied" /\ status'[r] = "answered"
        /\ flight' = [flight EXCEPT ![r] = "none"]
        /\ IF result[r].verdict = "route"
           THEN \/ flight[r] = "back" /\ reply'[r].verdict = "answer"
                \/ flight[r] = "lost" /\ reply'[r].verdict = "noanswer"
           ELSE reply'[r].verdict \in {"done", "norule"}
    BY <1>1, <1>9, TellFacts
  <2>2. flight'[r] = "none" /\ OthersInFlight(r)
    BY <1>1, <2>1 DEF OthersInFlight, Types, TypeOK
  <2>3. InOrder(r)'
    BY <1>1, <2>1, <2>2 DEF InOrder, Routes!Outcome, Routes!Nothing
  <2> QED BY <1>1, <2>1, <2>2, <2>3, OthersInOrder
<1>10. ASSUME SendRule \/ \E u \in Users : SendNumber(u)
       PROVE  \A o \in Requests : InOrder(o)'
  <2>1. PICK r \in Requests :
          /\ OthersUntouched(r) /\ UNCHANGED <<op, result, reply, value, flight>>
          /\ status[r] = "idle" /\ status'[r] = "called" /\ line'[r] # None
    BY <1>1, <1>10, SendFacts DEF Types, instances
  <2>2. flight[r] = "none" /\ ~Answered(r)
    BY <1>1, <2>1 DEF InOrder, Routed, Answered, Routes!Nothing, Routes!Outcome
  <2>3. InOrder(r)'
    BY <1>1, <2>1, <2>2 DEF InOrder, Answered, Routes!Nothing, Routes!Outcome
  <2> QED BY <1>1, <2>1, <2>3, OthersInOrder DEF OthersInFlight
<1> QED BY <1>3, <1>4, <1>5, <1>6, <1>7, <1>8, <1>9, <1>10 DEF Next, Proxy

----------------------------------------------------------------------------
(* Who listens. *)

(* What only a stop, a crash, a server coming up or a -1 changes. *)
LEMMA ListeningKept ==
    ASSUME ServiceInv, Next
    PROVE  \/ UNCHANGED <<listening, crashed>>
           \/ \E i \in Instances : Listen(i) \/ Stop(i) \/ Crash(i)
           \/ \E r \in Requests : UsePrimes(r)
<1>1. CASE \/ \E n \in VmNumbers : EditTable(n)
           \/ Respond
           \/ \E c \in Connections : DaemonStep(c)
           \/ \E i \in Instances : Boot(i)
  BY <1>1 DEF EditTable, Respond, DaemonStep, Boot, instances, history
<1>2. CASE \E n \in VmNumbers, c \in Connections, cmd \in {"start", "stop"}, d \in Dests :
             Command(c, n, cmd, d)
  BY <1>2 DEF Command, instances, history
<1>3. CASE \E r \in Requests : SquareNumber(r) \/ Understand(r) \/ Apply(r) \/ Forward(r) \/ Tell(r)
  BY <1>3 DEF SquareNumber, Understand, Apply, Forward, Tell, instances, history
<1>4. CASE SendRule \/ \E u \in Users : SendNumber(u)
  BY <1>4, SendFacts DEF ServiceInv, instances
<1> QED BY <1>1, <1>2, <1>3, <1>4 DEF Next, Proxy

(* An excuse stays one. *)
LEMMA ExcusedKept ==
    ASSUME ServiceInv, Next, NEW a, Excused(a)
    PROVE  Excused(a)'
<1>1. crashed \subseteq crashed' /\ (Container \in listening' => Container \in listening)
  <2>1. CASE UNCHANGED <<listening, crashed>>
    BY <2>1
  <2>2. CASE \E i \in Instances : Listen(i) \/ Stop(i) \/ Crash(i)
    BY <2>2, ServiceAssumption DEF Listen, Stop, Crash, Close, history, Instances
  <2>3. CASE \E r \in Requests : UsePrimes(r)
    BY <2>3 DEF UsePrimes, history
  <2> QED BY <2>1, <2>2, <2>3, ListeningKept
<1> QED BY <1>1 DEF Excused

(* An address ceases to be safe only where the operator stops its server. *)
LEMMA SafeKept ==
    ASSUME ServiceInv, Next, NEW a, Safe(a), \A i \in Instances : Stop(i) => a # i
    PROVE  Safe(a)'
<1>1. CASE Excused(a)
  BY <1>1, ExcusedKept DEF Safe
<1>2. CASE a \in listening
  <2>1. CASE UNCHANGED <<listening, crashed>>
    BY <1>2, <2>1 DEF Safe
  <2>2. CASE \E i \in Instances : Listen(i)
    BY <1>2, <2>2 DEF Listen, Safe
  <2>3. CASE \E i \in Instances : Stop(i)
    BY <1>2, <2>3 DEF Stop, Close, Safe
  <2>4. CASE \E i \in Instances : Crash(i)
    BY <1>2, <2>4 DEF Crash, Close, Safe, Excused
  <2>5. CASE \E r \in Requests : UsePrimes(r)
    BY <1>2, <2>5 DEF UsePrimes, Safe, Excused
  <2> QED BY <2>1, <2>2, <2>3, <2>4, <2>5, ListeningKept
<1> QED BY <1>1, <1>2 DEF Safe

(* A server that the operator stops is drained. *)
LEMMA StopDrained ==
    ASSUME ServiceInv, NEW i \in Instances, Stop(i)
    PROVE  Drained(i)
<1>1. PICK c \in Connections :
        Boxes!Pending(c) /\ order[c] = [vm |-> i[1], cmd |-> "stop", prog |-> i[2]]
  BY DEF Stop
<1>2. <<order[c].vm, order[c].prog>> = i
  BY <1>1 DEF Instances
<1>3. Drained(i) \/ Running(i) \in {"dead", "none"}
  BY <1>1, <1>2 DEF ServiceInv, StopsInTime
<1>4. Running(i) \in {"booting", "up"}
  BY DEF Stop, Boxes!End, Running
<1> QED BY <1>3, <1>4

BindingsSafe == \A b \in table : Safe(b.addr)
LineSafe(r) ==
    line[r] # None /\ line[r].kind = "set" /\ status[r] # "answered" => Safe(line[r].arg)
FlightSafe(r) ==
    /\ Routed(r) /\ flight[r] \in {"none", "sent"} => Safe(Route(r))
    /\ flight[r] = "lost" => Excused(Route(r))

LEMMA ReachableParts ==
    Reachable <=> BindingsSafe /\ \A r \in Requests : LineSafe(r) /\ FlightSafe(r)
BY DEF Reachable, BindingsSafe, LineSafe, FlightSafe

(* Nothing in use is stopped. *)
LEMMA InUseNotStopped ==
    ASSUME ServiceInv, Next, NEW a,
           \/ \E b \in table : a = b.addr
           \/ \E r \in Requests : /\ line[r] # None /\ line[r].kind = "set"
                                  /\ status[r] # "answered" /\ a = line[r].arg
           \/ \E r \in Requests : Routed(r) /\ flight[r] \in {"none", "sent"} /\ a = Route(r)
    PROVE  Safe(a)'
<1>1. Safe(a)
  BY DEF ServiceInv, Reachable
<1>2. ASSUME NEW i \in Instances, Stop(i) PROVE a # i
  BY <1>2, StopDrained DEF Drained
<1> QED BY <1>1, <1>2, SafeKept

(* A container is safe as an address: its -1 excuses it. *)
LEMMA ContainerSafe == Safe(Container)
BY DEF Safe, Excused

LEMMA BindingsSafeStep ==
    ASSUME ServiceInv, Next
    PROVE  BindingsSafe'
<1>1. Types /\ \A r \in Requests : InOrder(r)
  BY DEF ServiceInv
<1>2. ASSUME NEW b \in table PROVE Safe(b.addr)'
  BY InUseNotStopped
<1>3. CASE table' \subseteq table
  BY <1>2, <1>3 DEF BindingsSafe
<1>4. ASSUME NEW r \in Requests, Apply(r) PROVE BindingsSafe'
  <2>1. /\ status[r] = "understood"
        /\ \A b \in table' : b \in table \/ (line[r].kind = "set" /\ b.addr = line[r].arg)
    BY <1>1, <1>4, ApplyFacts
  <2>2. line[r] # None
    BY <1>1, <2>1 DEF InOrder
  <2>3. ASSUME NEW b \in table' PROVE Safe(b.addr)'
    <3>1. CASE b \in table
      BY <1>2, <3>1
    <3>2. CASE line[r].kind = "set" /\ b.addr = line[r].arg
      BY <2>1, <2>2, <3>2, InUseNotStopped
    <3> QED BY <2>1, <3>1, <3>2
  <2> QED BY <2>3 DEF BindingsSafe
<1>5. CASE \/ \E n \in VmNumbers : EditTable(n)
           \/ Respond
           \/ \E c \in Connections : DaemonStep(c)
           \/ \E i \in Instances : Boot(i) \/ Listen(i) \/ Stop(i) \/ Crash(i)
           \/ \E r \in Requests : SquareNumber(r) \/ UsePrimes(r) \/ Forward(r) \/ Understand(r)
  BY <1>3, <1>5 DEF EditTable, Respond, DaemonStep, Boot, Listen, Stop, Crash, SquareNumber,
    UsePrimes, Forward, Understand, Routes!Understand, routing
<1>6. CASE \E n \in VmNumbers, c \in Connections, cmd \in {"start", "stop"}, d \in Dests :
             Command(c, n, cmd, d)
  BY <1>3, <1>6 DEF Command, routing
<1>7. CASE SendRule \/ \E u \in Users : SendNumber(u)
  BY <1>1, <1>3, <1>7, SendFacts
<1>8. CASE \E r \in Requests : Tell(r)
  BY <1>1, <1>3, <1>8, TellFacts
<1> QED BY <1>4, <1>5, <1>6, <1>7, <1>8 DEF Next, Proxy

(* A set line that is not answered was not answered before, or is new. *)
LEMMA LinesSafeStep ==
    ASSUME ServiceInv, Next, NEW r \in Requests
    PROVE  LineSafe(r)'
<1>1. Types /\ \A o \in Requests : InOrder(o)
  BY DEF ServiceInv
<1>2. ASSUME line'[r] = line[r], status'[r] # "answered" => status[r] # "answered"
      PROVE  LineSafe(r)'
  <2> SUFFICES ASSUME NEW a, a = line'[r].arg, line'[r] # None, line'[r].kind = "set",
                      status'[r] # "answered"
               PROVE  Safe(a)'
    BY DEF LineSafe
  <2> QED BY <1>2, InUseNotStopped
<1>3. CASE UNCHANGED <<line, status>>
  BY <1>2, <1>3
<1>4. CASE \/ \E n \in VmNumbers : EditTable(n)
           \/ Respond
           \/ \E c \in Connections : DaemonStep(c)
           \/ \E i \in Instances : Boot(i) \/ Listen(i) \/ Stop(i) \/ Crash(i)
           \/ \E o \in Requests : SquareNumber(o) \/ UsePrimes(o) \/ Forward(o)
  BY <1>3, <1>4 DEF EditTable, Respond, DaemonStep, Boot, Listen, Stop, Crash, SquareNumber,
    UsePrimes, Forward, routing
<1>5. CASE \E n \in VmNumbers, c \in Connections, cmd \in {"start", "stop"}, d \in Dests :
             Command(c, n, cmd, d)
  BY <1>3, <1>5 DEF Command, routing
<1>6. ASSUME NEW o \in Requests, Proxy(o) PROVE LineSafe(r)'
  <2>1. OthersUntouched(o) /\ line' = line /\ (status[o] # "answered" \/ status'[o] = status[o])
    <3>1. CASE Understand(o)
      BY <1>1, <3>1, UnderstandFacts
    <3>2. CASE Apply(o)
      BY <1>1, <3>2, ApplyFacts
    <3>3. CASE Tell(o)
      BY <1>1, <3>3, TellFacts
    <3>4. CASE Forward(o)
      BY <3>4 DEF Forward, routing, OthersUntouched, Untouched
    <3> QED BY <1>6, <3>1, <3>2, <3>3, <3>4 DEF Proxy
  <2>2. status'[r] # "answered" => status[r] # "answered"
    BY <2>1 DEF OthersUntouched, Untouched
  <2> QED BY <1>2, <2>1, <2>2
<1>7. ASSUME SendRule \/ \E u \in Users : SendNumber(u) PROVE LineSafe(r)'
  <2>1. PICK o \in Requests :
          /\ OthersUntouched(o) /\ UNCHANGED <<listening, crashed>>
          /\ line'[o].kind = "set" =>
               \/ line'[o].arg \in listening
               \/ line'[o].arg = Container
    BY <1>1, <1>7, SendFacts DEF instances
  <2>2. CASE r = o
    <3> SUFFICES ASSUME NEW a, a = line'[o].arg, line'[o].kind = "set"
                 PROVE  Safe(a)'
      BY <2>2 DEF LineSafe
    <3>1. Safe(a)
      BY <2>1, ContainerSafe DEF Safe
    <3> QED BY <2>1, <3>1 DEF Safe, Excused
  <2>3. CASE r # o
    BY <1>2, <2>1, <2>3 DEF OthersUntouched, Untouched
  <2> QED BY <2>2, <2>3
<1> QED BY <1>4, <1>5, <1>6, <1>7 DEF Next

(* A number that is on its way, or will be, reaches somebody, or is excused. *)
LEMMA FlightKept ==
    ASSUME ServiceInv, Next, NEW r \in Requests, NEW a,
           Routed(r)' => Routed(r), a = Route(r), a = Route(r)',
           flight'[r] = flight[r] \/ (flight'[r] = "lost" /\ Excused(a)')
    PROVE  FlightSafe(r)'
<1>1. ASSUME Routed(r), flight[r] \in {"none", "sent"} PROVE Safe(a)'
  BY <1>1, InUseNotStopped
<1>2. ASSUME flight[r] = "lost" PROVE Excused(a)'
  <2>1. Excused(a)
    BY <1>2 DEF ServiceInv, Reachable
  <2> QED BY <2>1, ExcusedKept
<1>3. flight'[r] \in {"none", "sent"} => flight[r] = flight'[r]
  OBVIOUS
<1>4. Routed(r)' /\ flight'[r] \in {"none", "sent"} => Safe(a)'
  BY <1>1, <1>3
<1>5. flight'[r] = "lost" => Excused(a)'
  BY <1>2
<1> QED BY <1>4, <1>5 DEF FlightSafe, Safe, Excused, Route

LEMMA FlightSafeStep ==
    ASSUME ServiceInv, Next, NEW r \in Requests
    PROVE  FlightSafe(r)'
<1>1. Types /\ \A o \in Requests : InOrder(o)
  BY DEF ServiceInv
<1>2. ASSUME status'[r] = status[r], result'[r] = result[r], flight'[r] = flight[r]
      PROVE  FlightSafe(r)'
  <2>1. Routed(r)' = Routed(r) /\ Route(r)' = Route(r)
    BY <1>2 DEF Routed, Route
  <2> QED BY <1>2, <2>1, FlightKept
<1>3. CASE \/ \E n \in VmNumbers : EditTable(n)
           \/ Respond
           \/ \E c \in Connections : DaemonStep(c)
           \/ \E i \in Instances : Boot(i) \/ Listen(i)
  <2>1. UNCHANGED <<status, result, flight>>
    BY <1>3 DEF EditTable, Respond, DaemonStep, Boot, Listen, routing, instances
  <2> QED BY <1>2, <2>1
<1>4. CASE \E n \in VmNumbers, c \in Connections, cmd \in {"start", "stop"}, d \in Dests :
             Command(c, n, cmd, d)
  BY <1>2, <1>4 DEF Command, routing, instances
<1>5. ASSUME NEW i \in Instances, Stop(i) \/ Crash(i) PROVE FlightSafe(r)'
  <2>1. /\ UNCHANGED <<status, result>>
        /\ flight'[r] = IF flight[r] = "sent" /\ Route(r) = i THEN "lost" ELSE flight[r]
    BY <1>5 DEF Stop, Crash, Close, routing
  <2>2. Routed(r)' = Routed(r) /\ Route(r)' = Route(r)
    BY <2>1 DEF Routed, Route
  <2>3. CASE ~(flight[r] = "sent" /\ Route(r) = i)
    BY <1>2, <2>1, <2>3
  <2>4. CASE Crash(i) /\ Route(r) = i
    <3>1. Excused(i)'
      BY <2>4 DEF Crash, Excused
    <3> QED BY <2>1, <2>2, <2>4, <3>1, FlightKept
  <2>5. CASE Stop(i) /\ flight[r] = "sent" /\ Route(r) = i
    BY <1>1, <2>5, StopDrained DEF Drained, InOrder
  <2> QED BY <1>5, <2>3, <2>4, <2>5
<1>6. ASSUME NEW o \in Requests, SquareNumber(o) PROVE FlightSafe(r)'
  <2>1. flight' = [flight EXCEPT ![o] = "back"] /\ UNCHANGED <<status, result>>
    BY <1>6 DEF SquareNumber, routing
  <2>2. CASE r = o
    BY <1>1, <2>1, <2>2 DEF FlightSafe, Types, TypeOK
  <2> QED BY <1>2, <2>1, <2>2
<1>7. ASSUME NEW o \in Requests, UsePrimes(o) PROVE FlightSafe(r)'
  <2>1. UNCHANGED <<status, result>>
    BY <1>7 DEF UsePrimes, routing
  <2>2. Routed(r)' = Routed(r) /\ Route(r)' = Route(r)
    BY <2>1 DEF Routed, Route
  <2>3. \/ r = o /\ flight'[r] = "back"
        \/ r # o /\ flight'[r] = flight[r]
        \/ /\ Route(r) = Container /\ flight'[r] = "lost" /\ Container \notin listening'
    BY <1>7 DEF UsePrimes
  <2>4. CASE flight'[r] = "back"
    BY <2>4 DEF FlightSafe
  <2>5. CASE Route(r) = Container /\ flight'[r] = "lost" /\ Container \notin listening'
    <3>1. Excused(Container)'
      BY <2>5 DEF Excused
    <3> QED BY <2>2, <2>5, <3>1, FlightKept
  <2> QED BY <1>2, <2>1, <2>3, <2>4, <2>5
<1>8. ASSUME ~Routed(r)', flight'[r] = "none" PROVE FlightSafe(r)'
  BY <1>8 DEF FlightSafe
<1>9. ASSUME NEW o \in Requests, Understand(o) PROVE FlightSafe(r)'
  <2>1. OthersUntouched(o) /\ flight' = flight /\ status[o] = "called" /\ status'[o] = "understood"
    BY <1>1, <1>9, UnderstandFacts DEF instances
  <2>2. ~Routed(o)' /\ flight'[o] = "none"
    BY <1>1, <2>1 DEF Routed, InOrder
  <2> QED BY <1>2, <1>8, <2>1, <2>2 DEF OthersUntouched, Untouched
<1>10. ASSUME NEW o \in Requests, Apply(o) PROVE FlightSafe(r)'
  <2>1. /\ OthersUntouched(o) /\ flight' = flight
        /\ status[o] = "understood"
        /\ \/ \E v \in {"done", "norule"} : result'[o] = Routes!Outcome(v, None)
           \/ \E b \in table : result'[o] = Routes!Outcome("route", b.addr)
    BY <1>1, <1>10, ApplyFacts DEF instances
  <2>2. flight'[o] = "none"
    BY <1>1, <2>1 DEF Routed, InOrder
  <2>3. CASE r = o /\ \E v \in {"done", "norule"} : result'[o] = Routes!Outcome(v, None)
    BY <1>8, <2>2, <2>3 DEF Routed, Routes!Outcome
  <2>4. CASE r = o /\ \E b \in table : result'[o] = Routes!Outcome("route", b.addr)
    <3> PICK b \in table : result'[o] = Routes!Outcome("route", b.addr)
      BY <2>4
    <3>1. PICK a : a = b.addr
      OBVIOUS
    <3>2. Safe(a)'
      BY <3>1, InUseNotStopped
    <3>3. a = result'[r].addr
      BY <2>4, <3>1 DEF Routes!Outcome
    <3> QED BY <2>2, <2>4, <3>2, <3>3 DEF FlightSafe, Route, Safe, Excused
  <2> QED BY <1>2, <2>1, <2>3, <2>4 DEF OthersUntouched, Untouched
<1>11. ASSUME NEW o \in Requests, Forward(o) PROVE FlightSafe(r)'
  <2>1. /\ Routed(o) /\ flight[o] = "none" /\ UNCHANGED <<status, result, listening, crashed>>
        /\ flight' = [flight EXCEPT ![o] = IF Route(o) \in listening THEN "sent" ELSE "lost"]
    BY <1>11 DEF Forward, routing, history
  <2>2. Safe(Route(o))
    BY <2>1 DEF ServiceInv, Reachable
  <2>3. CASE r = o
    BY <1>1, <2>1, <2>2, <2>3 DEF FlightSafe, Route, Safe, Excused, Types, TypeOK
  <2> QED BY <1>2, <2>1, <2>3
<1>12. ASSUME NEW o \in Requests, Tell(o) PROVE FlightSafe(r)'
  <2>1. /\ OthersUntouched(o) /\ result' = result
        /\ status'[o] = "answered" /\ flight' = [flight EXCEPT ![o] = "none"]
    BY <1>1, <1>12, TellFacts
  <2>2. ~Routed(o)' /\ flight'[o] = "none"
    BY <1>1, <2>1 DEF Routed, Types, TypeOK
  <2> QED BY <1>2, <1>8, <2>1, <2>2 DEF OthersUntouched, Untouched
<1>13. ASSUME SendRule \/ \E u \in Users : SendNumber(u) PROVE FlightSafe(r)'
  <2>1. PICK o \in Requests :
          /\ OthersUntouched(o) /\ UNCHANGED <<result, flight>>
          /\ status[o] = "idle" /\ status' = [status EXCEPT ![o] = "called"]
    BY <1>1, <1>13, SendFacts DEF instances
  <2>2. ~Routed(o)' /\ flight'[o] = "none"
    BY <1>1, <2>1 DEF Routed, InOrder, Types
  <2> QED BY <1>2, <1>8, <2>1, <2>2 DEF OthersUntouched, Untouched
<1> QED BY <1>3, <1>4, <1>5, <1>6, <1>7, <1>9, <1>10, <1>11, <1>12, <1>13 DEF Next, Proxy

LEMMA ReachableStep ==
    ASSUME ServiceInv, Next
    PROVE  Reachable'
<1>1. BindingsSafe' /\ \A r \in Requests : LineSafe(r)' /\ FlightSafe(r)'
  BY BindingsSafeStep, LinesSafeStep, FlightSafeStep
<1>2. (Reachable <=> BindingsSafe /\ \A r \in Requests : LineSafe(r) /\ FlightSafe(r))'
  BY ReachableParts, PTL
<1> QED BY <1>1, <1>2

----------------------------------------------------------------------------
(* Stops. *)

(* A drained instance stays so while a command is under way: the rules that   *)
(* the operator gives then are for others.                                   *)
LEMMA DrainedKept ==
    ASSUME ServiceInv, Next, prompt # None, NEW i \in Instances, Drained(i)
    PROVE  Drained(i)'
<1>1. Types /\ \A o \in Requests : InOrder(o)
  BY DEF ServiceInv
<1>2. /\ \A b \in table : b.addr # i
      /\ \A r \in Requests : Routed(r) => Route(r) # i
      /\ \A r \in Requests : line[r] # None /\ line[r].kind = "set" /\ line[r].arg = i =>
                               status[r] = "answered"
  BY DEF Drained
<1>3. ASSUME NEW o \in Requests, OthersUntouched(o),
             \A b \in table' : b.addr # i,
             Routed(o)' => Route(o)' # i,
             (line'[o] # None /\ line'[o].kind = "set" /\ line'[o].arg = i) =>
                status'[o] = "answered"
      PROVE  Drained(i)'
  BY <1>2, <1>3 DEF OthersUntouched, Untouched, Routed, Route, Drained
<1>4. ASSUME UNCHANGED <<table, status, result, line>> PROVE Drained(i)'
  BY <1>2, <1>4 DEF Routed, Route, Drained
<1>5. CASE \/ \E n \in VmNumbers : EditTable(n)
           \/ Respond
           \/ \E c \in Connections : DaemonStep(c)
           \/ \E j \in Instances : Boot(j) \/ Listen(j) \/ Stop(j) \/ Crash(j)
           \/ \E o \in Requests : SquareNumber(o) \/ UsePrimes(o) \/ Forward(o)
  <2>1. UNCHANGED <<table, status, result, line>>
    BY <1>5 DEF EditTable, Respond, DaemonStep, Boot, Listen, Stop, Crash, SquareNumber,
      UsePrimes, Forward, routing
  <2> QED BY <1>4, <2>1
<1>6. CASE \E n \in VmNumbers, c \in Connections, cmd \in {"start", "stop"}, d \in Dests :
             Command(c, n, cmd, d)
  BY <1>4, <1>6 DEF Command, routing
<1>7. ASSUME NEW o \in Requests, Understand(o) PROVE Drained(i)'
  <2>1. /\ OthersUntouched(o) /\ UNCHANGED <<table, result, line>>
        /\ status[o] = "called" /\ status'[o] = "understood"
    BY <1>1, <1>7, UnderstandFacts
  <2>2. ~Routed(o)'
    BY <2>1 DEF Routed
  <2> QED BY <1>2, <1>3, <2>1, <2>2
<1>8. ASSUME NEW o \in Requests, Apply(o) PROVE Drained(i)'
  <2>1. /\ OthersUntouched(o) /\ line' = line /\ status[o] = "understood" /\ line[o] # None
    BY <1>1, <1>8, ApplyFacts DEF InOrder
  <2>2. \/ /\ \E v \in {"done", "norule"} : result'[o] = Routes!Outcome(v, None)
           /\ \A b \in table' : b \in table \/ (line[o].kind = "set" /\ b.addr = line[o].arg)
        \/ /\ table' = table
           /\ \E b \in table : result'[o] = Routes!Outcome("route", b.addr)
    BY <1>1, <1>8, ApplyFacts
  <2>3. ~(line[o].kind = "set" /\ line[o].arg = i)
    BY <1>2, <2>1
  <2>4. \A b \in table' : b.addr # i
    BY <1>2, <2>2, <2>3
  <2>5. Routed(o)' => Route(o)' # i
    <3>1. ASSUME NEW v \in {"done", "norule"}, result'[o] = Routes!Outcome(v, None)
          PROVE  ~Routed(o)'
      BY <3>1 DEF Routed, Routes!Outcome
    <3>2. ASSUME NEW b \in table, result'[o] = Routes!Outcome("route", b.addr)
          PROVE  Route(o)' # i
      BY <1>2, <3>2 DEF Route, Routes!Outcome
    <3> QED BY <2>2, <3>1, <3>2
  <2> QED BY <1>3, <2>1, <2>3, <2>4, <2>5
<1>9. ASSUME NEW o \in Requests, Tell(o) PROVE Drained(i)'
  <2>1. OthersUntouched(o) /\ UNCHANGED <<table, line>> /\ status'[o] = "answered"
    BY <1>1, <1>9, TellFacts
  <2>2. ~Routed(o)'
    BY <2>1 DEF Routed
  <2> QED BY <1>2, <1>3, <2>1, <2>2
<1>10. ASSUME SendRule \/ \E u \in Users : SendNumber(u) PROVE Drained(i)'
  <2>1. PICK o \in Requests :
          /\ OthersUntouched(o) /\ UNCHANGED <<table, result>>
          /\ status[o] = "idle" /\ status' = [status EXCEPT ![o] = "called"]
          /\ line'[o].kind = "set" => line'[o].arg = Container
    BY <1>1, <1>10, SendFacts
  <2>2. ~Routed(o)' /\ Container # i
    BY <1>1, <2>1, ServiceAssumption DEF Routed, Types, Instances
  <2> QED BY <1>2, <1>3, <2>1, <2>2
<1> QED BY <1>5, <1>6, <1>7, <1>8, <1>9, <1>10 DEF Next, Proxy

(* A command goes to the machine that the operator means. *)
LEMMA CommandFacts ==
    ASSUME ServiceInv, NEW c \in Connections, NEW n \in VmNumbers, NEW cmd, NEW d \in Dests,
           Command(c, n, cmd, d)
    PROVE  /\ prompt = None /\ prompt' = c /\ UNCHANGED <<sandbox, told, routing, line>>
           /\ order[c] = None
           /\ order' = [order EXCEPT ![c] = [vm |-> known[n], cmd |-> cmd, prog |-> d]]
           /\ LET i == <<known[n], d>> IN
              i \in Instances /\ (cmd = "stop" => Running(i) = "dead" \/ Drained(i))
<1>1. PICK m \in Machines :
        /\ SendCommand(c, n, m)
        /\ Boxes!Connect(c, [vm |-> m, cmd |-> cmd, prog |-> d])
  BY DEF Command
<1>2. known[n] = m
  BY <1>1 DEF SendCommand, ServiceInv, NumbersResolve
<1> QED BY <1>1, <1>2 DEF Command, SendCommand, Boxes!Connect, Instances

(* Whom the prompt waits for is not forgotten, and has the prompt alone. *)
LEMMA PendingKept ==
    ASSUME ServiceInv, Next, NEW c \in Connections, Boxes!Pending(c)
    PROVE  /\ prompt = c /\ prompt # None /\ prompt' = c
           /\ order' = order
           /\ ~\E n \in VmNumbers, e \in Connections, cmd \in {"start", "stop"}, d \in Dests :
                 Command(e, n, cmd, d)
<1>1. prompt = c /\ prompt # None
  BY ServiceAssumption DEF ServiceInv, StopsInTime
<1>2. ASSUME NEW n \in VmNumbers, NEW e \in Connections, NEW cmd \in {"start", "stop"},
             NEW d \in Dests
      PROVE  ~Command(e, n, cmd, d)
  BY <1>1, CommandFacts
<1>3. ASSUME NEW n \in VmNumbers, EditTable(n) PROVE FALSE
  BY <1>1, <1>3 DEF EditTable, RemoveVm, UpdateVm, AddVm, Edit
<1>4. ~Respond
  BY <1>1 DEF Respond, Boxes!Pending
<1>5. CASE \/ \E e \in Connections : DaemonStep(e)
           \/ \E j \in Instances : Boot(j) \/ Listen(j) \/ Stop(j) \/ Crash(j)
           \/ \E o \in Requests : SquareNumber(o) \/ UsePrimes(o) \/ Proxy(o)
  <2>1. prompt' = prompt
    BY <1>5 DEF DaemonStep, Boot, Listen, Stop, Crash, SquareNumber, UsePrimes, Proxy,
      Understand, Apply, Forward, Tell, manager
  <2>2. order' = order
    BY <1>5 DEF DaemonStep, Boxes!Create, Boxes!Started, Boxes!Stopped, Boxes!NotFound,
      Boxes!Answer, Boot, Boxes!Boot, Listen, Stop, Crash, Boxes!End, SquareNumber, UsePrimes,
      Proxy, Understand, Apply, Forward, Tell, daemons
  <2> QED BY <1>1, <1>2, <2>1, <2>2
<1>6. CASE SendRule \/ \E u \in Users : SendNumber(u)
  <2>1. UNCHANGED <<manager, daemons>>
    BY <1>6, SendFacts DEF ServiceInv
  <2> QED BY <1>1, <1>2, <2>1 DEF manager, daemons
<1> QED BY <1>2, <1>3, <1>4, <1>5, <1>6 DEF Next

LEMMA StopsInTimeStep ==
    ASSUME ServiceInv, Next
    PROVE  StopsInTime'
<1>1. DaemonTypes /\ Types
  BY DEF ServiceInv, Types, TypeOK, DaemonTypes
<1> DEFINE Target(q) == <<q.vm, q.prog>>
           Ended(i) == Running(i) \in {"dead", "none"}
<1>2. ASSUME NEW c \in Connections, Boxes!Pending(c), order[c].cmd = "stop",
             NEW i \in Instances, i = Target(order[c])
      PROVE  Drained(i)' \/ Ended(i)'
  <2>1. prompt = c /\ prompt # None
    BY <1>2, PendingKept
  <2>2. i[1] = order[c].vm /\ i[2] = order[c].prog
    BY <1>2
  <2>3. CASE Drained(i)
    BY <2>1, <2>3, DrainedKept
  <2>4. CASE Ended(i)
    <3>1. ASSUME NEW m \in Machines, NEW p \in Dests, NEW s,
                 Boxes!Becomes(m, p, s), <<m, p>> # i \/ s \in {"dead", "none"}
          PROVE  Ended(i)'
      <4>1. sandbox'[i[1]][i[2]] = IF <<m, p>> = i THEN s ELSE sandbox[i[1]][i[2]]
        BY <1>1, <3>1 DEF Boxes!Becomes, DaemonTypes, Instances
      <4> QED BY <2>4, <3>1, <4>1 DEF Running
    <3>2. ASSUME UNCHANGED sandbox PROVE Ended(i)'
      BY <2>4, <3>2 DEF Running
    <3>3. ASSUME NEW e \in Connections, DaemonStep(e) PROVE Ended(i)'
      <4>1. CASE Boxes!Pending(e) /\ e # c
        BY <2>1, <4>1, PendingKept
      <4>2. CASE Boxes!Create(e)
        <5>1. Boxes!Pending(e) /\ order[e].cmd = "start"
          BY <4>2 DEF Boxes!Create
        <5> QED BY <1>2, <4>1, <5>1
      <4>3. CASE Boxes!Stopped(e)
        <5>1. Boxes!Pending(e) /\ Boxes!Becomes(order[e].vm, order[e].prog, "none")
          BY <4>3 DEF Boxes!Stopped, Boxes!Answer
        <5> QED BY <1>1, <3>1, <5>1, OrderIsCommand
      <4>4. CASE Boxes!Started(e) \/ Boxes!NotFound(e)
        <5>1. UNCHANGED sandbox
          BY <4>4 DEF Boxes!Started, Boxes!NotFound
        <5> QED BY <3>2, <5>1
      <4> QED BY <3>3, <4>2, <4>3, <4>4 DEF DaemonStep
    <3>4. ASSUME NEW j \in Instances, Boot(j) \/ Stop(j) \/ Crash(j) PROVE Ended(i)'
      <4>1. j[1] \in Machines /\ j[2] \in Dests /\ <<j[1], j[2]>> = j
        BY DEF Instances
      <4>2. \/ Boxes!Becomes(j[1], j[2], "dead")
            \/ Boxes!Becomes(j[1], j[2], "up") /\ Running(j) = "booting"
        BY <3>4 DEF Boot, Stop, Crash, Boxes!Boot, Boxes!End, Boxes!Is, Running
      <4> QED BY <2>4, <3>1, <4>1, <4>2
    <3>5. CASE \/ \E n \in VmNumbers : EditTable(n)
               \/ Respond
               \/ \E j \in Instances : Listen(j)
               \/ \E r \in Requests : SquareNumber(r) \/ UsePrimes(r) \/ Proxy(r)
      BY <3>2, <3>5 DEF EditTable, Respond, Listen, SquareNumber, UsePrimes, Proxy, Understand,
        Apply, Forward, Tell, daemons
    <3>6. CASE SendRule \/ \E u \in Users : SendNumber(u)
      BY <1>1, <3>2, <3>6, SendFacts DEF daemons
    <3> QED BY <1>2, <3>3, <3>4, <3>5, <3>6, PendingKept DEF Next
  <2>5. Drained(i) \/ Ended(i)
    BY <1>2 DEF ServiceInv, StopsInTime
  <2> QED BY <2>3, <2>4, <2>5
<1>3. ASSUME NEW c \in Connections, Boxes!Pending(c)', ~Boxes!Pending(c)
      PROVE  /\ prompt' = c
             /\ order'[c].cmd = "stop" =>
                  \E i \in Instances : i = Target(order'[c]) /\ (Drained(i)' \/ Ended(i)')
  <2>1. PICK n \in VmNumbers, e \in Connections, cmd \in {"start", "stop"}, d \in Dests :
          Command(e, n, cmd, d)
    <3>1. CASE \E e \in Connections : DaemonStep(e)
      BY <1>1, <1>3, <3>1 DEF DaemonStep, Boxes!Create, Boxes!Started, Boxes!Stopped,
        Boxes!NotFound, Boxes!Answer, Boxes!Pending, DaemonTypes
    <3>2. CASE \/ \E n \in VmNumbers : EditTable(n)
               \/ Respond
               \/ \E j \in Instances : Boot(j) \/ Listen(j) \/ Stop(j) \/ Crash(j)
               \/ \E r \in Requests : SquareNumber(r) \/ UsePrimes(r) \/ Proxy(r)
      <4>1. UNCHANGED <<order, told>>
        BY <3>2 DEF EditTable, Respond, Boot, Boxes!Boot, Listen, Stop, Crash, Boxes!End,
          SquareNumber, UsePrimes, Proxy, Understand, Apply, Forward, Tell, daemons
      <4> QED BY <1>3, <4>1 DEF Boxes!Pending
    <3>3. CASE SendRule \/ \E u \in Users : SendNumber(u)
      BY <1>1, <1>3, <3>3, SendFacts DEF daemons, Boxes!Pending
    <3> QED BY <3>1, <3>2, <3>3 DEF Next
  <2> DEFINE q == [vm |-> known[n], cmd |-> cmd, prog |-> d]
  <2>2. /\ prompt' = e /\ UNCHANGED <<sandbox, told, routing, line>>
        /\ order' = [order EXCEPT ![e] = q]
        /\ <<known[n], d>> \in Instances
        /\ cmd = "stop" => Running(<<known[n], d>>) = "dead" \/ Drained(<<known[n], d>>)
    BY <2>1, CommandFacts
  <2>3. e = c
    BY <1>3, <2>2 DEF Boxes!Pending
  <2>4. order'[c] = q
    BY <1>1, <2>2, <2>3 DEF DaemonTypes
  <2>5. ASSUME NEW i, Drained(i) \/ Ended(i) PROVE Drained(i)' \/ Ended(i)'
    BY <2>2, <2>5 DEF Drained, Running, Routed, Route, routing
  <2>6. q.cmd = cmd /\ Target(q) = <<known[n], d>>
    OBVIOUS
  <2> HIDE DEF q
  <2>7. PICK i \in Instances : i = <<known[n], d>>
    BY <2>2
  <2>8. cmd = "stop" => Drained(i)' \/ Ended(i)'
    BY <2>2, <2>5, <2>7
  <2> QED BY <2>2, <2>3, <2>4, <2>6, <2>7, <2>8
<1>4. ASSUME NEW c \in Connections, Boxes!Pending(c)', Boxes!Pending(c)
      PROVE  /\ prompt' = c
             /\ order'[c].cmd = "stop" =>
                  \E i \in Instances : i = Target(order'[c]) /\ (Drained(i)' \/ Ended(i)')
  <2>1. order' = order /\ prompt' = c
    BY <1>4, PendingKept
  <2>2. PICK i \in Instances : i = Target(order[c])
    BY <1>1, <1>4, OrderIsCommand DEF Instances
  <2> QED BY <1>2, <1>4, <2>1, <2>2
<1>5. ASSUME NEW c \in Connections, Boxes!Pending(c)'
      PROVE  /\ prompt' = c
             /\ order'[c].cmd = "stop" =>
                  \E i \in Instances : i = Target(order'[c]) /\ (Drained(i)' \/ Ended(i)')
  BY <1>3, <1>4, <1>5
<1> QED BY <1>5 DEF StopsInTime, Drained, Running, Routed, Route

----------------------------------------------------------------------------
(* The move that nobody notices. *)

(* Only the end of a request tells its client anything; and it tells of a     *)
(* failure only where the number was lost.                                    *)
LEMMA UninterruptedStep ==
    ASSUME ServiceInv, Next
    PROVE  Uninterrupted'
<1>1. Types /\ (\A o \in Requests : InOrder(o)) /\ Uninterrupted
  BY DEF ServiceInv
<1>2. ASSUME NEW r \in Requests, reply'[r].verdict \in Routes!Failures,
             reply'[r] = reply[r], result'[r] = result[r] \/ status[r] # "answered"
      PROVE  Excused(Route(r))'
  <2>1. reply[r] # Routes!Nothing
    BY <1>2 DEF Routes!Failures, Routes!Nothing, Routes!Outcome
  <2>2. PICK a : a = Route(r)
    OBVIOUS
  <2>3. result'[r] = result[r]
    BY <1>1, <1>2, <2>1 DEF InOrder
  <2>4. Excused(a)
    BY <1>1, <1>2, <2>2 DEF Uninterrupted
  <2>5. Excused(a)'
    BY <2>4, ExcusedKept
  <2> QED BY <2>2, <2>3, <2>5 DEF Route, Excused
<1>3. ASSUME NEW o \in Requests, OthersUntouched(o),
             reply'[o].verdict \in Routes!Failures => Excused(Route(o))'
      PROVE  Uninterrupted'
  <2>1. ASSUME NEW r \in Requests, reply'[r].verdict \in Routes!Failures
        PROVE  Excused(Route(r))'
    BY <1>2, <1>3, <2>1 DEF OthersUntouched, Untouched
  <2> QED BY <2>1 DEF Uninterrupted, Routes!Failures
<1>4. ASSUME UNCHANGED <<reply, result>> PROVE Uninterrupted'
  BY <1>2, <1>4 DEF Uninterrupted, Routes!Failures
<1>5. CASE \/ \E n \in VmNumbers : EditTable(n)
           \/ Respond
           \/ \E c \in Connections : DaemonStep(c)
           \/ \E j \in Instances : Boot(j) \/ Listen(j) \/ Stop(j) \/ Crash(j)
           \/ \E o \in Requests : SquareNumber(o) \/ UsePrimes(o) \/ Forward(o)
  <2>1. UNCHANGED <<reply, result>>
    BY <1>5 DEF EditTable, Respond, DaemonStep, Boot, Listen, Stop, Crash, SquareNumber,
      UsePrimes, Forward, routing
  <2> QED BY <1>4, <2>1
<1>6. CASE \E n \in VmNumbers, c \in Connections, cmd \in {"start", "stop"}, d \in Dests :
             Command(c, n, cmd, d)
  BY <1>4, <1>6 DEF Command, routing
<1>7. ASSUME NEW o \in Requests, Understand(o) PROVE Uninterrupted'
  BY <1>1, <1>4, <1>7, UnderstandFacts
<1>8. ASSUME NEW o \in Requests, Apply(o) PROVE Uninterrupted'
  <2>1. OthersUntouched(o) /\ reply' = reply /\ status[o] = "understood"
    BY <1>1, <1>8, ApplyFacts
  <2> QED BY <1>2, <1>3, <2>1
<1>9. ASSUME NEW o \in Requests, Tell(o) PROVE Uninterrupted'
  <2>1. /\ OthersUntouched(o) /\ result' = result
        /\ IF result[o].verdict = "route"
           THEN \/ flight[o] = "back" /\ reply'[o].verdict = "answer"
                \/ flight[o] = "lost" /\ reply'[o].verdict = "noanswer"
           ELSE reply'[o].verdict \in {"done", "norule"}
    BY <1>1, <1>9, TellFacts
  <2>2. CASE flight[o] = "lost"
    <3>1. PICK a : a = Route(o)
      OBVIOUS
    <3>2. Excused(a)
      BY <2>2, <3>1 DEF ServiceInv, Reachable
    <3>3. Excused(a)'
      BY <3>2, ExcusedKept
    <3>4. Excused(Route(o))'
      BY <2>1, <3>1, <3>3 DEF Excused, Route
    <3> QED BY <1>3, <2>1, <3>4
  <2>3. CASE flight[o] # "lost"
    <3>1. reply'[o].verdict \notin Routes!Failures
      BY <2>1, <2>3 DEF Routes!Failures
    <3> QED BY <1>3, <2>1, <3>1
  <2> QED BY <2>2, <2>3
<1>10. ASSUME SendRule \/ \E u \in Users : SendNumber(u) PROVE Uninterrupted'
  BY <1>1, <1>4, <1>10, SendFacts
<1> QED BY <1>5, <1>6, <1>7, <1>8, <1>9, <1>10 DEF Next, Proxy

----------------------------------------------------------------------------
(* The invariant. *)

LEMMA InitInv == Init => ServiceInv
<1> SUFFICES ASSUME Init PROVE ServiceInv
  OBVIOUS
<1>1. vm_list = <<>> /\ vm_list \in Seq(VMConfigs) /\ Len(vm_list) = 0 /\ DOMAIN vm_list = {}
  BY DEF Init, ManagerInit
<1>2. OneEntryEach
  BY <1>1 DEF OneEntryEach
<1>3. NumbersResolve
  <2>1. \A n : find_vm(n) = 0
    BY <1>1, <1>2, FindVmFacts
  <2> QED BY <2>1 DEF NumbersResolve, Init, ManagerInit
<1>4. ManagerTypeOK /\ prompt = None
  BY <1>1, SmanagerAssumption DEF ManagerTypeOK, Init, ManagerInit
<1>5. DaemonTypes
  BY DEF DaemonTypes, Init, Boxes!Init
<1>6. RequestTypes
  BY DEF RequestTypes, Init, Routes!Init
<1>7. InstanceTypes
  <2>1. primes \in [0 .. RADIX - 1 -> INT_MIN .. INT_MAX]
    BY ServersAssumption DEF Init, INT_MIN
  <2> QED BY <2>1 DEF InstanceTypes, Init, Addrs
<1>8. Types
  BY <1>4, <1>5, <1>6, <1>7 DEF Types, TypeOK, DaemonTypes, RequestTypes, InstanceTypes
<1>9. \A r \in Requests : InOrder(r)
  BY DEF Init, Routes!Init, InOrder, Answered, Routes!Nothing, Routes!Outcome
<1>10. Reachable
  BY DEF Init, Routes!Init, Reachable, Routed
<1>11. StopsInTime
  BY DEF Init, Boxes!Init, StopsInTime, Boxes!Pending
<1>12. Uninterrupted
  BY DEF Init, Routes!Init, Uninterrupted, Routes!Nothing, Routes!Outcome, Routes!Failures
<1> QED BY <1>2, <1>3, <1>8, <1>9, <1>10, <1>11, <1>12 DEF ServiceInv

LEMMA StutterInv == ServiceInv /\ UNCHANGED vars => ServiceInv'
<1> SUFFICES ASSUME ServiceInv, UNCHANGED vars PROVE ServiceInv'
  OBVIOUS
<1>1. /\ UNCHANGED <<vm_list, prompt, known, sandbox, order, told>>
      /\ UNCHANGED <<table, status, op, result, reply, line, flight, value>>
      /\ UNCHANGED <<listening, primes, crashed, subject>>
  BY DEF vars, manager, daemons, routing, instances, history
<1>2. Types'
  BY <1>1 DEF ServiceInv, Types, TypeOK, ManagerTypeOK, LineOK, ArgsOf
<1>3. OneEntryEach' /\ NumbersResolve'
  <2>1. \A n \in VmNumbers : find_vm(n)' = find_vm(n)
    BY <1>1 DEF find_vm, SelectInSeq
  <2>2. \A n \in VmNumbers : PlaceOf(n)' = PlaceOf(n)
    BY <1>1, <2>1 DEF PlaceOf
  <2> QED BY <1>1, <2>1, <2>2 DEF ServiceInv, OneEntryEach, NumbersResolve
<1>4. \A r \in Requests : InOrder(r)'
  BY <1>1, KeptInOrder DEF ServiceInv, Untouched
<1>5. Reachable'
  BY <1>1 DEF ServiceInv, Reachable, Safe, Excused, Routed, Route
<1>6. StopsInTime'
  BY <1>1 DEF ServiceInv, StopsInTime, Boxes!Pending, Drained, Running, Routed, Route
<1>7. Uninterrupted'
  BY <1>1 DEF ServiceInv, Uninterrupted, Excused, Route
<1> QED BY <1>2, <1>3, <1>4, <1>5, <1>6, <1>7 DEF ServiceInv

(* The invariant of the whole system: a rule that is in the table, given or   *)
(* looked up is for an instance that listens, and only what is drained is     *)
(* being stopped (sdn.c:274-343, smanager.c:125-179, sdeamon.c:195-227).      *)
THEOREM InductiveInvariant == Spec => []ServiceInv
<1>1. ServiceInv /\ [Next]_vars => ServiceInv'
  <2>1. ASSUME ServiceInv, Next PROVE ServiceInv'
    BY <2>1, TypesStep, ManagerStep, InOrderStep, ReachableStep, StopsInTimeStep,
      UninterruptedStep DEF ServiceInv
  <2> QED BY <2>1, StutterInv
<1> QED BY <1>1, InitInv, PTL DEF Spec

(* Every variable keeps its type, and the prompt's table its bound: a square  *)
(* and a prime are what an int keeps (smanager.c:8, server.c:57).             *)
THEOREM TypeCorrect == Spec => []TypeOK
<1>1. ServiceInv => TypeOK
  BY DEF ServiceInv, Types
<1> QED BY <1>1, InductiveInvariant, PTL

(* The prompt's table is the map of the operator's commands, for any number   *)
(* of machines and any edits (smanager.c:81-123, 126-146).                    *)
THEOREM TableIsTheOperatorsMap == Spec => []NumbersResolve
<1>1. ServiceInv => NumbersResolve
  BY DEF ServiceInv
<1> QED BY <1>1, InductiveInvariant, PTL

(* A server moves and no client notices: no routed request fails unless the   *)
(* instance died on its own or a client ended the prime server.               *)
THEOREM MovesGoUnnoticed == Spec => []Uninterrupted
<1>1. ServiceInv => Uninterrupted
  BY DEF ServiceInv
<1> QED BY <1>1, InductiveInvariant, PTL

----------------------------------------------------------------------------
(* The primes. *)

(* Where an answer comes from: the prime server just gave it, or it was on    *)
(* its way or told before.                                                    *)
AnswerInHand(r) == flight[r] = "back" \/ Answered(r)

LEMMA AnswersStay ==
    ASSUME ServiceInv, Next, NEW r \in Requests, AnswerInHand(r)', ~UsePrimes(r), ~SquareNumber(r)
    PROVE  /\ AnswerInHand(r) /\ Route(r)' = Route(r)
           /\ value'[r] = value[r] /\ line'[r] = line[r]
<1>1. Types /\ InOrder(r) /\ \A o \in Requests : InOrder(o)
  BY DEF ServiceInv
<1>2. ASSUME Untouched(r), flight'[r] = flight[r] \/ (flight[r] = "sent" /\ flight'[r] = "lost")
      PROVE  /\ AnswerInHand(r) /\ Route(r)' = Route(r)
             /\ value'[r] = value[r] /\ line'[r] = line[r]
  BY <1>2 DEF Untouched, AnswerInHand, Answered, Route
<1>3. CASE \/ \E n \in VmNumbers : EditTable(n)
           \/ Respond
           \/ \E c \in Connections : DaemonStep(c)
           \/ \E i \in Instances : Boot(i) \/ Listen(i)
  <2>1. RequestsUntouched /\ flight' = flight
    BY <1>3 DEF EditTable, Respond, DaemonStep, Boot, Listen, routing, instances, RequestsUntouched
  <2> QED BY <1>2, <2>1 DEF RequestsUntouched, Untouched
<1>4. CASE \E n \in VmNumbers, c \in Connections, cmd \in {"start", "stop"}, d \in Dests :
             Command(c, n, cmd, d)
  <2>1. RequestsUntouched /\ flight' = flight
    BY <1>4 DEF Command, routing, instances, RequestsUntouched
  <2> QED BY <1>2, <2>1 DEF RequestsUntouched, Untouched
<1>5. CASE \E i \in Instances : Stop(i) \/ Crash(i)
  <2>1. RequestsUntouched /\ \A o \in Requests :
          flight'[o] = flight[o] \/ (flight[o] = "sent" /\ flight'[o] = "lost")
    BY <1>5 DEF Stop, Crash, Close, routing, RequestsUntouched
  <2> QED BY <1>2, <2>1 DEF RequestsUntouched, Untouched
<1>6. ASSUME NEW o \in Requests, SquareNumber(o) \/ UsePrimes(o) \/ Forward(o), o # r
      PROVE  AnswerInHand(r) /\ Route(r)' = Route(r) /\ value'[r] = value[r] /\ line'[r] = line[r]
  <2>1. Untouched(r) /\ (flight'[r] = flight[r] \/ (flight[r] = "sent" /\ flight'[r] = "lost"))
    BY <1>1, <1>6 DEF SquareNumber, UsePrimes, Forward, routing, Types, TypeOK, Untouched
  <2> QED BY <1>2, <2>1
<1>7. ~Forward(r)
  <2> SUFFICES ASSUME Forward(r) PROVE FALSE
    OBVIOUS
  <2>1. ~Answered(r) /\ reply' = reply
    BY <1>1 DEF Forward, Routed, routing, Answered, InOrder, Routes!Nothing, Routes!Outcome
  <2>2. flight'[r] # "back"
    BY <1>1 DEF Forward, Types, TypeOK
  <2> QED BY <2>1, <2>2 DEF AnswerInHand, Answered
<1>8. ASSUME NEW o \in Requests, Understand(o) \/ Apply(o)
      PROVE  AnswerInHand(r) /\ Route(r)' = Route(r) /\ value'[r] = value[r] /\ line'[r] = line[r]
  <2>1. /\ OthersUntouched(o) /\ UNCHANGED <<reply, line, value, flight>>
        /\ status[o] \in {"called", "understood"}
    BY <1>1, <1>8, UnderstandFacts, ApplyFacts DEF instances
  <2>2. flight[o] # "back" /\ ~Answered(o)
    BY <1>1, <2>1 DEF InOrder, Routed, Answered, Routes!Nothing, Routes!Outcome
  <2>3. o # r
    BY <2>1, <2>2 DEF AnswerInHand, Answered
  <2> QED BY <1>2, <2>1, <2>3 DEF OthersUntouched
<1>9. ASSUME NEW o \in Requests, Tell(o)
      PROVE  AnswerInHand(r) /\ Route(r)' = Route(r) /\ value'[r] = value[r] /\ line'[r] = line[r]
  <2>1. /\ OthersUntouched(o) /\ UNCHANGED <<result, line, value>>
        /\ flight' = [flight EXCEPT ![o] = "none"]
        /\ IF result[o].verdict = "route"
           THEN \/ flight[o] = "back" /\ reply'[o].verdict = "answer"
                \/ flight[o] = "lost" /\ reply'[o].verdict = "noanswer"
           ELSE reply'[o].verdict \in {"done", "norule"}
    BY <1>1, <1>9, TellFacts
  <2>2. CASE o = r
    <3>1. flight'[r] = "none"
      BY <1>1, <2>1, <2>2 DEF Types, TypeOK
    <3>2. flight[r] = "back"
      BY <2>1, <2>2, <3>1 DEF AnswerInHand, Answered
    <3> QED BY <2>1, <3>2 DEF AnswerInHand, Route
  <2>3. CASE o # r
    <3>1. Untouched(r) /\ flight'[r] = flight[r]
      BY <1>1, <2>1, <2>3 DEF OthersUntouched, Types, TypeOK
    <3> QED BY <1>2, <3>1
  <2> QED BY <2>2, <2>3
<1>10. CASE SendRule \/ \E u \in Users : SendNumber(u)
  <2>1. PICK o \in Requests :
          /\ OthersUntouched(o) /\ UNCHANGED <<op, result, reply, value, flight>>
          /\ status[o] = "idle"
    BY <1>1, <1>10, SendFacts DEF Types, instances
  <2>2. flight[o] # "back" /\ ~Answered(o)
    BY <1>1, <2>1 DEF InOrder, Routed, Answered, Routes!Nothing, Routes!Outcome
  <2>3. o # r
    BY <2>1, <2>2 DEF AnswerInHand, Answered
  <2> QED BY <1>2, <2>1, <2>3 DEF OthersUntouched
<1> QED BY <1>3, <1>4, <1>5, <1>6, <1>7, <1>8, <1>9, <1>10 DEF Next, Proxy

(* Only the prime server writes its array. *)
LEMMA PrimesStay ==
    ASSUME ServiceInv, Next, \A r \in Requests : ~UsePrimes(r)
    PROVE  primes' = primes
<1>1. Types /\ \A r \in Requests : InOrder(r)
  BY DEF ServiceInv
<1>2. ASSUME SendRule \/ \E u \in Users : SendNumber(u) PROVE primes' = primes
  BY <1>1, <1>2, SendFacts DEF instances
<1>3. ASSUME NEW r \in Requests, SquareNumber(r) \/ Proxy(r) PROVE primes' = primes
  BY <1>3 DEF SquareNumber, Proxy, Understand, Apply, Forward, Tell, instances
<1>4. ASSUME NEW i \in Instances, Boot(i) \/ Listen(i) \/ Stop(i) \/ Crash(i)
      PROVE  primes' = primes
  BY <1>4 DEF Boot, Listen, Stop, Crash, instances
<1>5. CASE \/ Respond \/ \E c \in Connections : DaemonStep(c)
           \/ \E n \in VmNumbers :
                \/ EditTable(n)
                \/ \E c \in Connections, cmd \in {"start", "stop"}, d \in Dests : Command(c, n, cmd, d)
  BY <1>5 DEF Respond, DaemonStep, EditTable, Command, instances
<1> QED BY <1>2, <1>3, <1>4, <1>5 DEF Next

(* With room in the int, a datagram adds to one prime and is answered with    *)
(* one of the array.                                                          *)
LEMMA PrimesGrow ==
    ASSUME Types, PrimesTold, RoomToGrow, NEW w \in Int \cup {NaN}
    PROVE  /\ DOMAIN PrimesAfter(primes, w) = DOMAIN primes
           /\ \A k \in DOMAIN primes : PrimesAfter(primes, w)[k] >= primes[k]
           /\ InRange(w) => PrimeReply(primes, w) = PrimesAfter(primes, w)[ReturningIndex(w)]
           /\ ~InRange(w) => PrimeReply(primes, w) \in {Terminate, Error}
<1>1. primes \in [0 .. RADIX - 1 -> INT_MIN .. INT_MAX]
  BY DEF Types, TypeOK
<1>2. INT_MIN \in Int /\ INT_MAX \in Int /\ INT_MIN <= 0 /\ RADIX \in Int
  BY ServersAssumption DEF INT_MIN
<1>3. ASSUME InRange(w) PROVE \A k \in DOMAIN primes : PrimesAfter(primes, w)[k] >= primes[k]
  <2> DEFINE i == IncomingIndex(w)
             n == primes[i] + AdditionalVal(w)
  <2>1. i \in 0 .. RADIX - 1 /\ AdditionalVal(w) \in 0 .. RADIX - 1
    BY <1>3, Unpacked
  <2>2. primes[i] >= 0 /\ primes[i] + (RADIX - 1) <= INT_MAX /\ primes[i] \in Int
    BY <1>1, <1>2, <2>1 DEF PrimesTold, RoomToGrow
  <2>3. n \in INT_MIN .. INT_MAX /\ n >= primes[i]
    BY <1>2, <2>1, <2>2
  <2>4. PrimesAfter(primes, w) = [primes EXCEPT ![i] = Wrap(n)]
    BY <1>3 DEF PrimesAfter
  <2>5. Wrap(n) = n
    BY <1>2, <2>3, WrapFacts
  <2> HIDE DEF i, n
  <2> QED BY <1>1, <1>2, <2>3, <2>4, <2>5
<1>4. ASSUME ~InRange(w) PROVE \A k \in DOMAIN primes : PrimesAfter(primes, w)[k] >= primes[k]
  BY <1>1, <1>2, <1>4 DEF PrimesAfter
<1>5. DOMAIN PrimesAfter(primes, w) = DOMAIN primes
  BY DEF PrimesAfter
<1> QED BY <1>3, <1>4, <1>5 DEF PrimeReply

LEMMA ToldNumbers ==
    ASSUME Types, NEW r \in Requests, InOrder(r), AnswerInHand(r), Route(r) = Container
    PROVE  line[r].arg \in Int \cup {NaN}
<1>1. status[r] \in {"applied", "answered"}
  BY DEF AnswerInHand, Answered, InOrder, Routed, Routes!Nothing, Routes!Outcome
<1>2. Route(r) # None
  BY ServiceAssumption DEF Addrs
<1>3. line[r].kind = "data" /\ LineOK(line[r])
  BY <1>1, <1>2 DEF InOrder, Types, Route, Routes!Outcome
<1> QED BY <1>3 DEF LineOK, ArgsOf

LEMMA PrimesToldStep ==
    ASSUME ServiceInv, PrimesTold, RoomToGrow, Next
    PROVE  PrimesTold'
<1>1. /\ Types /\ \A r \in Requests : InOrder(r)
      /\ primes \in [0 .. RADIX - 1 -> INT_MIN .. INT_MAX]
  BY DEF ServiceInv, Types, TypeOK
<1>2. INT_MIN \in Int /\ INT_MAX \in Int
  BY ServersAssumption DEF INT_MIN
<1>3. primes' \in [0 .. RADIX - 1 -> INT_MIN .. INT_MAX]
  BY InstanceTypesStep DEF InstanceTypes
<1>4. ASSUME NEW r \in Requests, UsePrimes(r)
      PROVE  line[r].arg \in Int \cup {NaN} /\ Route(r) = Container
  BY <1>1, <1>4, RoutedFacts DEF UsePrimes, InOrder
<1>5. \A k \in DOMAIN primes : primes'[k] >= primes[k]
  <2>1. CASE \E r \in Requests : UsePrimes(r)
    <3> PICK r \in Requests : UsePrimes(r)
      BY <2>1
    <3> QED BY <1>1, <1>4, PrimesGrow DEF UsePrimes
  <2>2. CASE \A r \in Requests : ~UsePrimes(r)
    <3>1. primes' = primes
      BY <2>2, PrimesStay
    <3>2. \A k \in DOMAIN primes : primes[k] \in Int
      BY <1>1, <1>2
    <3> QED BY <3>1, <3>2
  <2> QED BY <2>1, <2>2
<1>6. \A k \in DOMAIN primes' : primes'[k] >= 0
  BY <1>1, <1>2, <1>3, <1>5 DEF PrimesTold
<1>7. ASSUME NEW r \in Requests, AnswerInHand(r)', Route(r)' = Container
      PROVE  PrimeTold(r)'
  <2>1. CASE UsePrimes(r)
    <3>1. line'[r].arg = line[r].arg /\ line[r].arg \in Int \cup {NaN}
      BY <1>4, <2>1 DEF UsePrimes
    <3>2. value'[r] = PrimeReply(primes, line[r].arg) /\ primes' = PrimesAfter(primes, line[r].arg)
      BY <1>1, <2>1 DEF UsePrimes, Types, TypeOK
    <3>3. CASE InRange(line[r].arg)
      <4>1. ReturningIndex(line[r].arg) \in DOMAIN primes'
        BY <1>3, <3>1, <3>3, Unpacked
      <4>2. value'[r] = primes'[ReturningIndex(line[r].arg)]
        BY <1>1, <3>1, <3>2, <3>3, PrimesGrow
      <4> QED BY <1>2, <1>3, <1>6, <3>1, <3>3, <4>1, <4>2 DEF PrimeTold, InRange, ReturningIndex
    <3>4. CASE ~InRange(line[r].arg)
      <4>1. value'[r] \in {Terminate, Error}
        BY <1>1, <3>1, <3>2, <3>4, PrimesGrow
      <4> QED BY <3>1, <3>4, <4>1 DEF PrimeTold, InRange, Terminate, Error
    <3> QED BY <3>3, <3>4
  <2>2. CASE ~UsePrimes(r)
    <3>1. ~SquareNumber(r)
      BY <1>7, ServiceAssumption DEF SquareNumber, routing, Route, Instances
    <3>2. /\ AnswerInHand(r) /\ Route(r) = Container
          /\ value'[r] = value[r] /\ line'[r] = line[r]
      BY <1>7, <2>2, <3>1, AnswersStay
    <3>3. PrimeTold(r)
      BY <3>2 DEF PrimesTold, AnswerInHand
    <3>4. CASE InRange(line[r].arg)
      <4>1. line[r].arg \in Int \cup {NaN}
        BY <1>1, <3>2, <3>4, ToldNumbers
      <4>2. ReturningIndex(line[r].arg) \in 0 .. RADIX - 1
        BY <3>4, <4>1, Unpacked
      <4> QED BY <1>1, <1>2, <1>3, <1>5, <3>2, <3>3, <3>4, <4>2 DEF PrimeTold, InRange, ReturningIndex
    <3>5. CASE ~InRange(line[r].arg)
      BY <3>2, <3>3, <3>5 DEF PrimeTold, InRange, Terminate, Error
    <3> QED BY <3>4, <3>5
  <2> QED BY <2>1, <2>2
<1> QED BY <1>6, <1>7 DEF PrimesTold, AnswerInHand

(* As long as every prime leaves an int room for what one datagram may add,   *)
(* what the prime server told anybody stays true, and a negative answer means *)
(* a refusal or the end (prime_server.c:59-111).                              *)
THEOREM PrimesNeverShrink == Spec /\ []RoomToGrow => []PrimesOnlyGrow
<1>1. Init => PrimesTold
  <2>1. Init => \A k \in DOMAIN primes : primes[k] >= 0
    BY ServersAssumption DEF Init
  <2> QED BY <2>1 DEF Init, Routes!Init, PrimesTold, Answered, Routes!Nothing, Routes!Outcome
<1>2. ServiceInv /\ PrimesTold /\ RoomToGrow /\ [Next]_vars => PrimesTold'
  <2>1. ASSUME PrimesTold, UNCHANGED vars PROVE PrimesTold'
    <3>1. UNCHANGED <<primes, flight, reply, result, value, line>>
      BY <2>1 DEF vars, routing, instances
    <3>2. \A r \in Requests : PrimeTold(r)' = PrimeTold(r)
      BY <3>1 DEF PrimeTold, InRange, ReturningIndex, Terminate, Error
    <3> QED BY <2>1, <3>1, <3>2 DEF PrimesTold, Answered, Route
  <2> QED BY <2>1, PrimesToldStep
<1>3. ServiceInv /\ PrimesTold => PrimesOnlyGrow
  <2> SUFFICES ASSUME ServiceInv, PrimesTold, NEW r \in Requests,
                      Answered(r), Route(r) = Container
               PROVE  IF value[r] < 0 THEN ~InRange(line[r].arg)
                      ELSE value[r] <= primes[ReturningIndex(line[r].arg)]
    BY DEF PrimesOnlyGrow
  <2>1. PrimeTold(r) /\ line[r].arg \in Int \cup {NaN}
        /\ primes \in [0 .. RADIX - 1 -> INT_MIN .. INT_MAX]
    BY ToldNumbers DEF PrimesTold, ServiceInv, Types, TypeOK, AnswerInHand
  <2>2. CASE InRange(line[r].arg)
    <3> DEFINE n == primes[ReturningIndex(line[r].arg)]
    <3>1. ReturningIndex(line[r].arg) \in 0 .. RADIX - 1
      BY <2>1, <2>2, Unpacked
    <3>2. n \in Int
      BY <2>1, <3>1, ServersAssumption DEF INT_MIN
    <3>3. value[r] \in 0 .. n
      BY <2>1, <2>2 DEF PrimeTold
    <3>4. ~(value[r] < 0) /\ value[r] <= n
      BY <3>2, <3>3
    <3> QED BY <3>4
  <2>3. CASE ~InRange(line[r].arg)
    BY <2>1, <2>3 DEF PrimeTold, Terminate, Error
  <2> QED BY <2>2, <2>3
<1> QED BY <1>1, <1>2, <1>3, InductiveInvariant, PTL DEF Spec

=============================================================================

------------------------------ MODULE Smanager ------------------------------
(* The operator's prompt, src/smanager/smanager.c: a table that says where    *)
(* the daemon of each numbered virtual machine listens, and the commands that *)
(* are sent there.  One command at a time: send_command holds the prompt      *)
(* until the daemon answers.                                                  *)
EXTENDS Naturals, Sequences, SequencesExt

CONSTANTS
    VmNumbers,  \* the numbers the operator gives to machines
    Places,     \* what he may give as their ip and port
    MAX_VMS,    \* smanager.c:8
    None

ASSUME SmanagerAssumption ==
    /\ MAX_VMS \in Nat \ {0}
    /\ None \notin Places

VARIABLES
    vm_list,    \* vm_list[1..vm_count], each [vm_number, place]
    prompt,     \* the connection send_command waits on, None at the prompt
    known       \* history: the place the operator last saw accepted of each number

manager == <<vm_list, prompt, known>>

VMConfigs == [vm_number : VmNumbers, place : Places]

ManagerInit ==
    /\ vm_list = <<>>
    /\ prompt = None
    /\ known = [n \in VmNumbers |-> None]

(* Mutant: the loop runs to the end instead of returning at the match. *)
FindLast(n) == IF \E i \in DOMAIN vm_list : vm_list[i].vm_number = n THEN Len(vm_list) ELSE 0

(* The index of the first entry of the machine, 0 when there is none. *)
find_vm(n) == SelectInSeq(vm_list, LAMBDA vm : vm.vm_number = n)

PlaceOf(n) == vm_list[find_vm(n)].place

Edit(n, place) ==
    /\ prompt = None
    /\ known' = [known EXCEPT ![n] = place]
    /\ UNCHANGED prompt

(* "set vm n place" of a machine that is in the list. *)
UpdateVm(n, place) ==
    /\ find_vm(n) # 0
    /\ Edit(n, place)
    /\ vm_list' = [vm_list EXCEPT ![find_vm(n)].place = place]

(* Mutant: one machine more than the array holds. *)
AddVmOver(n, place) ==
    /\ find_vm(n) = 0
    /\ Len(vm_list) <= MAX_VMS
    /\ Edit(n, place)
    /\ vm_list' = Append(vm_list, [vm_number |-> n, place |-> place])

(* Of one that is not; at the limit it says so and nothing happens. *)
AddVm(n, place) ==
    /\ find_vm(n) = 0
    /\ Len(vm_list) < MAX_VMS
    /\ Edit(n, place)
    /\ vm_list' = Append(vm_list, [vm_number |-> n, place |-> place])

(* Mutant: the last entry goes, the others do not move. *)
RemoveLast(n) ==
    /\ find_vm(n) # 0
    /\ Edit(n, None)
    /\ vm_list' = RemoveAt(vm_list, Len(vm_list))

(* "unset n": those behind move up; "there is no such a vm" changes nothing. *)
RemoveVm(n) ==
    /\ find_vm(n) # 0
    /\ Edit(n, None)
    /\ vm_list' = RemoveAt(vm_list, find_vm(n))

(* The part of send_command up to recv: the prompt now waits on connection c, *)
(* which leads to the machine the table gives.  A number that is not there,   *)
(* or a place that cannot be reached, ends the command with a message.        *)
SendCommand(c, n, machine) ==
    /\ prompt = None
    /\ find_vm(n) # 0
    /\ PlaceOf(n) = machine
    /\ prompt' = c
    /\ UNCHANGED <<vm_list, known>>

(* recv returned an answer, or 0 at the end of the connection. *)
ShowResponse ==
    /\ prompt # None
    /\ prompt' = None
    /\ UNCHANGED <<vm_list, known>>

ManagerTypeOK ==
    /\ vm_list \in Seq(VMConfigs)
    /\ Len(vm_list) <= MAX_VMS
    /\ known \in [VmNumbers -> Places \cup {None}]
=============================================================================

------------------------------- MODULE Jailor -------------------------------
(* The jailor processes of one virtual machine, src/jailor/jailor.c.  A       *)
(* jailor fills a root directory, makes a veth pair, clones a child into new  *)
(* namespaces, hands the far end of the pair to it, and only then installs    *)
(* its SIGTERM handler and waits for the child; when the child is dead it     *)
(* removes the directory.  The child makes the directory its root, links its  *)
(* symlinks and becomes the server (src/server/server.c), which installs a    *)
(* SIGTERM handler of its own.                                                *)
(*                                                                            *)
(* The root directory and the names of the veth pair belong to the program,   *)
(* not to the process: two jailors of one program work on the same ones.      *)
EXTENDS Naturals, FiniteSets

CONSTANTS
    Jails,      \* process ids of jailors; each also names the jailor's child
    Programs,   \* the sandbox configurations: one root_dir and sandbox_id each
    NFiles,     \* how many files a configuration lists under file_copies
    Linked,     \* the programs whose configuration lists symlinks
    Faults,     \* what may fail: a subset of FaultKinds
    None

FaultKinds == {"jailor", "recv", "fork", "system", "iptables"}

ASSUME JailorAssumption ==
    /\ NFiles \in Nat \ {0}
    /\ Linked \subseteq Programs
    /\ Faults \subseteq FaultKinds
    /\ None \notin Programs /\ None \notin Jails
    /\ {"none", "host", "absent", "whole"} \cap Jails = {}

VARIABLES
    prog,       \* the program a jailor was started for
    jpc,        \* where the jailor stands
    cpc,        \* where its child stands
    copied,     \* how many files of its list a jailor is through with
    root,       \* per program: what is in its root directory, files aside
    files,      \* per program and file: "absent", "whole", or the jailor that
                \* writes it, or has left it torn
    evicted,    \* children whose root was removed after they mounted it
    veth        \* per program: its veth pair: "none", both ends on the "host",
                \* or the child whose network namespace holds the far end

disk == <<root, files, evicted>>
jails == <<prog, jpc, cpc, copied, root, files, evicted, veth>>

JailorPCs == {"unused", "config", "root", "dirs", "copy", "copying", "veth", "clone",
              "wire", "arm", "wait", "clean", "gone"}
ChildPCs == {"none", "mount", "pivot", "link", "exec", "boot", "serve", "dead"}
Parts == {"dir", "old_root", "links"}

JailorInit ==
    /\ prog = [j \in Jails |-> None]
    /\ jpc = [j \in Jails |-> "unused"]
    /\ cpc = [j \in Jails |-> "none"]
    /\ copied = [j \in Jails |-> 0]
    /\ root = [p \in Programs |-> {}]
    /\ files = [p \in Programs |-> [k \in 1..NFiles |-> "absent"]]
    /\ evicted = {}
    /\ veth = [p \in Programs |-> "none"]

JailorGoto(j, l) == jpc' = [jpc EXCEPT ![j] = l]
ChildGoto(j, l) == cpc' = [cpc EXCEPT ![j] = l]

ChildAlive(j) == cpc[j] \notin {"none", "dead"}
JailorAlive(j) == jpc[j] \notin {"unused", "gone"}
Alive(j) == JailorAlive(j) \/ ChildAlive(j)

(* Before line 409 SIGTERM has its default action. *)
Armed(j) == jpc[j] \in {"wait", "clean"}

InRoot(j) == root[prog[j]]
PutInRoot(j, s) == root' = [root EXCEPT ![prog[j]] = s]

File(j) == files[prog[j]][copied[j] + 1]
PutFile(j, f) == files' = [files EXCEPT ![prog[j]][copied[j] + 1] = f]
AllWhole(j) == \A k \in 1..NFiles : files[prog[j]][k] = "whole"

----------------------------------------------------------------------------
(* main, as the parent.                                                     *)

(* fork and execv of jailor in sdeamon.c. *)
Spawn(j, p) ==
    /\ jpc[j] = "unused"
    /\ JailorGoto(j, "config")
    /\ prog' = [prog EXCEPT ![j] = p]
    /\ UNCHANGED <<cpc, copied, disk, veth>>

ReadConfig(j) ==
    /\ jpc[j] = "config"
    /\ JailorGoto(j, "root")
    /\ UNCHANGED <<prog, cpc, copied, disk, veth>>

MakeRoot(j) ==
    /\ jpc[j] = "root"
    /\ PutInRoot(j, InRoot(j) \cup {"dir"})
    /\ JailorGoto(j, "dirs")
    /\ UNCHANGED <<prog, cpc, copied, files, evicted, veth>>

(* mkdir in a directory that is gone again fails, and the jailor exits. *)
CreateDirectories(j) ==
    /\ jpc[j] = "dirs"
    /\ JailorGoto(j, IF "dir" \in InRoot(j) THEN "copy" ELSE "gone")
    /\ UNCHANGED <<prog, cpc, copied, disk, veth>>

(* A file that is there is skipped, whoever made it and however much of it   *)
(* there is; for any other the directories are made if need be.              *)
SkipFile(j) ==
    /\ jpc[j] = "copy"
    /\ copied[j] < NFiles
    /\ File(j) # "absent"
    /\ copied' = [copied EXCEPT ![j] = @ + 1]
    /\ UNCHANGED <<prog, jpc, cpc, disk, veth>>

StartCopy(j) ==
    /\ jpc[j] = "copy"
    /\ copied[j] < NFiles
    /\ File(j) = "absent"
    /\ PutInRoot(j, InRoot(j) \cup {"dir"})
    /\ PutFile(j, j)
    /\ JailorGoto(j, "copying")
    /\ UNCHANGED <<prog, cpc, copied, evicted, veth>>

(* The file may have been removed, and made again by another jailor, since.  *)
(* After a read error the jailor goes on with what it has.                   *)
EndCopy(j) ==
    /\ jpc[j] = "copying"
    /\ \/ PutFile(j, IF File(j) = j THEN "whole" ELSE File(j))
       \/ "jailor" \in Faults /\ UNCHANGED files
    /\ copied' = [copied EXCEPT ![j] = @ + 1]
    /\ JailorGoto(j, "copy")
    /\ UNCHANGED <<prog, cpc, root, evicted, veth>>

CopiesDone(j) ==
    /\ jpc[j] = "copy"
    /\ copied[j] = NFiles
    /\ JailorGoto(j, "veth")
    /\ UNCHANGED <<prog, cpc, copied, disk, veth>>

(* "ip link add" of a name that exists fails, and nobody looks at the status. *)
AddVeth(j) ==
    /\ jpc[j] = "veth"
    /\ veth' = [veth EXCEPT ![prog[j]] = IF @ = "none" THEN "host" ELSE @]
    /\ JailorGoto(j, "clone")
    /\ UNCHANGED <<prog, cpc, copied, disk>>

Clone(j) ==
    /\ jpc[j] = "clone"
    /\ ChildGoto(j, "mount")
    /\ JailorGoto(j, "wire")
    /\ UNCHANGED <<prog, copied, disk, veth>>

(* "ip link set ... netns" needs the end on the host and a living child. *)
MoveVeth(j) ==
    /\ jpc[j] = "wire"
    /\ veth' = [veth EXCEPT ![prog[j]] = IF @ = "host" /\ ChildAlive(j) THEN j ELSE @]
    /\ JailorGoto(j, "arm")
    /\ UNCHANGED <<prog, cpc, copied, disk>>

InstallHandlers(j) ==
    /\ jpc[j] = "arm"
    /\ JailorGoto(j, "wait")
    /\ UNCHANGED <<prog, cpc, copied, disk, veth>>

(* Mutant: the jailor does not wait for its child. *)
ChildLives(j) ==
    /\ jpc[j] = "wait"
    /\ JailorGoto(j, "clean")
    /\ UNCHANGED <<prog, cpc, copied, disk, veth>>

ChildDied(j) ==
    /\ jpc[j] = "wait"
    /\ cpc[j] = "dead"
    /\ JailorGoto(j, "clean")
    /\ UNCHANGED <<prog, cpc, copied, disk, veth>>

(* Mutant: the directory is left behind. *)
KeepRoot(j) ==
    /\ jpc[j] = "clean"
    /\ JailorGoto(j, "gone")
    /\ UNCHANGED <<prog, cpc, copied, disk, veth>>

(* rm -rf root_dir, no matter who lives in it; then the jailor exits. *)
RemoveRoot(j) ==
    /\ jpc[j] = "clean"
    /\ PutInRoot(j, {})
    /\ files' = [files EXCEPT ![prog[j]] = [k \in 1..NFiles |-> "absent"]]
    /\ evicted' = evicted \cup
         {k \in Jails : prog[k] = prog[j] /\ cpc[k] \in {"pivot", "link", "exec", "boot", "serve"}}
    /\ JailorGoto(j, "gone")
    /\ UNCHANGED <<prog, cpc, copied, veth>>

(* A call checked by check_error or by init_config and copy_file fails: the  *)
(* jailor exits there and then and leaves everything, its child included.    *)
(* The mkdir of a directory that another jailor made since the stat is one.  *)
Quit(j) ==
    /\ "jailor" \in Faults
    /\ jpc[j] \in {"config", "root", "dirs", "copy", "copying", "veth", "clone", "wire", "clean"}
    /\ JailorGoto(j, "gone")
    /\ UNCHANGED <<prog, cpc, copied, disk, veth>>

----------------------------------------------------------------------------
(* child_func and the server it becomes.                                    *)

ChildDies(j) == ChildGoto(j, "dead") /\ UNCHANGED root

(* The bind mount needs the directory, mkdir old_root that there is none. *)
MakeOldRoot(j) ==
    /\ cpc[j] = "mount"
    /\ IF "dir" \in InRoot(j) /\ "old_root" \notin InRoot(j)
       THEN ChildGoto(j, "pivot") /\ PutInRoot(j, InRoot(j) \cup {"old_root"})
       ELSE ChildDies(j)
    /\ UNCHANGED <<prog, jpc, copied, files, evicted, veth>>

PivotRoot(j) ==
    /\ cpc[j] = "pivot"
    /\ IF j \notin evicted
       THEN ChildGoto(j, "link") /\ PutInRoot(j, InRoot(j) \ {"old_root"})
       ELSE ChildDies(j)
    /\ UNCHANGED <<prog, jpc, copied, files, evicted, veth>>

(* symlink fails when the link exists. *)
ConnectSymlinks(j) ==
    /\ cpc[j] = "link"
    /\ IF prog[j] \notin Linked THEN ChildGoto(j, "exec") /\ UNCHANGED root
       ELSE IF j \notin evicted /\ "links" \notin InRoot(j)
       THEN ChildGoto(j, "exec") /\ PutInRoot(j, InRoot(j) \cup {"links"})
       ELSE ChildDies(j)
    /\ UNCHANGED <<prog, jpc, copied, files, evicted, veth>>

(* execv of a torn file may fail, or start what there is of it. *)
Exec(j) ==
    /\ cpc[j] = "exec"
    /\ \/ /\ j \notin evicted
          /\ \A k \in 1..NFiles : files[prog[j]][k] # "absent"
          /\ ChildGoto(j, "boot")
       \/ /\ j \in evicted \/ ~AllWhole(j)
          /\ ChildGoto(j, "dead")
    /\ UNCHANGED <<prog, jpc, copied, disk, veth>>

(* server.c:13, the server's first statement. *)
ServerReady(j) ==
    /\ cpc[j] = "boot"
    /\ ChildGoto(j, "serve")
    /\ UNCHANGED <<prog, jpc, copied, disk, veth>>

(* The server exits or crashes by itself. *)
ServerDies(j) ==
    /\ cpc[j] \in {"boot", "serve"}
    /\ ChildGoto(j, "dead")
    /\ UNCHANGED <<prog, jpc, copied, disk, veth>>

(* mount, pivot_root or another call of child_func fails. *)
ChildFails(j) ==
    /\ "jailor" \in Faults
    /\ cpc[j] \in {"mount", "pivot", "link", "exec"}
    /\ ChildGoto(j, "dead")
    /\ UNCHANGED <<prog, jpc, copied, disk, veth>>

(* The kernel takes a network namespace down some time after its last        *)
(* process, and the veth pair with it.                                       *)
NamespaceGone(p) ==
    /\ veth[p] \in Jails
    /\ cpc[veth[p]] = "dead"
    /\ veth' = [veth EXCEPT ![p] = "none"]
    /\ UNCHANGED <<prog, jpc, cpc, copied, disk>>

----------------------------------------------------------------------------
(* Mutant: the handler does not pass the signal on. *)
TerminateAlone(j) ==
    /\ IF JailorAlive(j) /\ ~Armed(j) THEN JailorGoto(j, "gone") ELSE UNCHANGED jpc
    /\ UNCHANGED <<prog, cpc, copied, disk, veth>>

(* SIGTERM to jailor j.  Its default action ends the jailor alone.  The       *)
(* handler passes it on to the child, which is PID 1 of its namespace: until  *)
(* the server has installed a handler the kernel drops it.                    *)
Terminate(j) ==
    /\ IF JailorAlive(j) /\ ~Armed(j) THEN JailorGoto(j, "gone") ELSE UNCHANGED jpc
    /\ IF Armed(j) /\ cpc[j] = "serve" THEN ChildGoto(j, "dead") ELSE UNCHANGED cpc
    /\ UNCHANGED <<prog, copied, disk, veth>>

JailorStep(j) ==
    \/ ReadConfig(j) \/ MakeRoot(j) \/ CreateDirectories(j)
    \/ SkipFile(j) \/ StartCopy(j) \/ EndCopy(j) \/ CopiesDone(j) \/ AddVeth(j)
    \/ Clone(j) \/ MoveVeth(j) \/ InstallHandlers(j) \/ ChildDied(j) \/ RemoveRoot(j)

ChildStep(j) ==
    MakeOldRoot(j) \/ PivotRoot(j) \/ ConnectSymlinks(j) \/ Exec(j) \/ ServerReady(j)

Mishap(j) == Quit(j) \/ ChildFails(j) \/ ServerDies(j)

----------------------------------------------------------------------------
JailorTypeOK ==
    /\ prog \in [Jails -> Programs \cup {None}]
    /\ jpc \in [Jails -> JailorPCs]
    /\ cpc \in [Jails -> ChildPCs]
    /\ copied \in [Jails -> 0..NFiles]
    /\ root \in [Programs -> SUBSET Parts]
    /\ files \in [Programs -> [1..NFiles -> {"absent", "whole"} \cup Jails]]
    /\ evicted \subseteq Jails
    /\ veth \in [Programs -> {"none", "host"} \cup Jails]
=============================================================================

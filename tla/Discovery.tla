----------------------------- MODULE Discovery -----------------------------
(***************************************************************************)
(* find_interfaces() of discovery.py: ask the global control socket, else  *)
(* list the control directory and stat each entry, then drop the names the *)
(* kernel does not have.  And wireless_interfaces(): list what the kernel  *)
(* has and ask after each.  Each question is a system call or a round trip *)
(* of its own, and interfaces, daemons and files come and go between them. *)
(***************************************************************************)
EXTENDS Naturals, FiniteSets

CONSTANTS
    Names,      \* entries of the control directory; interface names
    Refusal     \* the line of text a daemon refuses INTERFACES with

ASSUME RefusalAssumption == Refusal \notin Names

VARIABLES
    node,         \* external: what the control directory holds by each name
    serving,      \* external: the names a daemon serves
    kernel,       \* external: the interfaces the kernel has
    wireless,     \* external: those of them that are, or would be, wireless
    sysfs,        \* external: there is a /sys/class/net
    readable,     \* external: the control directory can be listed
    global,       \* global_path: none, or what is behind it
    wirelessOnly, \* the parameter
    asked,        \* the function called
    pc,           \* the question to ask next
    todo,         \* the names still to be asked about
    probed,       \* the name found in the kernel and now asked after phy80211
    names,        \* the names that have passed so far, at last the result
    everSocket,   \* history: names that were sockets at some time
    everServed,   \* history: names served at some time
    everThere,    \* history: names the kernel had at some time
    steady        \* history: names in the kernel, and served if that is
                  \* asked, all the time

world == <<node, serving, kernel, everSocket, everServed, everThere, steady>>
setting == <<wireless, sysfs, readable, global, wirelessOnly, asked>>
search == <<pc, todo, probed, names>>
vars == <<world, setting, search>>

Nodes == {"none", "file", "socket"}
Globals == {"none", "answers", "refuses", "unreachable"}

TypeOK ==
    /\ node \in [Names -> Nodes] /\ serving \subseteq Names
    /\ kernel \subseteq Names /\ wireless \subseteq Names
    /\ sysfs \in BOOLEAN /\ readable \in BOOLEAN /\ wirelessOnly \in BOOLEAN
    /\ global \in Globals /\ asked \in {"interfaces", "wireless"}
    /\ pc \in {"global", "list", "stat", "sysfs", "exists", "wireless", "done",
              "entries", "phy80211"}
    /\ todo \subseteq Names \cup {Refusal}
    /\ probed \subseteq Names /\ names \subseteq Names \cup {Refusal}
    /\ everSocket \subseteq Names /\ everServed \subseteq Names
    /\ everThere \subseteq Names /\ steady \subseteq Names

Init ==
    /\ node \in [Names -> Nodes]
    /\ serving \in SUBSET {n \in Names : node[n] = "socket"}
    /\ kernel \in SUBSET Names /\ wireless \in SUBSET Names
    /\ sysfs \in BOOLEAN /\ readable \in BOOLEAN /\ wirelessOnly \in BOOLEAN
    /\ global \in Globals
    /\ \/ asked = "interfaces" /\ pc = "global"
       \/ asked = "wireless" /\ pc = "entries"
          /\ readable /\ global = "none" /\ ~wirelessOnly   \* not its parameters
    /\ todo = {} /\ probed = {} /\ names = {}
    /\ everSocket = {n \in Names : node[n] = "socket"}
    /\ everServed = serving /\ everThere = kernel
    /\ steady = IF asked = "interfaces" THEN serving \cap kernel ELSE kernel

-----------------------------------------------------------------------------
(* The global socket *)

(* What interfaces() makes of the reply: a line, a name.                   *)
AccountWhole == {IF global = "answers" THEN serving ELSE {}}  \* mutant: no splitlines()
Account ==
    CASE global = "answers" -> serving
      [] global = "refuses" -> {Refusal}
      [] OTHER -> {}

(* No global socket, none that can be reached, and one with no interfaces  *)
(* are all the same: the directory is read instead.                        *)
AskGlobal ==
    /\ pc = "global"
    /\ names' = Account
    /\ pc' = IF Account = {} THEN "list" ELSE "sysfs"
    /\ UNCHANGED <<world, setting, todo, probed>>

-----------------------------------------------------------------------------
(* control_sockets() *)

ListDirectory ==
    /\ pc = "list"
    /\ todo' = IF readable THEN {n \in Names : node[n] # "none"} ELSE {}
    /\ pc' = "stat"
    /\ UNCHANGED <<world, setting, probed, names>>

(* What passes for a control socket: not a name that has vanished since,   *)
(* nor a plain file.                                                       *)
IsSocketByName(n) == TRUE                       \* mutant: no stat()
IsSocket(n) == node[n] = "socket"

Stat ==
    /\ pc = "stat"
    /\ \E n \in todo :
        /\ todo' = todo \ {n}
        /\ names' = IF IsSocket(n) THEN names \cup {n} ELSE names
    /\ UNCHANGED <<world, setting, pc, probed>>

StatDone ==
    /\ pc = "stat" /\ todo = {}
    /\ pc' = "sysfs"
    /\ UNCHANGED <<world, setting, todo, probed, names>>

-----------------------------------------------------------------------------
(* The kernel's word *)

(* Without sysfs nothing is dropped. *)
Sysfs ==
    /\ pc = "sysfs"
    /\ IF sysfs
       THEN pc' = "exists" /\ todo' = names /\ names' = {}
       ELSE pc' = "done" /\ UNCHANGED <<todo, names>>
    /\ UNCHANGED <<world, setting, probed>>

InterfaceExistsAnyway(n) == TRUE                \* mutant: leftovers kept
InterfaceExists(n) == n \in kernel

IsWireless(n) == n \in kernel \cap wireless

WantedAlways == TRUE                            \* mutant: wired ones dropped
Wanted == wirelessOnly

Exists ==
    /\ pc = "exists"
    /\ \E n \in todo :
        /\ todo' = todo \ {n}
        /\ IF InterfaceExists(n) /\ Wanted
           THEN pc' = "wireless" /\ probed' = {n} /\ UNCHANGED names
           ELSE /\ names' = IF InterfaceExists(n) THEN names \cup {n} ELSE names
                /\ UNCHANGED <<pc, probed>>
    /\ UNCHANGED <<world, setting>>

Wireless ==
    /\ pc = "wireless"
    /\ names' = names \cup {n \in probed : IsWireless(n)}
    /\ pc' = "exists" /\ probed' = {}
    /\ UNCHANGED <<world, setting, todo>>

ExistsDone ==
    /\ pc = "exists" /\ todo = {}
    /\ pc' = "done"
    /\ UNCHANGED <<world, setting, todo, probed, names>>

-----------------------------------------------------------------------------
(* wireless_interfaces() *)

(* Without sysfs there is nothing to list. *)
ListKernel ==
    /\ pc = "entries"
    /\ todo' = IF sysfs THEN kernel ELSE {}
    /\ pc' = "phy80211"
    /\ UNCHANGED <<world, setting, probed, names>>

(* An interface that has gone since is not wireless. *)
Phy80211 ==
    /\ pc = "phy80211"
    /\ \E n \in todo :
        /\ todo' = todo \ {n}
        /\ names' = IF IsWireless(n) THEN names \cup {n} ELSE names
    /\ UNCHANGED <<world, setting, pc, probed>>

Phy80211Done ==
    /\ pc = "phy80211" /\ todo = {}
    /\ pc' = "done"
    /\ UNCHANGED <<world, setting, todo, probed, names>>

Search ==
    \/ ListKernel \/ Phy80211 \/ Phy80211Done
    \/ AskGlobal \/ ListDirectory \/ Stat \/ StatDone
    \/ Sysfs \/ Exists \/ Wireless \/ ExistsDone

-----------------------------------------------------------------------------
(* Daemons, files and interfaces: external to the package *)

(* A daemon takes the name, over whatever a crashed one left there. *)
Serve(n) ==
    /\ n \notin serving /\ n \in kernel
    /\ node' = [node EXCEPT ![n] = "socket"]
    /\ serving' = serving \cup {n} /\ everServed' = everServed \cup {n}
    /\ everSocket' = everSocket \cup {n}
    /\ UNCHANGED <<kernel, everThere, steady>>

(* It exits and unlinks its socket, or crashes and leaves it. *)
Leave(n) ==
    /\ n \in serving
    /\ serving' = serving \ {n}
    /\ steady' = IF asked = "interfaces" THEN steady \ {n} ELSE steady
    /\ node' \in {node, [node EXCEPT ![n] = "none"]}
    /\ UNCHANGED <<kernel, everSocket, everServed, everThere>>

(* Anything else that appears in, or is swept from, the directory. *)
Litter(n) ==
    /\ n \notin serving
    /\ node' \in {[node EXCEPT ![n] = "file"], [node EXCEPT ![n] = "none"]}
    /\ UNCHANGED <<serving, kernel, everSocket, everServed, everThere, steady>>

(* An interface appears, or goes whether or not a daemon served it. *)
Plug(n) ==
    /\ n \notin kernel
    /\ kernel' = kernel \cup {n} /\ everThere' = everThere \cup {n}
    /\ UNCHANGED <<node, serving, everSocket, everServed, steady>>

Unplug(n) ==
    /\ n \in kernel
    /\ kernel' = kernel \ {n} /\ steady' = steady \ {n}
    /\ UNCHANGED <<node, serving, everSocket, everServed, everThere>>

Elsewhere ==
    /\ pc # "done"
    /\ \E n \in Names : Serve(n) \/ Leave(n) \/ Litter(n) \/ Plug(n) \/ Unplug(n)
    /\ UNCHANGED <<setting, search>>

Next == Search \/ Elsewhere

Spec == Init /\ [][Next]_vars

-----------------------------------------------------------------------------
(* Properties *)

(* The names that ought to be found: there for as long as the search       *)
(* lasted, wired ones too unless they are unwanted.                        *)
Findable ==
    IF asked = "wireless" \/ (wirelessOnly /\ sysfs) THEN steady \cap wireless ELSE steady

(* There was somebody to hear the question. *)
Answerable ==
    IF asked = "wireless" THEN sysfs
    ELSE global # "refuses" /\ (readable \/ global = "answers")

(* Every name that was there throughout is found, whatever came and went,  *)
(* on whichever of the two ways find_interfaces() took - also where there  *)
(* is no sysfs, for "cannot tell" is not "none" (discovery.py:129) - and   *)
(* by wireless_interfaces() too, where there is one (discovery.py:104).    *)
Complete == pc = "done" /\ Answerable => Findable \subseteq names

(* The answer is what has a control socket (discovery.py:116): what never  *)
(* was one while the search lasted is not found; nor, with a sysfs to ask, *)
(* an interface the kernel never had meanwhile, however old its socket     *)
(* (:120), nor a wired one when only wireless are wanted.  One case is     *)
(* left out, in which the code does otherwise: where there is no sysfs and *)
(* the global socket's daemon refuses INTERFACES, the text of its refusal  *)
(* is returned as an interface.                                            *)
NoLeftovers ==
    pc = "done"
        => /\ asked = "interfaces" /\ (sysfs \/ global # "refuses")
                => names \subseteq everSocket
           /\ sysfs => names \subseteq everThere
           /\ sysfs /\ wirelessOnly => names \subseteq wireless
           /\ asked = "wireless" => names \subseteq wireless \cap everThere

-----------------------------------------------------------------------------
(* What the documentation says and the code does not do *)

(* discovery.py:45: control_sockets() returns "Interfaces with a control   *)
(* socket in a directory, i.e. the ones this library can actually connect  *)
(* to", and "a crashed daemon can leave something behind": a name no       *)
(* daemon served during the search should not be among them.               *)
FoundCanBeReached ==
    pc = "done" /\ asked = "interfaces" /\ sysfs
        => names \ {Refusal} \subseteq everServed
=============================================================================

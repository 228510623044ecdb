----------------------------- MODULE VMRegistry ------------------------------
(***************************************************************************)
(* The VMRegistry of the host agent (host/Host.py): which VMs have joined  *)
(* the party, and the two tables that translate between the name the       *)
(* client uses and the id (the MAC address) the VM uses.  The registry is  *)
(* made when it is first needed, by a HELLO or by a command, and takes the *)
(* tables from the hypervisor then, once for the life of the process;      *)
(* machines are created through the same agent, and destroyed by whoever   *)
(* manages VirtualBox, all the time.                                       *)
(*                                                                         *)
(* VirtualBox refuses a second machine of one name; nothing keeps two      *)
(* machines from having one MAC address.                                   *)
(***************************************************************************)
CONSTANTS Ids,          \* MAC addresses
          Names         \* names of machines

VARIABLES machines,     \* the hypervisor's machines: name -> id of its adapter
          made,         \* the VMRegistry of this host process has been made
          idsToNames, namesToIds,
          vms,          \* _vms: id -> name of the descriptor
          heard         \* history: ids of machines that said HELLO to this process

vars == <<machines, made, idsToNames, namesToIds, vms, heard>>
tables == <<made, idsToNames, namesToIds>>

NoEntries == [k \in {} |-> k]
Values(dict) == {dict[k] : k \in DOMAIN dict}

TypeOK == /\ DOMAIN machines \subseteq Names /\ Values(machines) \subseteq Ids
          /\ made \in BOOLEAN
          /\ DOMAIN idsToNames \subseteq Ids /\ Values(idsToNames) \subseteq Names
          /\ DOMAIN namesToIds \subseteq Names /\ Values(namesToIds) \subseteq Ids
          /\ DOMAIN vms \subseteq Ids /\ Values(vms) \subseteq Names
          /\ heard \subseteq Ids

NoRegistry == /\ made = FALSE
              /\ idsToNames = NoEntries
              /\ namesToIds = NoEntries
              /\ vms = NoEntries
              /\ heard = {}

Init == machines = NoEntries /\ NoRegistry

-----------------------------------------------------------------------------
(* The hypervisor's machines *)

CreateVM(name, id) ==
  /\ name \notin DOMAIN machines
  /\ machines' = [n \in DOMAIN machines \cup {name} |->
                    IF n = name THEN id ELSE machines[n]]
  /\ UNCHANGED <<tables, vms, heard>>

DestroyVM(name) ==
  /\ name \in DOMAIN machines
  /\ machines' = [n \in DOMAIN machines \ {name} |-> machines[n]]
  /\ UNCHANGED <<tables, vms, heard>>

-----------------------------------------------------------------------------
(* The registry *)

\* dict(...) over the machines: of two with the same id the later one counts.
IdsToNamesMappings == {f \in [Values(machines) -> DOMAIN machines] :
                         \A id \in DOMAIN f : machines[f[id]] = id}

\* The table is copied, not reversed.
Reverse_Copied(dict) == {dict}

\* dict((v, k) ...): of two ids with one name the later one counts.
Reverse(dict) == {f \in [Values(dict) -> DOMAIN dict] :
                    \A name \in DOMAIN f : dict[f[name]] = name}

\* The tables follow the machines that were destroyed.
Access_Refreshed ==
  \/ /\ made
     /\ idsToNames' \in IdsToNamesMappings
     /\ namesToIds' \in Reverse(idsToNames')
     /\ UNCHANGED made
  \/ /\ ~ made
     /\ made' = TRUE
     /\ idsToNames' \in IdsToNamesMappings
     /\ namesToIds' \in Reverse(idsToNames')

\* The constructor.  If the hypervisor's call fails it raises, nothing is kept and
\* the next access tries again.
Make == /\ ~ made
        /\ made' = TRUE
        /\ idsToNames' \in IdsToNamesMappings
        /\ namesToIds' \in Reverse(idsToNames')

Access == \/ Make
          \/ made /\ UNCHANGED tables

\* getIdForName, for every command sent; it raises for a name that is not there.
GetIdForName(name) == /\ Access
                      /\ UNCHANGED <<machines, vms, heard>>

\* addVM raises NoSuchVirtualMachine for an id that is not in the table.
Hello(id) ==
  /\ Access
  /\ heard' = heard \cup ({id} \cap Values(machines))
  /\ vms' = [i \in DOMAIN vms \cup ({id} \cap DOMAIN idsToNames') |->
               IF i \in {id} \cap DOMAIN idsToNames' THEN idsToNames'[i] ELSE vms[i]]
  /\ UNCHANGED machines

HostRestart == /\ made' = FALSE
               /\ idsToNames' = NoEntries
               /\ namesToIds' = NoEntries
               /\ vms' = NoEntries
               /\ heard' = {}
               /\ UNCHANGED machines

Next == \/ \E name \in Names : \/ \E id \in Ids : CreateVM(name, id)
                               \/ DestroyVM(name)
                               \/ GetIdForName(name)
        \/ \E id \in Ids : Hello(id)
        \/ HostRestart

Spec == Init /\ [][Next]_vars

-----------------------------------------------------------------------------
\* A VM that joined is reached under the name it is listed by: the client that
\* reads a name and sends a command to it addresses that VM, whatever machines
\* were created, destroyed or share a MAC address in the meantime.
JoinedIsAddressable ==
  \A id \in DOMAIN vms : vms[id] \in DOMAIN namesToIds /\ namesToIds[vms[id]] = id

\* What makes JoinedIsAddressable inductive: the second table reverses the first,
\* and a VM that joined keeps the name the first table gives it.
RegistryInv ==
  /\ TypeOK
  /\ \A id \in DOMAIN idsToNames : /\ idsToNames[id] \in DOMAIN namesToIds
                                  /\ namesToIds[idsToNames[id]] = id
  /\ \A id \in DOMAIN vms : id \in DOMAIN idsToNames /\ vms[id] = idsToNames[id]
  /\ ~ made => idsToNames = NoEntries
=============================================================================

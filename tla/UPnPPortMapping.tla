-------------------------- MODULE UPnPPortMapping ---------------------------
(***************************************************************************)
(* The port mapping that a session asks its router for                     *)
(* (src/src/net/upnp.cpp): create() step by step, the moves by which the   *)
(* mapping gets from there into the session, and the destructor that       *)
(* deletes it.  The steps are those of the session's thread.               *)
(*                                                                         *)
(* A request that is not answered may or may not have reached the router.  *)
(* tcp_request returns an empty string then, as it does for any error.     *)
(***************************************************************************)

VARIABLES
  upnp,       \* next statement of create(), "done" or "thrown"
  m_valid,    \* the UPnPPortMapping objects that own the mapping
  mapped      \* the router forwards the port: "yes", "no" or "unknown"

upnpVars == <<upnp, m_valid, mapped>>

Objects == {"local", "returned", "m_upnp_mapping"}

UPnPInit == upnp = "multicast" /\ m_valid = {} /\ mapped = "no"

Goes(from, labels) ==
  upnp = from /\ upnp' \in labels /\ UNCHANGED <<m_valid, mapped>>

\* ssdp_discover: an answer to the multicast, else the gateway is asked, if
\* there is one, else its web server.  sendto may throw.
Multicast == Goes("multicast", {"fetch_igd_info", "unicast", "done", "thrown"})
Unicast == Goes("unicast", {"fetch_igd_info", "http_probe", "thrown"})
HttpProbe == Goes("http_probe", {"fetch_igd_info", "done"})

\* No description, or none of a connection service.
fetch_igd_info == Goes("fetch_igd_info", {"local_ip_for", "done"})

local_ip_for == Goes("local_ip_for", {"get_external_ip", "done"})

\* For information only.
get_external_ip == Goes("get_external_ip", {"add"})

\* soap_action: the router does what it is told and answers, refuses, or is
\* not heard of.
SoapOutcomes == {"ok", "error", "silence"}

\* The loop over the leases ends in its first iteration.  Whatever is not an
\* error counts as success.
AddPortMapping ==
  /\ upnp = "add"
  /\ \E outcome \in SoapOutcomes :
       IF outcome = "error" THEN upnp' = "done" /\ UNCHANGED <<m_valid, mapped>>
       ELSE /\ mapped' = IF outcome = "ok" THEN "yes" ELSE "unknown"
            /\ m_valid' = {"local"}
            /\ upnp' = "return"

-----------------------------------------------------------------------------
(* The objects.                                                             *)

\* Fault: the moved-from object stays valid.
MoveCopies(from, to) == IF from \in m_valid THEN m_valid \cup {to} ELSE m_valid

\* The move constructor.
MoveConstruct(from, to) ==
  IF from \in m_valid THEN (m_valid \ {from}) \cup {to} ELSE m_valid

\* release() of each of the objects, given the valid ones.
release(objects, valid) ==
  /\ m_valid' = valid \ objects
  /\ mapped' \in IF objects \cap valid = {} THEN {mapped} ELSE {"no", "unknown"}

\* `return m;`, and then the assignment to the member, which is empty; the
\* object that was moved from is destroyed.
ReturnMapping ==
  /\ upnp = "return"
  /\ release({"local"}, MoveConstruct("local", "returned"))
  /\ upnp' = "assign"

AssignMapping ==
  /\ upnp = "assign"
  /\ release({"returned"}, MoveConstruct("returned", "m_upnp_mapping"))
  /\ upnp' = "done"

create ==
  \/ Multicast \/ Unicast \/ HttpProbe \/ fetch_igd_info \/ local_ip_for
  \/ get_external_ip \/ AddPortMapping \/ ReturnMapping \/ AssignMapping

\* The destructor of the session's member.
DestroyMapping == release({"m_upnp_mapping"}, m_valid) /\ UNCHANGED upnp
=============================================================================

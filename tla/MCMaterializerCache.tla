------------------------- MODULE MCMaterializerCache -------------------------
(* Small instances of MaterializerCache for TLC.  "homes" and "offices"    *)
(* join two relations of a person that both lead to an address; "jobs"     *)
(* joins a company and returns columns of the same names.                  *)
(* "homesAsOffices" has the SQL of "homes" and configures the join of      *)
(* "offices"; "peopleMisjoined" has the SQL of "jobs" but forgets to       *)
(* configure its join, so that no materializer can be built for it.        *)
EXTENDS MaterializerCache

MCEntityOf == [home |-> "Address", office |-> "Address", employer |-> "Company"]

MCSqlOf ==
  [q \in Queries |-> CASE q = "homesAsOffices" -> "homes"
                       [] q = "peopleMisjoined" -> "jobs"
                       [] OTHER -> q]

MCRelationsOf ==
  [q \in Queries |-> CASE q = "homes" -> <<"home">>
                       [] q \in {"offices", "homesAsOffices"} -> <<"office">>
                       [] q = "jobs" -> <<"employer">>
                       [] q = "peopleMisjoined" -> <<>>]

MCColumnsOf == [q \in Queries |-> "Id, Name, Id, Title"]

MCMatching == Queries \ {"peopleMisjoined"}
=============================================================================

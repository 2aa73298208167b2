---------------------------- MODULE MC_Compiler ----------------------------
(***************************************************************************)
(* Edit-config documents over one keyed list, "intf" of sys:sys/ifs keyed *)
(* by "name", with one data leaf "mtu".  An entry may carry operation      *)
(* delete or none, its mtu leaf remove or none; a document holds one or    *)
(* two entries with distinct names, in one inner container or split over  *)
(* two, under target running or candidate.  Each pass yields at most four *)
(* units.                                                                  *)
(***************************************************************************)
EXTENDS Compiler

MC_KeyMap == <<"sys", "ifs", "intf">> :> <<"name">> @@ <<"sys", "vlans", "intf">> :> <<"name">>

MC_Entry(n, eop, lop) ==
  [name |-> "intf", op |-> eop,
   leaves |-> <<[tag |-> "name", val |-> n, op |-> "none"],
                [tag |-> "mtu", val |-> "m", op |-> lop]>>]

MC_Entries(n) == {MC_Entry(n, eop, lop) : eop \in {"none", "delete"}, lop \in {"none", "remove"}}

MC_Docs ==
  {[target |-> t, config |-> <<[name |-> "sys", inner |-> inner]>>] :
     t \in {"running", "candidate"},
     inner \in {<<[name |-> "ifs", lists |-> <<e1>>]>> : e1 \in MC_Entries("e1")}
               \cup {<<[name |-> "ifs", lists |-> <<e1, e2>>]>> : e1 \in MC_Entries("e1"), e2 \in MC_Entries("e2")}
               \cup {<<[name |-> "ifs", lists |-> <<e1>>], [name |-> "vlans", lists |-> <<e2>>]>> :
                       e1 \in MC_Entries("e1"), e2 \in MC_Entries("e2")}}
=============================================================================

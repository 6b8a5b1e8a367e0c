------------------------------ MODULE MCHelpers ------------------------------
(* One instance of each group of helpers.  They share nothing, so that a   *)
(* behaviour is of one of them, its part, and the others stay as they are. *)
EXTENDS Lookups, HostChecks, Records, ClassCopies

CONSTANTS addr4, addr6, mapped6, hostA, user1, user2, fld, fldLate, fldExtra, mth, num1,
          val1, val2, pubA, stubA, allowA, privA, slotA

VARIABLE part

T(host, port) == [host |-> host, port |-> port]

Plan(ops, lists, max, shared, count, until) ==
  [crew |-> {user1, user2}, ops |-> ops, lists |-> lists, max_hosts |-> max, shared |-> shared,
   calls |-> count, last |-> until]

MCPlans ==
  {Plan({"check_v4", "check_v4_async"}, {}, 2, TRUE, 3, 2),
   Plan({"check_v4", "check_v4_async"}, {<<T(hostA, "none"), T(addr6, "80")>>}, 3, FALSE, 3, 2),
   Plan({"check_v6", "check_v6_async"}, {<<T(hostA, "other"), T(hostA, "bad"), T(mapped6, "53")>>}, 3, TRUE, 2, 1),
   Plan({"test_hosts", "test_hosts_async"}, {<<T(hostA, "53"), T(addr4, "80"), T(addr6, "53")>>}, 3, TRUE, 2, 0),
   Plan({"check_v4", "test_hosts"}, {<<T(hostA, "none")>>}, NoLimit, TRUE, 2, 0),
   Plan(Checks, {}, 1, TRUE, 1, 0)}

MCV4 == {T(addr4, "80"), T(addr4, "53"), T(hostA, "80")}
MCV6 == {T(addr6, "53"), T(hostA, "80")}

Init ==
  /\ part \in {"lookups", "hosts", "records", "copies"}
  /\ IF part = "lookups" THEN LookupInit
     ELSE /\ req = Call("none", <<hostA>>) /\ pos = 1 /\ answers = <<>> /\ end = "running"
          /\ readers = {} /\ block = "outside"
  /\ HostsInit
  /\ part # "hosts" => plan = CHOOSE p \in Plans : p.max_hosts = NoLimit
  /\ IF part = "records" THEN RecordsInit
     ELSE objs = <<>> /\ items = <<>> /\ mods = <<>> /\ last = <<>>
  /\ IF part = "copies" THEN CopiesInit
     ELSE classes = <<>> /\ objects = <<>> /\ promised = <<>> /\ together = {} /\ appends = 0

Next ==
  /\ UNCHANGED part
  /\ \/ part = "lookups" /\ LookupNext /\ UNCHANGED <<hostVars, recordVars, copyVars>>
     \/ part = "hosts" /\ HostsNext /\ UNCHANGED <<lookupVars, recordVars, copyVars>>
     \/ part = "records" /\ RecordsNext /\ UNCHANGED <<lookupVars, hostVars, copyVars>>
     \/ part = "copies" /\ CopiesNext /\ UNCHANGED <<lookupVars, hostVars, recordVars>>

Spec == Init /\ [][Next]_<<part, lookupVars, hostVars, recordVars, copyVars>>
=============================================================================

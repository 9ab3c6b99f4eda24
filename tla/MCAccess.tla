----------------------------- MODULE MCAccess -----------------------------
(* Who may do what, in two parts chosen in the initial state: the dynamic  *)
(* security plugin (the constants of the configuration file), and the      *)
(* password and ACL files with the older plugins.                          *)
EXTENDS MCDynSec

VARIABLES part, sec, files, cl

Data == INSTANCE MCSecurity WITH
    Clients <- {}, Logins <- {}, Confs <- {}, Reloads <- {}, Plugins <- {}, Topics <- {}, Dangerous <- {},
    conf <- files
Classic == INSTANCE Security WITH
    Clients <- {"x"}, Logins <- Data!SomeLogins, Confs <- Data!SomeConfs, Reloads <- Data!SomeReloads,
    Plugins <- Data!SomePlugins, Topics <- {"t", "a", "$SYS"}, Dangerous <- {"b+"}, conf <- files

MCInit ==
    \/ part = "dynsec" /\ Init /\ sec = 0 /\ files = 0 /\ cl = 0
    \/ part = "classic" /\ Classic!Init /\ Init /\ file = Populated

MCNext ==
    /\ UNCHANGED part
    /\ \/ part = "dynsec" /\ Next /\ UNCHANGED <<sec, files, cl>>
       \/ part = "classic" /\ Classic!Next /\ UNCHANGED vars

MCSpec == MCInit /\ [][MCNext]_<<part, vars, sec, files, cl>>

-----------------------------------------------------------------------------
(* Clients, groups and roles agree on who belongs to whom, and list only   *)
(* such as exist, after any sequence of commands and restarts              *)
(* (dynsec_groups__add_client, dynsec_rolelist__client_add).               *)
ListsAgree == MembershipAgrees /\ ListedExist

(* What a client may read and write is what the lines of the ACL file and  *)
(* the plugins say of its username (mosquitto_acl_check, aclfile__parse).  *)
RightsExact == part = "classic" => Classic!RightsExact

(* A client keeps no entry of an ACL file read before, and one that is     *)
(* connected would be let in by the files as they are now                  *)
(* (mosquitto_security_apply_default).                                     *)
ReloadIsApplied == part = "classic" => Classic!NoStaleEntry /\ Classic!OnlineAreWelcome
=============================================================================

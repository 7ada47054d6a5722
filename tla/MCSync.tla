------------------------------- MODULE MCSync -------------------------------
(* Values for TLC's instances of Sync. *)
EXTENDS Sync, TLC

TwoDepartments == <<"shop", "factories">>

Named(sws, shop, factories) == [s \in System |->
    CASE s = "sws" -> sws [] s = "shop" -> shop [] s = "factories" -> factories]

AsIs       == [s \in System |-> [v \in Value |-> v]]
InCapitals == [AsIs EXCEPT !["shop"]["a"] = "A"]

Address == [name |-> Named("registered_address", "Buss_Addr_Line1", "factory_address"),
            rendered |-> AsIs, policy |-> "SWS_WINS"]

(* The shop keeps signatories in capitals.                                 *)
Signatory == [name |-> Named("authorized_signatory", "Auth_Sign_Name", "signatory_name"),
              rendered |-> InCapitals, policy |-> "SWS_WINS"]

License == [name |-> Named("license_status", "Lic_Status", "lic_status"),
            rendered |-> AsIs, policy |-> "DEPT_WINS"]

AllFields   == {Address, Signatory, License}
AddressOnly == {Address}

(* The instances are such as the mapping files allow.                      *)
ASSUME MappingsAssumption == DeptWinsAsIs
=============================================================================

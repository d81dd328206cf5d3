----------------------- MODULE MCTenantConfiguration -----------------------
(***************************************************************************)
(* An instance of TenantConfiguration for TLC: two tenants, whose ids may  *)
(* be exchanged, and a property that may be empty, by default or not.      *)
(***************************************************************************)
EXTENDS TenantConfiguration, TLC

MCCodes == <<"a", "b">>
MCContents ==
  <<"Defaults", "prop">> :> {"x"} @@ <<"a", "prop">> :> {"", "y"} @@
  <<"a", "tenantId">> :> {"1", "2"} @@ <<"b", "tenantId">> :> {"1", "2"} @@
  <<"a", "enabled">> :> {"true", "false"}
MCVariables == DOMAIN MCContents
MCDisks ==
  {[v \in MCVariables |-> IF v \in absent THEN Absent
                          ELSE IF v[2] = "tenantId" THEN (IF v[1] = "a" THEN "1" ELSE "2")
                          ELSE CHOOSE content \in MCContents[v] : content # ""] :
     absent \in {{}, {<<"a", "prop">>, <<"a", "enabled">>}}}
=============================================================================

--------------------------------- MODULE Roles ---------------------------------
(***************************************************************************)
(* Who may do what: the six roles of a member, and can(), which relaxes    *)
(* every check outside prod and for the staff of the scanning vendor.      *)
(***************************************************************************)

CONSTANTS Prod,        \* getAppMode() = "prod"
          Tokens,      \* the access tokens the identity provider has signed
          StaffTokens  \* those whose realm roles include the staff role

ASSUME RolesAssumption ==
    /\ Prod \in BOOLEAN
    /\ StaffTokens \subseteq Tokens

Managers == {"organization_owner", "security_admin"}

Operators == Managers \cup {"scan_operator"}

Roles == Operators \cup {"asset_manager", "report_viewer", "billing_admin"}

\* The roles that hold a permission in prod; "scope.attest" is held for submitted
\* versions only, and no handler asks for it.
Holders(action) ==
    CASE action \in {"scope.attest", "scope.approve", "scope.manage", "authorization.issue",
                     "member.invite", "dispute.moderate", "api-key.manage",
                     "team.manage", "session.revoke", "audit.view"} -> Managers
      [] action \in {"scope.view", "scan.view"} -> Operators \cup {"asset_manager"}
      [] action = "finding.dispute" -> Roles \ {"billing_admin"}
      [] action \in {"asset.manage", "team.view"} -> Managers \cup {"asset_manager"}
      [] action = "scan.run" -> Operators
      [] action = "report.view" -> Managers \cup {"report_viewer"}
      [] action = "org.view" -> Roles
      [] action = "org.manage" -> {"organization_owner"}
      [] OTHER -> {}

\* Staff rights come from the verified realm roles of the token; the override
\* by STAFF_USER_IDS exists only outside prod.
IsStaff(token) == token \in StaffTokens

Can(token, role, action) ==
    \/ ~ Prod
    \/ IsStaff(token)
    \/ role \in Holders(action)
================================================================================

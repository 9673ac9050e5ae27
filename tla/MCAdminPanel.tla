---------------------------- MODULE MCAdminPanel ----------------------------
(***************************************************************************)
(* The two pages of the admin panel that share no state, for TLC: the      *)
(* operators' accounts and the city's configuration.  One of them is in    *)
(* use, the other stays as it begins.                                      *)
(***************************************************************************)
EXTENDS AdminAccounts, CityConfig, TLC

VARIABLE page

PageAccounts == page = "accounts" /\ Next /\ UNCHANGED <<page, configVars>>
PageConfig   == page = "config" /\ ConfigNext /\ UNCHANGED <<page, vars>>

\* The page of the configuration does not tell the first owners apart.
PanelInit ==
    /\ page \in {"accounts", "config"} /\ Init /\ ConfigInit
    /\ page = "accounts" \/ \A u \in DOMAIN user : ~user[u].weak
PanelNext == PageAccounts \/ PageConfig
PanelSpec == PanelInit /\ [][PanelNext]_<<page, vars, configVars>>

\* A name, a role each way, both ways of `disabled`, a new password.
OneColumn == {NoChange} \cup [{"role"} -> {"owner", "admin"}] \cup [{"disabled"} -> BOOLEAN]
                 \cup [{"password"} -> Passwords]

Alike == Permutations(Users) \cup Permutations(Passwords) \cup Permutations(Subjects)
            \cup Permutations(Tokens) \cup Permutations(Callers) \cup Permutations(Calls)

=============================================================================

---------------------------- MODULE MCConnection ----------------------------
(* Finite values for the constants of Connection.                          *)
EXTENDS Connection

MCDeferreds == 1..8

FewDeferreds == 1..7

MCCallbacks == {"auth_cb", "auth_err", "do_auth_cb", "do_auth_err",
                "workspaces_cb", "workspaces_err", "switch_cb", "switch_err",
                "get_contacts_cb", "get_contacts_err", "contacts_cb",
                "contacts_err", "ping_err"}

MCChains == ConnectionChains
=============================================================================

----------------------------- MODULE MCAccounts -----------------------------
(***************************************************************************)
(* SignIn with a customer, an admin, a revoked admin and an address that   *)
(* has no account yet.  Each workload brings together requests that meet   *)
(* on the same user; the others stay idle.                                 *)
(***************************************************************************)
EXTENDS SignIn, TLC

CONSTANTS cu, ad, old, nobody, k1, k2, k3, k4, k5, r1, r2, r3, r4

MCUser    == {cu, ad, old, nobody}
MCToken   == {k1, k2, k3, k4, k5}
MCRequest == {r1, r2, r3, r4}

Acct(role, active, secret) == [role |-> role, active |-> active, secret |-> secret]

MCAccount ==
  [u \in MCUser |-> CASE u = cu  -> Acct("customer", TRUE, TRUE)
                      [] u = ad  -> Acct("admin", TRUE, TRUE)
                      [] u = old -> Acct("customer", FALSE, FALSE)
                      [] OTHER   -> Acct("absent", FALSE, FALSE)]

(* Four requests, of the given kinds, about one user and its sessions. *)
On(u, opened, a, b, c, d) ==
  [job |-> [r \in MCRequest |->
     [user |-> u, kind |-> CASE r = r1 -> a [] r = r2 -> b [] r = r3 -> c [] OTHER -> d]],
   opened |-> [k \in opened |->
     [user |-> u, aud |-> IF u = cu THEN "customer" ELSE "admin"]]]

MCWorkload ==
  {On(cu, {k1}, "refresh", "refresh", x, "none") : x \in {"refresh", "logout", "pin", "reset"}}
  \cup {On(cu, {}, "login", "login", "login", "none")}
  \cup {On(cu, {k1, k2}, "pin", x, "none", "none") : x \in {"pin", "reset"}}
  \cup {On(cu, {k1}, "pin", "login", "reset", "none")}
  \cup {On(ad, {k1}, "refresh", "revoke", "refresh", "none")}
  \cup {On(ad, {}, "verify", "verify", x, "none") : x \in {"verify", "revoke"}}
  \cup {On(ad, {}, "adminLogin", x, "none", "none") : x \in {"adminLogin", "verify"}}
  \cup {On(ad, {}, "resend", x, "none", "none") : x \in {"verify", "adminLogin"}}
  \cup {On(u, {}, "grant", x, "setPassword", "revoke") : u \in {old, nobody}, x \in {"grant", "none"}}

MCMailed == [c \in {1} |-> ad]

=============================================================================

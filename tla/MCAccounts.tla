----------------------------- MODULE MCAccounts -----------------------------
(***************************************************************************)
(* An instance of Accounts for TLC: either requests of codes for and       *)
(* registrations of a new address, or a login of a registered user and     *)
(* what can be done with its tokens: any three entries of a menu.  Plans   *)
(* are multisets: which request has which number makes no difference.      *)
(***************************************************************************)
EXTENDS Accounts, Sequences, TLC

Ask(op, by) == [op |-> op, by |-> by]

Registering == << Ask("getcode", 2), Ask("getcode", 2), Ask("register", 2), Ask("register", 2),
                  Ask("getcode", 3) >>
Sessions == << Ask("refresh", 1), Ask("refresh", 1), Ask("logout", 1), Ask("logout", 1),
               Ask("me", 1) >>

Choices(menu, n) ==
  {q \in [1..n -> 1..Len(menu)] : \A i, j \in 1..n : i < j => q[i] < q[j]}

PlansOf(first, menu) ==
  { [r \in Reqs |-> IF r = 1 THEN first ELSE menu[q[r - 1]]] : q \in Choices(menu, MaxReqs - 1) }

MCPlans ==
  PlansOf(Ask("getcode", 2), Registering) \cup PlansOf(Ask("login", 1), Sessions)

=============================================================================

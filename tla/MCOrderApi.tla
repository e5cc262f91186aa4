------------------------------- MODULE MCOrderApi -------------------------------
(* A small instance of OrderApi for TLC. *)
EXTENDS OrderApi

CONSTANTS alice, root, r1, r2

(* Tokens of both providers, and none. *)
NoToken == [bearer |-> FALSE, alg |-> "", kid |-> FALSE, genuine |-> FALSE,
            subject |-> Nobody, roles |-> {}]

Local(u, role) == [bearer |-> TRUE, alg |-> "HS256", kid |-> FALSE, genuine |-> TRUE,
                   subject |-> u, roles |-> {role}]

Keycloak(u, role) == [bearer |-> TRUE, alg |-> "RS256", kid |-> TRUE, genuine |-> TRUE,
                      subject |-> u, roles |-> {role, "offline_access"}]

Capitals == [x \in {"ADMIN", "CUSTOMER", "admin", "customer", "offline_access"} |->
  CASE x \in {"ADMIN", "admin"} -> "ADMIN"
    [] x \in {"CUSTOMER", "customer"} -> "CUSTOMER"
    [] OTHER -> "OFFLINE_ACCESS"]

Widest == 10

Item(product, price, quantity) == [product |-> product, price |-> price, quantity |-> quantity]

Request(route, token) ==
  [route |-> route, token |-> token, order |-> 0, name |-> "given",
   items |-> <<Item("known", 3, 2)>>, login |-> "right"]

Create == Request("create", Local(alice, "CUSTOMER"))

About(route, o, token) == [Request(route, token) EXCEPT !.order = o]

(* Order 3 is alice's and has failed, the others are root's; 9 is no identifier. *)
Finished(owner, status) == [status |-> status, owner |-> owner, at |-> 1, event |-> "done"]

Rows(existing) ==
  [o \in {1, 2, 3, 4} |->
    IF o \notin existing THEN NoRow
    ELSE IF o = 3 THEN Finished(alice, "FAILED") ELSE Finished(root, "PROCESSED")]

(* Orders are created while an administrator pages. *)
Paging ==
  [provider |-> "local", existing |-> Rows({1, 3}), walkers |-> {Local(root, "ADMIN")},
   asked |-> {Create}]

(* Creations that are refused, each by another part of the code, while a customer pages. *)
Refused ==
  [provider |-> "local", existing |-> Rows({1, 3, 4}), walkers |-> {Local(alice, "CUSTOMER")},
   asked |-> {Create, Request("create", NoToken),
     [Create EXCEPT !.items = <<>>],
     [Create EXCEPT !.name = "blank"],
     [Create EXCEPT !.items = <<Item("known", -1, 1)>>],
     [Create EXCEPT !.items = <<Item("other", 1, 1)>>],
     [Create EXCEPT !.items = <<Item("known", 6, 2)>>],
     [Create EXCEPT !.items = <<Item("known", 1, 1), Item("known", 1, 1)>>]}]

(* An order is sent back, twice at once, while its owner looks at it. *)
SendingBack ==
  [provider |-> "local", existing |-> Rows({1, 3, 4}), walkers |-> {},
   asked |-> {About("reprocess", 3, Local(alice, "CUSTOMER")),
     About("get", 1, Local(alice, "CUSTOMER")), About("get", 3, Local(alice, "CUSTOMER"))}
     \union {About("reprocess", o, Local(root, "ADMIN")) : o \in {2, 3, 9}}]

(* Every kind of connection is wanted at once. *)
Connections ==
  [provider |-> "local", existing |-> Rows({1, 3, 4}), walkers |-> {},
   asked |-> {Create, About("get", 3, Local(root, "ADMIN")), Request("ready", NoToken),
     Request("login", NoToken), [Request("login", NoToken) EXCEPT !.login = "malformed"]}]

(* Tokens and logins of the other provider. *)
AtKeycloak ==
  [provider |-> "keycloak", existing |-> Rows({1, 3, 4}), walkers |-> {},
   asked |-> {Create, Request("create", Keycloak(alice, "customer")),
     About("reprocess", 3, Keycloak(alice, "customer")),
     About("reprocess", 3, Keycloak(root, "admin")),
     Request("login", NoToken), [Request("login", NoToken) EXCEPT !.login = "wrong"]}]

Together == {Paging, Refused, SendingBack, Connections, AtKeycloak}
=============================================================================

--------------------------- MODULE MCRegistration ---------------------------
(* Scenes: an empty table; two users who link and sign in; one user who unlinks;  *)
(* one user, and an administrator who creates others.                             *)
EXTENDS Registration, TLC

MCIdentities ==
    {[provider |-> "p", sub |-> "x", email |-> "e", verified |-> TRUE],
     [provider |-> "r", sub |-> "x", email |-> NoEmail, verified |-> FALSE]}

Row(e, v) == [st |-> "live", email |-> e, verified |-> v, role |-> "user"]
Empty == [u \in Ids |-> Unborn]
Acc(u, p) == [user |-> u, provider |-> p, sub |-> "x"]
Nobody == [b \in Browsers |-> NoUser]

MCScenes ==
    {[ops |-> {"bootstrap", "signup", "delete", "abort"}, users |-> Empty, password |-> {}, accounts |-> {},
      signed |-> Nobody],
     [ops |-> {"oauth", "signup"}, users |-> Empty, password |-> {}, accounts |-> {}, signed |-> Nobody],
     [ops |-> {"link", "oauth", "expire", "abort"}, users |-> [Empty EXCEPT !["u1"] = Row("e", TRUE), !["u2"] = Row("f", FALSE)],
      password |-> {"u1", "u2"}, accounts |-> {}, signed |-> ("b1" :> "u1" @@ "b2" :> "u2")],
     [ops |-> {"unlink", "link"}, users |-> [Empty EXCEPT !["u1"] = Row("e", FALSE)],
      password |-> {}, accounts |-> {Acc("u1", "p"), Acc("u1", "r")}, signed |-> [Nobody EXCEPT !["b1"] = "u1"]],
     [ops |-> {"unlink", "magic"}, users |-> [Empty EXCEPT !["u1"] = Row("e", FALSE), !["u2"] = Row("f", TRUE)],
      password |-> {"u1", "u2"}, accounts |-> {Acc("u1", "p")}, signed |-> [Nobody EXCEPT !["b1"] = "u1"]],
     [ops |-> {"admin", "signup", "abort"}, users |-> Empty, password |-> {}, accounts |-> {}, signed |-> Nobody],
     [ops |-> {"admin", "magic"}, users |-> [Empty EXCEPT !["u1"] = Row("f", TRUE)],
      password |-> {"u1"}, accounts |-> {}, signed |-> Nobody]}
=============================================================================

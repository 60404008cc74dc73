----------------------------- MODULE MCConsole -----------------------------
(* The parts share nothing, so they may share their symmetric values: x1, x2  *)
(* are the accounts, the log filters, the chat accounts, the reasoning levels *)
(* and the browsers; y1, y2 the operations, the models and the proxy workers. *)
EXTENDS Console, TLC

CONSTANTS X, Y
Symmetry == Permutations(X) \union Permutations(Y)

MCMethods == [p \in Provider |-> IF p = "trae" THEN {"browser", "import"}
                                 ELSE IF p = "command" THEN {"pat", "import"} ELSE {"import"}]

F(json, hint, has, domains) == [json |-> json, hint |-> hint, has |-> has, domains |-> domains]
MCFile == {F(FALSE, "", {}, {}), F(TRUE, "", {"token"}, {"cn"}), F(TRUE, "workbuddy", {"list"}, {"global"}),
           F(TRUE, "", {"list"}, {"cn", "global"}), F(TRUE, "trae", {"token"}, {}),
           F(TRUE, "unknown", {"key", "org"}, {}), F(TRUE, "unknown", {"token", "dca"}, {"other"})}

MCRegions == {<<"workbuddy", "cn">>, <<"workbuddy", "global">>, <<"qoder", "cn">>}
MCRow     == {<<"k1", "cn">>, <<"k1", "global">>, <<"k2", "cn">>}
MCTyped   == {<<"h1", "pw">>, <<"h2", "pw">>}
=============================================================================

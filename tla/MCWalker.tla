------------------------------- MODULE MCWalker -------------------------------
(***************************************************************************)
(* Two operations that share a response through $refs; the response has    *)
(* headers and schemas, in place or through $refs, and the schemas refer   *)
(* to one another and to themselves.  Everything that is shared is also a  *)
(* component of the root, which the walk comes to last.                    *)
(***************************************************************************)
EXTENDS Walker

MCNodes == {"root", "o", "p", "r", "h", "j", "s", "t"}
MCType ==
  [n \in MCNodes |->
     CASE n = "root" -> "Root" [] n \in {"o", "p"} -> "Operation" [] n = "r" -> "Response"
       [] n \in {"h", "j"} -> "Header" [] OTHER -> "Schema"]
MCTypes == {"Root", "Operation", "Response", "Header", "Schema"}
MCBetween ==
  [w \in MCTypes \X MCTypes |->
     CASE w = <<"Operation", "Schema">> -> {"Response", "Header"}
       [] w = <<"Operation", "Header">> -> {"Response"}
       [] w = <<"Response", "Schema">> -> {"Header", "Operation"}
       [] OTHER -> {}]

RefKid(n) == Kid(n, TRUE)
InKid(n) == Kid(n, FALSE)
Lists(k, S) == UNION {[1..i -> S] : i \in 0..k}

Graphs ==
  { [n \in Nodes |->
       CASE n = "root" -> <<InKid("o"), InKid("p"), InKid("r"), InKid("h"), InKid("s"), InKid("t")>>
         [] n = "o" -> o [] n = "p" -> <<RefKid("r")>> [] n = "r" -> r [] n = "h" -> h
         [] n = "j" -> <<RefKid("t")>> [] n = "s" -> s [] OTHER -> <<RefKid("s")>>] :
      o \in {<<RefKid("r")>>, <<RefKid("r"), RefKid("r")>>, <<RefKid("r"), RefKid("s")>>},
      r \in Lists(1, {RefKid("s")}) \cup Lists(2, {RefKid("h"), InKid("j")}) \cup {<<RefKid("o"), RefKid("t")>>},
      h \in {<<>>, <<RefKid("t"), RefKid("s")>>},
      s \in {<<>>, <<RefKid("s")>>, <<RefKid("t")>>} }

OperationSchema == <<"Operation", "Schema">>
RuleSets ==
  { {OperationSchema, <<"Schema">>},
    {<<"Operation", "Response", "Schema">>, <<"Response">>},
    {OperationSchema, <<"Response", "Schema">>},
    {<<"Operation", "Header">>, <<"Schema">>} }

\* What a rule skips: nothing, one schema, or one operation with all that is below.
Skips ==
  { {}, {<< <<OperationSchema, 2>>, "s" >>}, {<< <<(<<"Schema">>), 1>>, "s" >>},
    {<< <<OperationSchema, 1>>, "o" >>} }

MCWalkerInit ==
  \E d \in Graphs, rs \in RuleSets, ss \in Skips :
    (\A x \in ss : x[1][1] \in rs) /\ WalkerInit(d, rs, ss)

MCWalkerSpec == MCWalkerInit /\ [][WalkNext]_walkerVars /\ WF_walkerVars(WalkNext)
==============================================================================

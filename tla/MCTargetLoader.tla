---------------------------- MODULE MCTargetLoader ----------------------------
(* TargetLoader on three files and the directory that holds two of them. *)
EXTENDS TargetLoader, TLC

CONSTANTS a, b, c, d, t1, t2, t3, s1, x, y

MCSchema(nodes, child) ==
  [name |-> s1, nodes |-> nodes,
   required |-> [root |-> {}, child |-> child]]

MCTarget(name, schema, mode, nodes) ==
  [name |-> name, schema |-> schema,
   kind |-> IF schema = None THEN None ELSE "child", mode |-> mode, nodes |-> nodes]

MCContents(imports, schemaLists, targetLists) ==
  [imports : imports, schemas : schemaLists, targets : targetLists]

\* Up to two imports, in any order, of any file or of the directory.
MCImports == {<<>>} \cup {<<p>> : p \in Files \cup Dirs}
             \cup {<<p, q>> : p, q \in Files \cup Dirs}

OneSchema == <<MCSchema(<<x>>, {x})>>
OtherSchema == <<MCSchema(<<y>>, {x})>>

\* One target, without a schema or with one that its own nodes may extend.
Uses(name) ==
  { <<MCTarget(name, None, "replace", <<y>>)>>,
    <<MCTarget(name, s1, "replace", <<>>)>>,
    <<MCTarget(name, s1, "append", <<y>>)>> }

SmallContents ==
  [ f \in Files |->
      CASE f = a -> MCContents(MCImports, {<<>>}, Uses(t1))
        [] f = b -> MCContents({<<>>, <<c>>, <<a>>, <<d>>, <<c, a>>},
                               {<<>>, OneSchema, OtherSchema}, {<<>>})
        [] OTHER -> MCContents({<<>>, <<b>>, <<d>>}, {<<>>, OneSchema},
                               { <<MCTarget(t1, None, "replace", <<y>>)>>,
                                 <<MCTarget(t2, s1, "replace", <<y>>)>>,
                                 <<MCTarget(t3, s1, "append", <<y>>)>> })
                    \cup {Unreadable} ]

SmallListings == [ e \in Dirs |-> {<<a, b>>, <<b, c>>} ]
================================================================================

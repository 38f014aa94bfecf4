-------------------------- MODULE MCMountIsolation --------------------------
(* Instances of MountIsolation for TLC: a handful of names, the root trees *)
(* and lists of bind mounts that lead to different decisions.              *)
EXTENDS MountIsolation

Etc == <<"etc">>
Data == <<"data">>
Sub == <<"data", "sub">>
Nested == <<"nested">>

MCPaths == {Dev, Proc, Etc, ResolvConf, Data, Sub, Nested}

Ro(t) == [target |-> t, source |-> "in", writable |-> FALSE]
Rw(t) == [target |-> t, source |-> "out", writable |-> TRUE]

\* None, two apart (one of them on the nested file system), two that overlap in
\* either order, and one above a private mount.
BindLists ==
  {<<>>, <<Rw(Data), Ro(Nested)>>, <<Rw(Sub), Ro(Data)>>, <<Ro(Data), Rw(Sub)>>, <<Rw(Etc)>>}

MCConfigs == [readOnly : BOOLEAN, dns : BOOLEAN, binds : BindLists]

CompleteTree == [p \in MCPaths |-> IF p = ResolvConf THEN "file" ELSE "dir"]
BareTree == [p \in MCPaths |-> "none"]
OddTree == [CompleteTree EXCEPT ![Data] = "file", ![Sub] = "none", ![ResolvConf] = "none"]

MCTrees == {CompleteTree, BareTree, OddTree}
=============================================================================

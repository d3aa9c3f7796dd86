------------------------------ MODULE MCFatDirectory ----------------------------
(* Names on small volumes, and every short path. *)
EXTENDS FatDirectory

VARIABLE which

\* Names: volumes with entries of every kind in the root or in the directory "d", which
\* has one cluster, two, or a chain that does not end.
SmallLetters == ("A" :> "a") @@ ("B" :> "b") @@ ("D" :> "d")
Entry(c, x, attribute, cluster) ==
  [filename |-> <<c, " ">>, ext |-> <<x>>, attribute |-> attribute, cluster |-> cluster]
End      == Entry("NUL", "NUL", "file", 0)
Deleted  == Entry("E5", " ", "file", 0)
FileA    == Entry("A", " ", "file", 0)
Few      == {End, Deleted, FileA}
Kinds    == Few \cup {Entry("A", "B", "lfn", 0)}
AllKinds == Kinds \cup {Entry("E5", "A", "lfn", 0), Entry("B", "A", "file", 0), Entry("A", " ", "label", 0)}

Live(e) == e.filename[1] \notin {"NUL", "E5"} /\ e.attribute \notin {"lfn", "label"}
\* No two files of a directory have the same name.
Distinct(entries) ==
  \A i, j \in DOMAIN entries :
    i < j /\ Live(entries[i]) /\ entries[i] = entries[j] => \E k \in 1 .. j : entries[k] = End

Slots(n, kinds) == {s \in [1 .. n -> kinds] : Distinct(s)}
Media(inroot, below) ==
  [p \in {<<0, i>> : i \in 0 .. 3} \cup ({2, 3} \X {0, 1}) |->
     IF p = <<0, 0>> THEN Entry("D", " ", "directory", 2)
     ELSE IF p[1] = 0 THEN inroot[p[2]] ELSE below[2 * (p[1] - 2) + p[2] + 1]]
TwoClusters == (2 :> 3) @@ (3 :> 0)
OneCluster  == (2 :> 0) @@ (3 :> 0)
Astray      == (2 :> 9) @@ (3 :> 0)
Loop        == (2 :> 3) @@ (3 :> 2)

SmallVolumes ==
  {[media |-> Media(s, <<End, End, End, End>>), fat |-> TwoClusters] : s \in Slots(3, AllKinds)} \cup
  {[media |-> Media(<<End, End, End>>, s), fat |-> TwoClusters] : s \in Slots(4, Kinds)} \cup
  {[media |-> Media(<<End, End, End>>, s), fat |-> Loop] : s \in Slots(4, Few)} \cup
  {[media |-> Media(<<End, End, End>>, s \o <<End, End>>), fat |-> f] :
     s \in Slots(2, Few), f \in {OneCluster, Astray}}

Opened == {<<"a">>, <<"A", ".", "b">>, <<"b", ".", "a">>, <<"d", "/", "A">>, <<"D", "/", "a", "b">>,
           <<"d">>, <<"a", "/", "a">>}

\* Paths: every string of up to five characters.
Strings == UNION {[1 .. n -> Plain \cup {".", "/", "*"}] : n \in 0 .. 5}
Path == INSTANCE FatDirectory WITH
          Paths <- Strings, MaxOpens <- 0,
          Volumes <- {[media |-> Media(<<End, End, End>>, <<End, End, End, End>>), fat |-> TwoClusters]}

-------------------------------------------------------------------------------
MCInit ==
  /\ which \in {"names", "paths"}
  /\ IF which = "names" THEN DirectoryInit ELSE Path!DirectoryInit

MCNext ==
  /\ UNCHANGED which
  /\ \/ which = "names" /\ DirectoryNext
     \/ which = "paths" /\ Path!DirectoryNext

MCSpec == MCInit /\ [][MCNext]_<<directoryVars, which>>

\* A path is accepted just when it is made of 8.3 names, and each is read back from the
\* entry that is made for it, for every path of up to five characters.
NamesRoundTrip == which = "paths" => Path!RoundTrip
=================================================================================

-------------------------- MODULE MCArchiveExtract --------------------------
(* Archives of up to five entries out of every kind, with names above and   *)
(* below each other, sizes around the limits and names in several raw forms. *)
EXTENDS ArchiveExtract

Entry(name, kind, mode, size, data, target) ==
  [name |-> name, kind |-> kind, mode |-> mode, size |-> size, data |-> data,
   target |-> target, standard |-> mode = Permissions]

A == <<"a">>
AB == <<"a", "b">>
ABC == <<"a", "b", "c">>
AN == <<"a", "n">>
D == <<"d">>

MCDevices == {AN}

Directories ==
  {Entry(n, "dir", m, 0, 0, A) : n \in {A, AB}, m \in {{}, {"x"}, Permissions}}
Files ==
  {Entry(n, "reg", {"w"}, s[1], s[2], A) :
     n \in {A, ABC, D}, s \in {<<0, 0>>, <<2, 2>>, <<1, 2>>, <<2, 1>>}}
  \cup {Entry(D, "reg", {"w"}, 3, 3, A), Entry(AB, "reg", {"w"}, 1, 3, A)}
Symlinks ==
  {Entry(n, "symlink", {}, 0, 0, t) :
     n \in {A, ABC}, t \in {<<"d">>, <<"..", "d">>, <<"", "d">>, <<"", "", "d">>}}
Links == {Entry(n, "link", {}, 0, 0, t) : n \in {AB, D}, t \in {A, AB, ABC, <<"..">>}}
Others ==
  {Entry(AN, "char", m, 0, 0, A) : m \in {{}, Permissions}}
  \cup {Entry(D, "char", Permissions, 0, 0, A), Entry(D, "other", {}, 0, 0, A)}
RawNames ==
  {Entry(n, "dir", {"x"}, 0, 0, A) :
     n \in {<<".">>, <<".", "">>, <<".", ".", "d">>, <<".", "a", "">>, <<"", "a">>,
            <<"a", "..", "d">>, <<"a", "", "b">>, <<".", ".">>}}
  \cup {Entry(<<".">>, "reg", {}, 0, 0, A)}

MCEntries == Directories \cup Files \cup Symlinks \cup Links \cup Others \cup RawNames
=============================================================================

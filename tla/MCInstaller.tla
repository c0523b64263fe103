---------------------------- MODULE MCInstaller ----------------------------
(***************************************************************************)
(* Instances of Installer for TLC: two packages that share the directory   *)
(* P\S, and instances of one package with many directories, whose names may  *)
(* begin alike.                                                            *)
(***************************************************************************)
EXTENDS Installer

MCPackages == {"P", "Q"}

\* P installs in \P and Q in \Q, unless the user names \P for either.
MCDefaultDir == [p \in MCPackages |-> <<p>>]
MCGivenDirs == {<<"P">>}

\* P has two pages and puts files in S, which Q does too.
MCPages == [p \in MCPackages |->
  IF p = "P" THEN << << <<"a">>, <<"s", "b">> >>, << <<"s", "c">> >> >>
             ELSE << << <<"s", "d">> >> >>]

MCNames == {<<"a">>, <<"s">>, <<"s", "b">>, <<"s", "c">>, <<"s", "d">>, <<"s", "u">>}
MCPaths == {<<"P">>, <<"Q">>} \cup {d \o x : d \in {<<"P">>, <<"Q">>}, x \in MCNames}

MCUserPaths == {<<"P", "s", "u">>}
MCInitialDirs == {<<"P">>, <<"P", "s">>}
None == {}
Dying == {"die"}
Everything == {"die", "unlink", "retry", "power", "entry", "write"}

\* A smaller drive for the faults: both packages install in \P only, and P has
\* a directory in S, so that S is deleted at the second attempt.
SmallDefaultDir == [p \in MCPackages |-> <<"P">>]
SmallPages == [p \in MCPackages |->
  IF p = "P" THEN << << <<"s", "x", "b">> >>, << <<"a">> >> >> ELSE << << <<"s", "d">> >> >>]
SmallPaths == {<<"P">>, <<"P", "a">>, <<"P", "s">>, <<"P", "s", "d">>,
               <<"P", "s", "x">>, <<"P", "s", "x", "b">>}

\* One package whose every file is two directories below \T.
One == {"T"}
TDefaultDir == [p \in One |-> <<"T">>]
TreePages(dirs) == [p \in One |-> << [k \in DOMAIN dirs |-> <<dirs[k], "x", "f">>] >>]
TreePaths(dirs) == {<<"T">>} \cup
  {<<"T">> \o SubSeq(<<d, "x", "f">>, 1, i) : d \in ToSet(dirs), i \in 1..3}

\* With \T, as many directories to put off as uninstall() can remember
FourDirs == <<"s", "st", "t", "u">>
FourPages == TreePages(FourDirs)
FourPaths == TreePaths(FourDirs)
FourDeletable == {<<"T", "s", "x", "f">>, <<"T", "s", "x">>, <<"T", "s">>}

\* S is the beginning of the name ST, which comes after it.
Prefix == {<<"s", "st">>}
=============================================================================

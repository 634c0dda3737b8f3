----------------------------- MODULE MCDownloadApi -----------------------------
(* A game and a newer build of it from git, which depend on a library;          *)
(* a later edition of the library depends on the game.  A map depends on the    *)
(* game, an engine on nothing.                                                  *)
EXTENDS DownloadApi

CONSTANTS game1, gitgame, lib1, lib2,         \* packages
          Game, NewGame, Lib,                        \* their names
          gametag, libtag, newtag,
          any, none, mapfile, enginefile

MCPackages == {game1, gitgame, lib1, lib2}
MCName ==
  [p \in MCPackages |->
     CASE p = game1 -> Game [] p = gitgame -> NewGame [] p \in {lib1, lib2} -> Lib]
MCDepends ==
  [p \in MCPackages |->
     CASE p \in {game1, gitgame} -> Lib [] p = lib2 -> Game [] OTHER -> none]
MCTags == {gametag, libtag, newtag}
\* gametag and libtag come before each other, newtag comes after both.
MCSpelling ==
  [t \in MCTags |-> CASE t = gametag -> <<1, 3>> [] t = libtag -> <<2, 2>> [] OTHER -> <<3, 3>>]
MCReleases ==
  << << <<[tag |-> gametag, pkg |-> game1]>> >>,
     << <<[tag |-> libtag, pkg |-> lib1]>>, <<[tag |-> newtag, pkg |-> lib2]>> >> >>
MCGitBuild == [t \in MCTags |-> IF t = gametag THEN {gitgame} ELSE {}]
MCQueries ==
  {[text |-> gametag, game |-> TRUE], [text |-> mapfile, game |-> FALSE],
   [text |-> enginefile, game |-> FALSE]}
MCHttpHits ==
  [t \in Texts \cup HttpNames |->
     CASE t = mapfile -> << [name |-> mapfile, kind |-> "http", depend |-> <<Game>>] >>
       [] t = enginefile -> << [name |-> enginefile, kind |-> "engine", depend |-> <<>>] >>
       [] OTHER -> <<>>]
MCHttpNames == {mapfile, enginefile}
================================================================================

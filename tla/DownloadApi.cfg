CONSTANTS
  game1 = game1
  gitgame = gitgame
  lib1 = lib1
  lib2 = lib2
  Game = Game
  NewGame = NewGame
  Lib = Lib
  gametag = gametag
  libtag = libtag
  newtag = newtag
  any = any
  none = none
  mapfile = mapfile
  enginefile = enginefile
  Packages <- MCPackages
  Name <- MCName
  Depends <- MCDepends
  Tags <- MCTags
  Spelling <- MCSpelling
  Releases <- MCReleases
  GitBuild <- MCGitBuild
  Star = any
  NoText = none
  RecLimit = 2
  MaxList = 2
  Queries <- MCQueries
  HttpHits <- MCHttpHits
  HttpNames <- MCHttpNames
  MaxAdds = 1
SPECIFICATION FairSpec
INVARIANTS TypeOK TrueMeansPassed GitAnswers ZeroMeansPassed ResultsStayKnown
PROPERTY CallReturns
CHECK_DEADLOCK FALSE

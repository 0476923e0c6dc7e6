SPECIFICATION Spec
CONSTANTS
  Names = {"a", "b", "c", "d"}
  Tarballs = {"tar"}
  Paths = {"path"}
  Gids = {"g", "h"}
  NoEnv = "no_env"
  NoGid = "no_gid"
  MaxPools = 7
  Plans <- Together
INVARIANTS TypeOK FoundWhereLoaded NoEmptyPools DirFollowsPool
CHECK_DEADLOCK FALSE

SPECIFICATION Spec
CONSTANTS
  ProgramNames = {"cmd_wrapper", "file_trace", "dependency", "update_list", "confdialog", "textbox",
                  "isomd5", "ifenslave", "lua_gc", "lua_table", "lua_match", "lua_thread", "lua_chunk", "lua_sort",
                  "luabash", "parasim", "emerge_pkg", "config", "build_tools", "build_dirs"}
  None = None
  Command = "gcc"
  MyName = "cmd_wrapper"
  OtherNames = {"ccache", "distcc", "dietlibc"}
  MyPath = "wrapper"
  Empty = ""
  Joined = ":"
  Pids = {1, 2}
  First = 1
  MaxProcs = 3
  MaxLines = 4
  Pkgs = {"a", "b", "c"}
  NotThere = "x"
  Wanted = "a"
  Digit = FALSE
  Tags = {"V", "D"}
  CurlCodes = {1, 28}
  Signals = {9, 15}
  Width = 20
  BoxWidth = 3
  MaxLen = 6
  Letters = {"a", "h"}
  BUF_SIZE = 4
  BoxRows = 2
  MaxShift = 1
  SECTOR = 4
  FIRST = 2
  APP_OFFSET = 1
  APP_LEN = 3
  TEXT_LEN = 2
  SKIPSECTORS = 1
  BUFSIZE = 8
  BLOCK = 2
  Sizes = {3, 4, 5}
  Master = "bond0"
  Cards = {"eth0", "eth1"}
  Abis = {0, 1, 2}
  SlaveLists <- Slaves
  MaxFailures = 2
  MaxObjects = 4
  GCSWEEPMAX = 2
  Slots = 2
  Mutators <- MutatorPrograms
  Ints = {1, 2, 3}
  MAXBITS = 3
  NUL = "0"
  Coroutines = {"c1", "c2"}
  MaxFrames = 4
  LUAI_MAXCCALLS = 3
  MaxSteps = 8
  BITRK = 256
  MAXINDEXRK = 1
  LFIELDS_PER_FLUSH = 2
  StackSize = 24
  Hole = 99
  LUA_MINSTACK = 3
  EXTRA_STACK = 2
  BASIC_STACK_SIZE = 6
  FrameSizes = {2}
  ArgCounts = {1, 5, 9}
  MessageParts = 3
  MaxLeft = 6
  NumPackages = 4
  T2Debug = 0
  NoBrokenDeps = FALSE
  Parallel = {0, 1, 2, 3}
  Installable = {1, 2, 3}
  Users = {"u1", "u2"}
  Configs = {"one", "other"}
  MaxFiles = 2
  MaxKills = 1
  Makers = {1, 2}
  Flags = {"", "cleanup", "skip"}
  MaxEdits = 2
  Builds = {1, 2}
  Kinds = {"target", "byhand"}
  MaxKilled = 1
INVARIANTS
  ProgramTypesOK
  WrappersAreRight
  ScriptsAreRight
  ReportsAreRight
  ToolsAreRight
  
  HeapIsSafe
  TablesAreRight
  MatchesAreRight
  ThreadsAreRight
  ChunksAreRight
CHECK_DEADLOCK FALSE
